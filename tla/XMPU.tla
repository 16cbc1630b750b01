-------------------------------- MODULE XMPU --------------------------------
(***************************************************************************)
(* The protection unit zupl_xmpu in the programmable logic: its registers, *)
(* the gate on writes to them, and the verdict on an access that passes    *)
(* through.  Addresses are pages of 256 bytes, the unit of the region      *)
(* registers; an access also says whether it is to the last byte of its    *)
(* page.  Of the 31 masters the unit tells apart, those the software uses. *)
(***************************************************************************)
EXTENDS Integers, FiniteSets

CONSTANT RegionsMax  \* the numbers of regions the core may have been built with

ASSUME RegionsMaxAssumption == RegionsMax \subseteq 1 .. 16 /\ RegionsMax # {}

VARIABLES
  ctrl,     \* the flags set in CTRL
  lock,     \* LOCK
  bypass,   \* BYPASS: the masters the lock does not bind
  imr,      \* the interrupts masked
  isr,      \* the interrupts raised
  poison,   \* POISON
  regions   \* slot -> its START, END, MASTERS and CONFIG

xmpuVars == <<ctrl, lock, bypass, imr, isr, poison, regions>>

Masters == {"PMU", "RPU0", "APU"}
CtrlFlags == {"DEFRD", "DEFWR", "PSNADDREN", "PSNATTREN", "EXTSINKEN", "ARSP_DEC"}
RegionFlags == {"ENABLE", "RD_ALLOW", "WR_ALLOW", "REGIONNS", "NSCHECK", "MIDDISABLE"}
Interrupts == {"RDVIO", "WRVIO", "SECVIO"}
ResetPoison == "at reset"

\* The region register sets the core was built with.
Slots == DOMAIN regions

\* CTRL 0x6F, everything masked and unlocked, no region enabled.
AtReset ==
  [ctrl   |-> {"DEFRD", "DEFWR", "PSNADDREN", "PSNATTREN", "ARSP_DEC"},
   bypass |-> {"PMU"},
   region |-> [start |-> 0, end |-> 0, masters |-> {"PMU"},
               config |-> {"RD_ALLOW", "WR_ALLOW"}]]

XmpuInit ==
  /\ ctrl = AtReset.ctrl
  /\ lock = FALSE
  /\ bypass = AtReset.bypass
  /\ imr = Interrupts
  /\ isr = {}
  /\ poison = ResetPoison
  /\ \E n \in RegionsMax : regions = [i \in 0 .. n - 1 |-> AtReset.region]

\* A bitstream with the unit is loaded: every register is as at reset.
XmpuReset ==
  /\ ctrl' = AtReset.ctrl
  /\ lock' = FALSE
  /\ bypass' = AtReset.bypass
  /\ imr' = Interrupts
  /\ isr' = {}
  /\ poison' = ResetPoison
  /\ regions' = [i \in Slots |-> AtReset.region]

-----------------------------------------------------------------------------
(* Registers *)

Enabled(i) == "ENABLE" \in regions[i].config

\* The REGIONS register counts the enabled regions.
REGIONS == Cardinality({i \in Slots : Enabled(i)})

\* A locked unit drops what other masters write to CTRL, POISON, LOCK, BYPASS
\* and the regions; the write completes all the same.
WriteAllowed(m) == lock => m \in bypass

WriteCtrl(m, flags) ==
  /\ ctrl' = IF WriteAllowed(m) THEN flags ELSE ctrl
  /\ UNCHANGED <<lock, bypass, imr, isr, poison, regions>>

WriteLock(m, on) ==
  /\ lock' = IF WriteAllowed(m) THEN on ELSE lock
  /\ UNCHANGED <<ctrl, bypass, imr, isr, poison, regions>>

WriteBypass(m, masters) ==
  /\ bypass' = IF WriteAllowed(m) THEN masters ELSE bypass
  /\ UNCHANGED <<ctrl, lock, imr, isr, poison, regions>>

WritePoison(m, value) ==
  /\ poison' = IF WriteAllowed(m) THEN value ELSE poison
  /\ UNCHANGED <<ctrl, lock, bypass, imr, isr, regions>>

WriteRegion(m, i, register, value) ==
  /\ regions' = IF WriteAllowed(m) THEN [regions EXCEPT ![i][register] = value]
                                   ELSE regions
  /\ UNCHANGED <<ctrl, lock, bypass, imr, isr, poison>>

WriteIER(interrupts) ==
  /\ imr' = imr \ interrupts
  /\ UNCHANGED <<ctrl, lock, bypass, isr, poison, regions>>

\* Writing a one clears the bit.
WriteISR(interrupts) ==
  /\ isr' = isr \ interrupts
  /\ UNCHANGED <<ctrl, lock, bypass, imr, poison, regions>>

-----------------------------------------------------------------------------
(* The monitor: what happens to an access *)

Access == [master : Masters, page : Nat, last : BOOLEAN,
           write : BOOLEAN, secure : BOOLEAN]

\* The upper bound is compared with < although it ends in 0xFF, so the last
\* byte of a region is outside it.
Hits(r, a) ==
  /\ "ENABLE" \in r.config
  /\ r.start <= a.page
  /\ a.page < r.end \/ (a.page = r.end /\ ~a.last)

Allows(r, a) ==
  /\ (IF a.write THEN "WR_ALLOW" ELSE "RD_ALLOW") \in r.config
  /\ IF "REGIONNS" \in r.config
     THEN "NSCHECK" \in r.config => ~a.secure
     ELSE a.secure /\ ("MIDDISABLE" \in r.config \/ a.master \in r.masters)

\* With the external sink, or no poisoning by address, the transaction is
\* let through, to the sink or to its own address.
Blocked(a) ==
  LET hit == {i \in Slots : Hits(regions[i], a)} IN
  IF hit = {} THEN (IF a.write THEN "DEFWR" ELSE "DEFRD") \notin ctrl
  ELSE /\ \A i \in hit : ~Allows(regions[i], a)
       /\ "PSNADDREN" \in ctrl
       /\ "EXTSINKEN" \notin ctrl

\* A blocked access sets its bit and the security bit to what the mask lets
\* through; any other access leaves the registers alone.
Transact(a) ==
  LET bits == {IF a.write THEN "WRVIO" ELSE "RDVIO", "SECVIO"} IN
  /\ isr' = IF Blocked(a) THEN (isr \ bits) \cup (bits \ imr) ELSE isr
  /\ UNCHANGED <<ctrl, lock, bypass, imr, poison, regions>>
=============================================================================
