------------------------- MODULE KernelDriverProofs --------------------------
(***************************************************************************)
(* The two kernel modules, for any number of tenants, buffers, writers,    *)
(* names and minors, each under its own specification.                     *)
(***************************************************************************)
EXTENDS CharBuffers, UioMapper, SequenceTheorems, WellFoundedInduction, TLAPS

-----------------------------------------------------------------------------
(* Sequences and least elements *)

\* A non-empty set of naturals has a least member.
LEMMA LeastExists ==
  ASSUME NEW S \in SUBSET Nat, S # {}
  PROVE  \E x \in S : \A y \in S : x <= y
<1> DEFINE R == {ss \in Nat \X Nat : ss[1] < ss[2]}
<1>1. OpToRel(<, Nat) = R
  BY Zenon DEF OpToRel
<1>2. IsWellFoundedOn(R, Nat)
  BY <1>1, NatLessThanWellFounded, Zenon
<1> HIDE DEF R
<1>3. PICK x \in S : \A y \in S : ~(<<y, x>> \in R)
  BY <1>2, WFMin
<1>4. ASSUME NEW y \in S PROVE x <= y
  <2>1. x \in Nat /\ y \in Nat
    OBVIOUS
  <2>2. y < x => <<y, x>> \in R
    BY <2>1 DEF R
  <2> QED BY <1>3, <2>1, <2>2
<1> QED BY <1>4

\* What is left of a list when one entry is taken out.
LEMMA RemoveAtProperties ==
  ASSUME NEW T, NEW s \in Seq(T), NEW i \in DOMAIN s
  PROVE  /\ RemoveAt(s, i) \in Seq(T)
         /\ Len(RemoveAt(s, i)) = Len(s) - 1
         /\ \A j \in 1 .. Len(s) - 1 :
              RemoveAt(s, i)[j] = IF j < i THEN s[j] ELSE s[j + 1]
<1> DEFINE left == SubSeq(s, 1, i - 1)
           right == SubSeq(s, i + 1, Len(s))
<1>0. Len(s) \in Nat /\ DOMAIN s = 1 .. Len(s) /\ i \in 1 .. Len(s)
  BY LenProperties
<1>1. /\ left \in Seq(T) /\ Len(left) = i - 1
      /\ \A j \in 1 .. i - 1 : left[j] = s[j]
  <2>1. \A j \in 1 .. i - 1 : s[j] \in T
    BY <1>0
  <2> QED BY <1>0, <2>1, SubSeqProperties
<1>2. /\ right \in Seq(T) /\ Len(right) = Len(s) - i
      /\ \A j \in 1 .. Len(s) - i : right[j] = s[i + j]
  <2>1. \A j \in i + 1 .. Len(s) : s[j] \in T
    BY <1>0
  <2>2. right \in Seq(T) /\ Len(right) = Len(s) - i
    BY <1>0, <2>1, SubSeqProperties
  <2>3. \A j \in 1 .. Len(s) - (i + 1) + 1 : right[j] = s[i + 1 + j - 1]
    BY <1>0, <2>1, SubSeqProperties
  <2> QED BY <1>0, <2>2, <2>3
<1> HIDE DEF left, right
<1>3. RemoveAt(s, i) = left \o right
  BY DEF RemoveAt, left, right
<1>4. /\ left \o right \in Seq(T)
      /\ Len(left \o right) = Len(left) + Len(right)
      /\ \A j \in 1 .. Len(left) + Len(right) :
           (left \o right)[j] = IF j <= Len(left) THEN left[j] ELSE right[j - Len(left)]
  BY <1>1, <1>2, ConcatProperties
<1>5. Len(left) + Len(right) = Len(s) - 1
  BY <1>0, <1>1, <1>2
<1>6. ASSUME NEW j \in 1 .. Len(s) - 1
      PROVE  (left \o right)[j] = IF j < i THEN s[j] ELSE s[j + 1]
  <2>1. CASE j < i
    <3>1. j <= Len(left) /\ j \in 1 .. i - 1
      BY <1>0, <1>1, <2>1
    <3> QED BY <1>1, <1>4, <1>5, <2>1, <3>1
  <2>2. CASE ~(j < i)
    <3>1. ~(j <= Len(left)) /\ j - Len(left) \in 1 .. Len(s) - i
          /\ i + (j - Len(left)) = j + 1
      BY <1>0, <1>1, <2>2
    <3>2. (left \o right)[j] = right[j - Len(left)]
      BY <1>4, <1>5, <3>1
    <3> QED BY <1>2, <2>2, <3>1, <3>2
  <2> QED BY <2>1, <2>2
<1> QED BY <1>3, <1>4, <1>5, <1>6

\* Each entry left stands where it stood, or one place before; and none is lost
\* but the one taken out.
LEMMA RemoveAtEntries ==
  ASSUME NEW T, NEW s \in Seq(T), NEW i \in DOMAIN s
  PROVE  /\ \A j \in DOMAIN RemoveAt(s, i) :
              \E k \in DOMAIN s \ {i} : RemoveAt(s, i)[j] = s[k]
         /\ \A k \in DOMAIN s \ {i} :
              \E j \in DOMAIN RemoveAt(s, i) : RemoveAt(s, i)[j] = s[k]
<1> DEFINE r == RemoveAt(s, i)
<1>1. /\ r \in Seq(T) /\ Len(r) = Len(s) - 1
      /\ \A j \in 1 .. Len(s) - 1 : r[j] = IF j < i THEN s[j] ELSE s[j + 1]
  BY RemoveAtProperties
<1> HIDE DEF r
<1>2. Len(s) \in Nat /\ DOMAIN s = 1 .. Len(s) /\ DOMAIN r = 1 .. Len(s) - 1
  BY <1>1, LenProperties
<1>3. ASSUME NEW j \in DOMAIN r PROVE \E k \in DOMAIN s \ {i} : r[j] = s[k]
  BY <1>1, <1>2
<1>4. ASSUME NEW k \in DOMAIN s \ {i} PROVE \E j \in DOMAIN r : r[j] = s[k]
  <2>1. CASE k < i
    BY <1>1, <1>2, <2>1
  <2>2. CASE k > i
    <3>1. k - 1 \in DOMAIN r /\ r[k - 1] = s[k]
      BY <1>1, <1>2, <2>2
    <3> QED BY <3>1
  <2> QED BY <1>2, <2>1, <2>2
<1> QED BY <1>3, <1>4 DEF r

-----------------------------------------------------------------------------
(* pynq_uio_mapper.c *)

OnBus == {"register", "number", "list"}

\* A writer never holds a number the counter has not reached: next_minor is
\* read outside the mutex, but only Reload lowers it, and no writer is then in
\* create_store.
NumbersBehind ==
  \A w \in Writers : writer[w].pc # "idle" =>
    /\ writer[w].pdev.id <= next_minor
    /\ writer[w].pc = "list" =>
         writer[w].pdev.id <= writer[w].minor /\ writer[w].minor <= next_minor

UioInv ==
  /\ UioTypeOK
  /\ OnlyTheExitLoses
  /\ DevicesAreDistinct
  /\ NumbersAreUsed
  /\ NumbersBehind

\* A writer in create_store has the record of its create.
LEMMA InCreate ==
  ASSUME UioTypeOK, NEW w \in Writers, writer[w].pc # "idle"
  PROVE  /\ writer[w] \in Creating
         /\ writer[w].pdev \in PlatformDevice /\ writer[w].pdev.id \in Nat
         /\ writer[w].minor \in Nat
<1>1. writer[w] \in {Idle} \cup Creating
  BY DEF UioTypeOK
<1>2. writer[w] # Idle
  BY DEF Idle
<1>3. writer[w] \in Creating
  BY <1>1, <1>2
<1> QED BY <1>3 DEF Creating, PlatformDevice

\* What Goto and Return change.
LEMMA GotoMoves ==
  ASSUME UioTypeOK, NEW w \in Writers, writer[w].pc # "idle",
         NEW pc \in {"add", "register", "number", "list"}, Goto(w, pc)
  PROVE  /\ writer' \in [Writers -> {Idle} \cup Creating]
         /\ writer'[w].pc = pc
         /\ writer'[w].pdev = writer[w].pdev /\ writer'[w].minor = writer[w].minor
         /\ \A v \in Writers \ {w} : writer'[v] = writer[v]
<1>1. writer \in [Writers -> {Idle} \cup Creating] /\ writer[w] \in Creating
  BY InCreate DEF UioTypeOK
<1>2. [writer[w] EXCEPT !.pc = pc] \in Creating
  BY <1>1 DEF Creating
<1>3. writer' = [writer EXCEPT ![w] = [writer[w] EXCEPT !.pc = pc]]
  BY DEF Goto
<1> QED BY <1>1, <1>2, <1>3 DEF Creating

LEMMA ReturnMoves ==
  ASSUME UioTypeOK, NEW w \in Writers, Return(w)
  PROVE  /\ writer' \in [Writers -> {Idle} \cup Creating]
         /\ writer'[w].pc = "idle"
         /\ \A v \in Writers \ {w} : writer'[v] = writer[v]
  BY DEF UioTypeOK, Return, Idle

LEMMA UioInitEstablishes == UioInit => UioInv
<1> SUFFICES ASSUME UioInit PROVE UioInv
  OBVIOUS
<1>1. UioTypeOK
  BY DEF UioInit, UioTypeOK
<1>2. Listed = {} /\ \A P \in SUBSET OnBus : InFlight(P) = {}
  BY DEF UioInit, Listed, InFlight, Idle, OnBus
<1>3. OnlyTheExitLoses
  BY <1>2 DEF UioInit, OnlyTheExitLoses, OnBus
<1>4. DevicesAreDistinct
  BY <1>2 DEF UioInit, DevicesAreDistinct, Idle, OnBus
<1>5. NumbersAreUsed /\ NumbersBehind
  BY DEF UioInit, NumbersAreUsed, NumbersBehind, Idle
<1> QED BY <1>1, <1>3, <1>4, <1>5 DEF UioInv

LEMMA AllocPreserves ==
  ASSUME UioInv, NEW w \in Writers, NEW name \in Names, PlatformDeviceAlloc(w, name)
  PROVE  UioInv'
<1> DEFINE x == [pc |-> "add", pdev |-> [name |-> name, id |-> next_minor], minor |-> 0]
<1>0. UioTypeOK /\ next_minor \in Nat /\ writer[w].pc = "idle"
  BY DEF UioInv, UioTypeOK, PlatformDeviceAlloc, InStep
<1>1. writer' = [writer EXCEPT ![w] = x] /\ UNCHANGED <<next_minor, device_list, bus, uio, module, orphans>>
  BY DEF PlatformDeviceAlloc
<1>2. x \in Creating
  BY <1>0 DEF Creating, PlatformDevice
<1>3. /\ writer' \in [Writers -> {Idle} \cup Creating]
      /\ writer'[w] = x
      /\ \A v \in Writers \ {w} : writer'[v] = writer[v]
  BY <1>0, <1>1, <1>2 DEF UioTypeOK
<1>4. writer'[w].pc = "add" /\ writer'[w].pdev.id = next_minor
  BY <1>3
<1> HIDE DEF x
<1>5. UioTypeOK'
  BY <1>0, <1>1, <1>3 DEF UioTypeOK
<1>6. Listed' = Listed /\ \A P \in SUBSET OnBus : InFlight(P)' = InFlight(P)
  BY <1>0, <1>1, <1>3, <1>4 DEF Listed, InFlight, OnBus
<1>7. OnlyTheExitLoses'
  BY <1>1, <1>6 DEF UioInv, OnlyTheExitLoses, OnBus
<1>8. DevicesAreDistinct'
  BY <1>1, <1>3, <1>4, <1>6 DEF UioInv, DevicesAreDistinct, OnBus
<1>9. NumbersAreUsed' /\ NumbersBehind'
  BY <1>0, <1>1, <1>3, <1>4 DEF UioInv, NumbersAreUsed, NumbersBehind
<1> QED BY <1>5, <1>7, <1>8, <1>9 DEF UioInv

\* The bus refuses a platform device it has: what is added is new.
LEMMA AddPreserves ==
  ASSUME UioInv, NEW w \in Writers, PlatformDeviceAdd(w)
  PROVE  UioInv'
<1> DEFINE pdev == writer[w].pdev
<1>0. UioTypeOK /\ writer[w].pc = "add" /\ UNCHANGED <<next_minor, device_list, uio, module, orphans>>
  BY DEF UioInv, PlatformDeviceAdd, InStep
<1>1. pdev \in PlatformDevice /\ writer[w].pc # "idle"
  BY <1>0, InCreate
<1>2. CASE pdev \in bus
  <2>1. Return(w) /\ UNCHANGED bus
    BY <1>2 DEF PlatformDeviceAdd
  <2>2. /\ writer' \in [Writers -> {Idle} \cup Creating]
        /\ writer'[w].pc = "idle"
        /\ \A v \in Writers \ {w} : writer'[v] = writer[v]
    BY <1>0, <2>1, ReturnMoves
  <2>3. UioTypeOK'
    BY <1>0, <2>1, <2>2 DEF UioTypeOK
  <2>4. Listed' = Listed /\ \A P \in SUBSET OnBus : InFlight(P)' = InFlight(P)
    BY <1>0, <2>2 DEF Listed, InFlight, OnBus
  <2>5. OnlyTheExitLoses'
    BY <1>0, <2>1, <2>4 DEF UioInv, OnlyTheExitLoses, OnBus
  <2>6. DevicesAreDistinct'
    BY <1>0, <2>2, <2>4 DEF UioInv, DevicesAreDistinct, OnBus
  <2>7. NumbersAreUsed' /\ NumbersBehind'
    BY <1>0, <2>2 DEF UioInv, NumbersAreUsed, NumbersBehind
  <2> QED BY <2>3, <2>5, <2>6, <2>7 DEF UioInv
<1>3. CASE pdev \notin bus
  <2>1. Goto(w, "register") /\ bus' = bus \cup {pdev}
    BY <1>3 DEF PlatformDeviceAdd
  <2>2. /\ writer' \in [Writers -> {Idle} \cup Creating]
        /\ writer'[w].pc = "register" /\ writer'[w].pdev = pdev
        /\ \A v \in Writers \ {w} : writer'[v] = writer[v]
    BY <1>1, <1>0, <2>1, GotoMoves
  <2>3. UioTypeOK'
    BY <1>0, <1>1, <2>1, <2>2 DEF UioTypeOK
  <2>4. /\ Listed' = Listed
        /\ InFlight(OnBus)' = InFlight(OnBus) \cup {pdev}
        /\ InFlight({"number", "list"})' = InFlight({"number", "list"})
    BY <1>0, <2>2 DEF Listed, InFlight, OnBus
  <2>5. OnlyTheExitLoses'
    BY <1>0, <2>1, <2>4 DEF UioInv, OnlyTheExitLoses, OnBus
  <2>6. pdev \notin Listed \cup orphans /\ pdev \notin InFlight(OnBus)
    BY <1>3 DEF UioInv, OnlyTheExitLoses, OnBus
  <2>7. \A v \in Writers : writer[v].pc \in OnBus => writer[v].pdev # pdev
    BY <2>6 DEF InFlight
  <2>8. DevicesAreDistinct'
    <3>1. (Listed \cup orphans)' \cap InFlight(OnBus)' = {}
      BY <1>0, <2>4, <2>6 DEF UioInv, DevicesAreDistinct, OnBus
    <3> QED BY <1>0, <2>2, <2>4, <2>7, <3>1 DEF UioInv, DevicesAreDistinct, OnBus
  <2>9. NumbersAreUsed' /\ NumbersBehind'
    BY <1>0, <1>1, <2>2 DEF UioInv, NumbersAreUsed, NumbersBehind
  <2> QED BY <2>3, <2>5, <2>8, <2>9 DEF UioInv
<1> QED BY <1>2, <1>3

LEMMA RegisterPreserves ==
  ASSUME UioInv, NEW w \in Writers, UioRegisterDevice(w)
  PROVE  UioInv'
<1> DEFINE pdev == writer[w].pdev
<1>0. /\ UioTypeOK /\ writer[w].pc = "register" /\ FreeMinors # {}
      /\ UNCHANGED <<next_minor, device_list, bus, module, orphans>>
  BY DEF UioInv, UioRegisterDevice, InStep
<1>1. pdev \in PlatformDevice /\ writer[w].pc # "idle"
  BY <1>0, InCreate
<1>2. /\ writer' \in [Writers -> {Idle} \cup Creating]
      /\ writer'[w].pc = "number" /\ writer'[w].pdev = pdev
      /\ \A v \in Writers \ {w} : writer'[v] = writer[v]
  BY <1>0, <1>1, GotoMoves DEF UioRegisterDevice
<1>3. LowestFree \in 0 .. MaxMinor
  <2>1. FreeMinors \in SUBSET Nat /\ FreeMinors \subseteq 0 .. MaxMinor
    BY UioMapperAssumption DEF FreeMinors
  <2>2. \E m \in FreeMinors : \A n \in FreeMinors : m <= n
    BY <1>0, <2>1, LeastExists
  <2>3. LowestFree \in FreeMinors
    BY <2>2 DEF LowestFree
  <2> QED BY <2>1, <2>3
<1>4. /\ DOMAIN uio' = DOMAIN uio \cup {pdev}
      /\ \A d \in DOMAIN uio' : uio'[d] = IF d = pdev THEN LowestFree ELSE uio[d]
      /\ uio' = [d \in DOMAIN uio' |-> uio'[d]]
  BY DEF UioRegisterDevice
<1>5. pdev \in bus
  BY <1>0 DEF UioInv, OnlyTheExitLoses, InFlight
<1>6. UioTypeOK'
  <2>1. uio' \in [DOMAIN uio' -> 0 .. MaxMinor]
    BY <1>0, <1>3, <1>4 DEF UioTypeOK
  <2> QED BY <1>0, <1>2, <1>4, <1>5, <2>1 DEF UioTypeOK
<1>7. /\ Listed' = Listed
      /\ InFlight(OnBus)' = InFlight(OnBus)
      /\ InFlight({"number", "list"})' = InFlight({"number", "list"}) \cup {pdev}
  BY <1>0, <1>2 DEF Listed, InFlight, OnBus
<1>8. OnlyTheExitLoses'
  BY <1>0, <1>4, <1>7 DEF UioInv, OnlyTheExitLoses, OnBus
<1>9. DevicesAreDistinct'
  BY <1>0, <1>2, <1>7 DEF UioInv, DevicesAreDistinct, OnBus
<1>10. NumbersAreUsed' /\ NumbersBehind'
  BY <1>0, <1>1, <1>2 DEF UioInv, NumbersAreUsed, NumbersBehind
<1> QED BY <1>6, <1>8, <1>9, <1>10 DEF UioInv

\* The error path takes off the bus what this create put there, and nobody
\* else's: the others have devices of their own.
LEMMA RegisterFailsPreserves ==
  ASSUME UioInv, NEW w \in Writers, UioRegisterFails(w)
  PROVE  UioInv'
<1> DEFINE pdev == writer[w].pdev
<1>0. /\ UioTypeOK /\ writer[w].pc = "register"
      /\ UNCHANGED <<next_minor, device_list, uio, module, orphans>>
      /\ bus' = bus \ {pdev} /\ Return(w)
  BY DEF UioInv, UioRegisterFails, InStep
<1>1. /\ writer' \in [Writers -> {Idle} \cup Creating]
      /\ writer'[w].pc = "idle"
      /\ \A v \in Writers \ {w} : writer'[v] = writer[v]
  BY <1>0, ReturnMoves
<1>2. \A v \in Writers \ {w} : writer[v].pc \in OnBus => writer[v].pdev # pdev
  BY <1>0 DEF UioInv, DevicesAreDistinct, OnBus
<1>3. pdev \notin Listed \cup orphans
  BY <1>0 DEF UioInv, DevicesAreDistinct, InFlight
<1>4. /\ Listed' = Listed
      /\ InFlight(OnBus)' = InFlight(OnBus) \ {pdev}
      /\ InFlight({"number", "list"})' = InFlight({"number", "list"})
  BY <1>0, <1>1, <1>2 DEF Listed, InFlight, OnBus
<1>5. pdev \notin InFlight({"number", "list"})
  BY <1>0, <1>2 DEF InFlight, OnBus
<1>6. UioTypeOK'
  <2>1. pdev \notin DOMAIN uio
    BY <1>3, <1>5 DEF UioInv, OnlyTheExitLoses
  <2> QED BY <1>0, <1>1, <2>1 DEF UioTypeOK
<1>7. OnlyTheExitLoses'
  BY <1>0, <1>3, <1>4 DEF UioInv, OnlyTheExitLoses, OnBus
<1>8. DevicesAreDistinct'
  BY <1>0, <1>1, <1>4 DEF UioInv, DevicesAreDistinct, OnBus
<1>9. NumbersAreUsed' /\ NumbersBehind'
  BY <1>0, <1>1 DEF UioInv, NumbersAreUsed, NumbersBehind
<1> QED BY <1>6, <1>7, <1>8, <1>9 DEF UioInv

LEMMA ReadMinorPreserves ==
  ASSUME UioInv, NEW w \in Writers, ReadMinor(w)
  PROVE  UioInv'
<1>0. /\ UioTypeOK /\ writer[w].pc = "number" /\ next_minor \in Nat
      /\ UNCHANGED <<next_minor, device_list, bus, uio, module, orphans>>
  BY DEF UioInv, UioTypeOK, ReadMinor, InStep
<1>1. writer[w] \in Creating /\ writer[w].pdev.id \in Nat
  BY <1>0, InCreate
<1>2. [writer[w] EXCEPT !.pc = "list", !.minor = next_minor] \in Creating
  BY <1>0, <1>1 DEF Creating
<1>3. writer' = [writer EXCEPT ![w] = [writer[w] EXCEPT !.pc = "list", !.minor = next_minor]]
  BY <1>0, <1>1 DEF ReadMinor, UioTypeOK, Creating
<1>4. /\ writer' \in [Writers -> {Idle} \cup Creating]
      /\ writer'[w].pc = "list" /\ writer'[w].pdev = writer[w].pdev
      /\ writer'[w].minor = next_minor
      /\ \A v \in Writers \ {w} : writer'[v] = writer[v]
  BY <1>0, <1>1, <1>2, <1>3 DEF UioTypeOK, Creating
<1>5. UioTypeOK'
  BY <1>0, <1>4 DEF UioTypeOK
<1>6. /\ Listed' = Listed
      /\ InFlight(OnBus)' = InFlight(OnBus)
      /\ InFlight({"number", "list"})' = InFlight({"number", "list"})
  BY <1>0, <1>4 DEF Listed, InFlight, OnBus
<1>7. OnlyTheExitLoses'
  BY <1>0, <1>6 DEF UioInv, OnlyTheExitLoses, OnBus
<1>8. DevicesAreDistinct'
  BY <1>0, <1>4, <1>6 DEF UioInv, DevicesAreDistinct, OnBus
<1>9. NumbersAreUsed' /\ NumbersBehind'
  BY <1>0, <1>1, <1>4 DEF UioInv, NumbersAreUsed, NumbersBehind
<1> QED BY <1>5, <1>7, <1>8, <1>9 DEF UioInv

LEMMA ListPreserves ==
  ASSUME UioInv, NEW w \in Writers, ListDevice(w)
  PROVE  UioInv'
<1> DEFINE pdev == writer[w].pdev
           entry == [pdev |-> pdev, minor |-> writer[w].minor]
<1>0. /\ UioTypeOK /\ writer[w].pc = "list" /\ next_minor \in Nat
      /\ UNCHANGED <<bus, uio, module, orphans>> /\ next_minor' = next_minor + 1 /\ Return(w)
      /\ device_list' = Append(device_list, entry)
      /\ device_list \in Seq(ListedDevice)
  BY DEF UioInv, UioTypeOK, ListDevice, InStep
<1>1. entry \in ListedDevice /\ entry.pdev = pdev /\ entry.minor = writer[w].minor
  BY <1>0, InCreate DEF ListedDevice
<1> HIDE DEF entry
<1>2. /\ writer' \in [Writers -> {Idle} \cup Creating]
      /\ writer'[w].pc = "idle"
      /\ \A v \in Writers \ {w} : writer'[v] = writer[v]
  BY <1>0, ReturnMoves
<1>3. /\ device_list' \in Seq(ListedDevice)
      /\ DOMAIN device_list' = DOMAIN device_list \cup {Len(device_list) + 1}
      /\ device_list'[Len(device_list) + 1] = entry
      /\ \A i \in DOMAIN device_list : device_list'[i] = device_list[i]
      /\ Len(device_list) + 1 \notin DOMAIN device_list
  BY <1>0, <1>1, AppendProperties, LenProperties
<1>4. \A v \in Writers \ {w} : writer[v].pc \in OnBus => writer[v].pdev # pdev
  BY <1>0 DEF UioInv, DevicesAreDistinct, OnBus
<1>5. /\ pdev \notin Listed \cup orphans
      /\ pdev \in InFlight(OnBus) /\ pdev \in InFlight({"number", "list"})
  BY <1>0 DEF UioInv, DevicesAreDistinct, InFlight, OnBus
<1>6. /\ Listed' = Listed \cup {pdev}
      /\ InFlight(OnBus)' = InFlight(OnBus) \ {pdev}
      /\ InFlight({"number", "list"})' = InFlight({"number", "list"}) \ {pdev}
  <2>1. Listed' = Listed \cup {pdev}
    BY <1>1, <1>3 DEF Listed
  <2>2. InFlight(OnBus)' = InFlight(OnBus) \ {pdev}
    BY <1>0, <1>2, <1>4 DEF InFlight, OnBus
  <2>3. InFlight({"number", "list"})' = InFlight({"number", "list"}) \ {pdev}
    BY <1>0, <1>2, <1>4 DEF InFlight, OnBus
  <2> QED BY <2>1, <2>2, <2>3
<1>7. UioTypeOK'
  <2>1. next_minor' \in Nat
    BY <1>0
  <2> QED BY <1>0, <1>2, <1>3, <2>1 DEF UioTypeOK
<1>8. OnlyTheExitLoses'
  BY <1>0, <1>5, <1>6 DEF UioInv, OnlyTheExitLoses, OnBus
<1>9. DevicesAreDistinct'
  <2>1. \A i, j \in DOMAIN device_list' : i # j => device_list'[i].pdev # device_list'[j].pdev
    BY <1>1, <1>3, <1>5 DEF UioInv, DevicesAreDistinct, Listed
  <2>2. (Listed \cup orphans)' \cap InFlight(OnBus)' = {} /\ Listed' \cap orphans' = {}
    BY <1>0, <1>5, <1>6 DEF UioInv, DevicesAreDistinct, OnBus
  <2> QED BY <1>2, <2>1, <2>2 DEF UioInv, DevicesAreDistinct, OnBus
<1>10. NumbersAreUsed'
  <2>1. \A i \in DOMAIN device_list : device_list[i].minor \in Nat
    <3>1. ASSUME NEW i \in DOMAIN device_list PROVE device_list[i] \in ListedDevice
      BY <1>0, <3>1, ElementOfSeq, LenProperties
    <3> QED BY <3>1 DEF ListedDevice
  <2>2. pdev.id <= entry.minor /\ entry.minor < next_minor + 1
    BY <1>0, <1>1, InCreate DEF UioInv, NumbersBehind
  <2> QED BY <1>0, <1>1, <1>3, <2>1, <2>2 DEF UioInv, NumbersAreUsed
<1>11. NumbersBehind'
  <2>1. \A v \in Writers \ {w} : writer[v].pc # "idle" =>
          writer[v].pdev.id \in Nat /\ writer[v].minor \in Nat
    BY <1>0, InCreate
  <2> QED BY <1>0, <1>2, <2>1 DEF UioInv, NumbersBehind
<1> QED BY <1>7, <1>8, <1>9, <1>10, <1>11 DEF UioInv

\* No other entry and no create under way has the device that is removed.
LEMMA DestroyPreserves ==
  ASSUME UioInv, NEW w \in Writers, NEW name \in Names, Destroy(w, name)
  PROVE  UioInv'
<1> DEFINE k == FirstNamed(name)
           pdev == device_list[k].pdev
<1>0. /\ UioTypeOK /\ device_list \in Seq(ListedDevice) /\ Named(name) # {}
      /\ UNCHANGED <<next_minor, writer, module, orphans>>
      /\ device_list' = RemoveAt(device_list, k)
      /\ bus' = bus \ {pdev}
      /\ uio' = [d \in DOMAIN uio \ {pdev} |-> uio[d]]
  BY DEF UioInv, UioTypeOK, Destroy
<1>1. k \in DOMAIN device_list
  <2>1. Named(name) \in SUBSET Nat /\ Named(name) \subseteq DOMAIN device_list
    BY <1>0, LenProperties DEF Named
  <2>2. \E i \in Named(name) : \A j \in Named(name) : i <= j
    BY <1>0, <2>1, LeastExists
  <2>3. k \in Named(name)
    BY <2>2 DEF FirstNamed
  <2> QED BY <2>1, <2>3
<1> HIDE DEF k
<1>2. /\ device_list' \in Seq(ListedDevice)
      /\ Len(device_list') = Len(device_list) - 1
      /\ \A j \in 1 .. Len(device_list) - 1 :
           device_list'[j] = IF j < k THEN device_list[j] ELSE device_list[j + 1]
  BY <1>0, <1>1, RemoveAtProperties
<1>3. /\ \A j \in DOMAIN device_list' :
           \E i \in DOMAIN device_list \ {k} : device_list'[j] = device_list[i]
      /\ \A i \in DOMAIN device_list \ {k} :
           \E j \in DOMAIN device_list' : device_list'[j] = device_list[i]
  BY <1>0, <1>1, RemoveAtEntries
<1>4. \A i \in DOMAIN device_list \ {k} : device_list[i].pdev # pdev
  BY <1>1 DEF UioInv, DevicesAreDistinct
<1>5. Listed' = Listed \ {pdev}
  BY <1>1, <1>3, <1>4 DEF Listed
<1>6. /\ pdev \in Listed /\ pdev \notin orphans
      /\ \A P \in SUBSET OnBus : pdev \notin InFlight(P)
  BY <1>1 DEF UioInv, DevicesAreDistinct, Listed, InFlight, OnBus
<1>7. \A P \in SUBSET OnBus : InFlight(P)' = InFlight(P)
  BY <1>0 DEF InFlight
<1>8. UioTypeOK'
  BY <1>0, <1>2 DEF UioTypeOK
<1>9. OnlyTheExitLoses'
  BY <1>0, <1>5, <1>6, <1>7 DEF UioInv, OnlyTheExitLoses, OnBus
<1>10. DevicesAreDistinct'
  <2>1. DOMAIN device_list = 1 .. Len(device_list) /\ Len(device_list) \in Nat
        /\ DOMAIN device_list' = 1 .. Len(device_list) - 1 /\ k \in Nat
    BY <1>0, <1>1, <1>2, LenProperties
  <2>2. ASSUME NEW i \in DOMAIN device_list', NEW j \in DOMAIN device_list', i # j
        PROVE  device_list'[i].pdev # device_list'[j].pdev
    <3>1. PICK a \in DOMAIN device_list :
            device_list'[i] = device_list[a] /\ a = IF i < k THEN i ELSE i + 1
      BY <1>2, <2>1
    <3>2. PICK b \in DOMAIN device_list :
            device_list'[j] = device_list[b] /\ b = IF j < k THEN j ELSE j + 1
      BY <1>2, <2>1
    <3>3. a # b
      BY <2>1, <2>2, <3>1, <3>2
    <3> QED BY <3>1, <3>2, <3>3 DEF UioInv, DevicesAreDistinct
  <2>3. (Listed \cup orphans)' \cap InFlight(OnBus)' = {} /\ Listed' \cap orphans' = {}
    BY <1>0, <1>5, <1>7 DEF UioInv, DevicesAreDistinct, OnBus
  <2> QED BY <1>0, <2>2, <2>3 DEF UioInv, DevicesAreDistinct, OnBus
<1>11. NumbersAreUsed' /\ NumbersBehind'
  BY <1>0, <1>3 DEF UioInv, NumbersAreUsed, NumbersBehind
<1> QED BY <1>8, <1>9, <1>10, <1>11 DEF UioInv

\* The walk takes what is listed; a create under way keeps its own device.
LEMMA ExitWalksPreserves ==
  ASSUME UioInv, ExitWalks
  PROVE  UioInv'
<1>0. /\ UioTypeOK /\ UNCHANGED <<next_minor, writer, orphans>>
      /\ module' = "walked" /\ device_list' = << >>
      /\ bus' = bus \ Listed
      /\ uio' = [d \in DOMAIN uio \ Listed |-> uio[d]]
  BY DEF UioInv, ExitWalks
<1>1. UioTypeOK'
  <2>1. device_list' \in Seq(ListedDevice)
    BY <1>0
  <2>2. DOMAIN uio' \subseteq bus' /\ uio' \in [DOMAIN uio' -> 0 .. MaxMinor]
    BY <1>0 DEF UioTypeOK
  <2> QED BY <1>0, <2>1, <2>2 DEF UioTypeOK
<1>2. Listed' = {} /\ \A P \in SUBSET OnBus : InFlight(P)' = InFlight(P)
  BY <1>0 DEF Listed, InFlight
<1>3. /\ \A P \in SUBSET OnBus : Listed \cap InFlight(P) = {}
      /\ Listed \cap orphans = {}
  BY DEF UioInv, DevicesAreDistinct, InFlight, OnBus
<1>4. OnlyTheExitLoses'
  BY <1>0, <1>2, <1>3 DEF UioInv, OnlyTheExitLoses, OnBus
<1>5. DevicesAreDistinct'
  BY <1>0, <1>2 DEF UioInv, DevicesAreDistinct, OnBus
<1>6. NumbersAreUsed' /\ NumbersBehind'
  BY <1>0 DEF UioInv, NumbersAreUsed, NumbersBehind
<1> QED BY <1>1, <1>4, <1>5, <1>6 DEF UioInv

\* The removal of an attribute stops calls and touches no device.
LEMMA RemovePreserves ==
  ASSUME UioInv, RemoveDestroy \/ RemoveCreate
  PROVE  UioInv'
<1>0. /\ UioTypeOK /\ UNCHANGED <<next_minor, device_list, bus, uio, writer, orphans>>
      /\ module' \in {"destroy removed", "create removed"}
  BY DEF UioInv, RemoveDestroy, RemoveCreate
<1>1. UioTypeOK' /\ NumbersAreUsed' /\ NumbersBehind'
  BY <1>0 DEF UioInv, UioTypeOK, NumbersAreUsed, NumbersBehind
<1>2. Listed' = Listed /\ \A P \in SUBSET OnBus : InFlight(P)' = InFlight(P)
  BY <1>0 DEF Listed, InFlight
<1>3. OnlyTheExitLoses' /\ DevicesAreDistinct'
  BY <1>0, <1>2 DEF UioInv, OnlyTheExitLoses, DevicesAreDistinct, OnBus
<1> QED BY <1>1, <1>3 DEF UioInv

\* What the list still held becomes an orphan.
LEMMA ReloadPreserves ==
  ASSUME UioInv, Reload
  PROVE  UioInv'
<1>0. /\ UioTypeOK /\ UNCHANGED <<bus, uio, writer>>
      /\ \A w \in Writers : writer[w].pc = "idle"
      /\ next_minor' = 0 /\ device_list' = << >> /\ module' = "loaded"
      /\ orphans' = orphans \cup Listed
  BY DEF UioInv, Reload, InStep
<1>1. Listed \subseteq PlatformDevice
  <2>1. \A i \in DOMAIN device_list : device_list[i] \in ListedDevice
    BY <1>0, ElementOfSeq, LenProperties DEF UioTypeOK
  <2> QED BY <2>1 DEF Listed, ListedDevice
<1>2. UioTypeOK'
  <2>1. device_list' \in Seq(ListedDevice)
    BY <1>0
  <2>2. orphans' \subseteq PlatformDevice
    BY <1>0, <1>1, Zenon DEF UioTypeOK
  <2> QED BY <1>0, <2>1, <2>2 DEF UioTypeOK
<1>3. Listed' = {} /\ \A P \in SUBSET OnBus : InFlight(P) = {} /\ InFlight(P)' = {}
  BY <1>0 DEF Listed, InFlight, OnBus
<1>4. OnlyTheExitLoses'
  BY <1>0, <1>3 DEF UioInv, OnlyTheExitLoses, OnBus
<1>5. DevicesAreDistinct'
  BY <1>0, <1>3 DEF DevicesAreDistinct, OnBus
<1>6. NumbersAreUsed' /\ NumbersBehind'
  BY <1>0 DEF NumbersAreUsed, NumbersBehind
<1> QED BY <1>2, <1>4, <1>5, <1>6 DEF UioInv

LEMMA UioNextPreserves == UioInv /\ [UioNext]_umVars => UioInv'
<1> SUFFICES ASSUME UioInv, [UioNext]_umVars PROVE UioInv'
  OBVIOUS
<1>1. CASE UNCHANGED umVars
  <2>1. UNCHANGED <<next_minor, device_list, bus, uio, writer, module, orphans>>
    BY <1>1 DEF umVars
  <2>2. UioTypeOK' /\ NumbersAreUsed' /\ NumbersBehind'
    BY <2>1 DEF UioInv, UioTypeOK, NumbersAreUsed, NumbersBehind
  <2>3. OnlyTheExitLoses' /\ DevicesAreDistinct'
    BY <2>1 DEF UioInv, OnlyTheExitLoses, DevicesAreDistinct, Listed, InFlight
  <2> QED BY <2>2, <2>3 DEF UioInv
<1>2. ASSUME NEW w \in Writers, CreateStep(w) PROVE UioInv'
  BY <1>2, AddPreserves, RegisterPreserves, RegisterFailsPreserves, ReadMinorPreserves,
     ListPreserves DEF CreateStep
<1> QED
  BY <1>1, <1>2, AllocPreserves, DestroyPreserves, ExitWalksPreserves, RemovePreserves,
     ReloadPreserves DEF UioNext

LEMMA UioInvariance == UioSpec => []UioInv
  BY UioInitEstablishes, UioNextPreserves, PTL DEF UioSpec

\* The bus and the UIO core have the listed devices, those being made and the
\* orphans of an exit, and no others, whichever calls fail and however creates,
\* destroys and exits overlap.
THEOREM DevicesAreAccountedFor == UioSpec => []OnlyTheExitLoses
<1>1. UioInv => OnlyTheExitLoses
  BY DEF UioInv
<1> QED BY <1>1, UioInvariance, PTL

\* Creates that read the same next_minor never end with the same device.
THEOREM NoDeviceIsTwice == UioSpec => []DevicesAreDistinct
<1>1. UioInv => DevicesAreDistinct
  BY DEF UioInv
<1> QED BY <1>1, UioInvariance, PTL

\* The unlocked read of next_minor gives a number between the one the device
\* was named with and the counter.
THEOREM NumbersStayInRange == UioSpec => []NumbersAreUsed
<1>1. UioInv => NumbersAreUsed
  BY DEF UioInv
<1> QED BY <1>1, UioInvariance, PTL

\* A UIO device has its platform device on the bus as long as it is registered.
THEOREM UioIsTyped == UioSpec => []UioTypeOK
<1>1. UioInv => UioTypeOK
  BY DEF UioInv
<1> QED BY <1>1, UioInvariance, PTL

-----------------------------------------------------------------------------
(* pynq_char_mapper.c and the resource manager: the windows of the offsets *)

\* The offset of a tenant's next buffer lies past the windows of all it has;
\* it starts again at 0 only for a tenant that has none.
WindowsBelowNext ==
  \A t \in Tenants : \A h \in Registered(t) :
    /\ t \in char_devices
    /\ buffer_to_offset[h] + PageAlign(live[h].size) <= buffer_offsets[t]

\* A tenant's device is created once in a run, before it has any buffer there.
DevicesComeFirst ==
  /\ DOMAIN buffer_offsets = char_devices
  /\ char_devices \cap starting = {}
  /\ ~running => char_devices = {} /\ DOMAIN live = {}

WindowInv ==
  /\ CharBuffersTypeOK
  /\ DevicesComeFirst
  /\ WindowsBelowNext
  /\ WindowsAreApart

LEMMA PageAlignBounds ==
  ASSUME NEW n \in Nat \ {0}
  PROVE  PageAlign(n) \in Nat /\ PageAlign(n) >= n
<1> DEFINE P == PAGE_SIZE
           q == (n + P - 1) \div P
<1>1. P \in Nat \ {0}
  BY CharMapperAssumption
<1>2. q \in Int /\ P * q <= n + P - 1 /\ n + P - 1 < P * q + P
  BY <1>1
<1>3. P * q = q * P /\ P * q \in Int
  BY <1>1, <1>2
<1> HIDE DEF q, P
<1>4. q * P \in Nat /\ q * P >= n
  BY <1>1, <1>2, <1>3
<1> QED BY <1>4 DEF PageAlign, q, P

\* What the type invariant says of a buffer that is registered.
LEMMA RegisteredIsTyped ==
  ASSUME CharBuffersTypeOK, NEW t \in Tenants, NEW h \in Registered(t)
  PROVE  /\ h \in DOMAIN live /\ h \in DOMAIN buffer_to_offset
         /\ live[h] \in Buffer /\ live[h].tenant = t /\ live[h].phys \in Blocks
         /\ live[h].size \in Nat \ {0} /\ live[h].size \in Sizes
         /\ buffer_to_offset[h] \in Nat
         /\ PageAlign(live[h].size) \in Nat /\ PageAlign(live[h].size) >= 1
<1>1. /\ h \in DOMAIN live /\ h \in DOMAIN buffer_to_offset /\ live[h].tenant = t
      /\ live[h] \in Buffer /\ buffer_to_offset[h] \in Nat
  BY DEF CharBuffersTypeOK, Registered
<1>2. live[h].size \in Sizes /\ live[h].size \in Nat \ {0} /\ live[h].phys \in Blocks
  BY <1>1, CharBuffersAssumption DEF Buffer
<1> QED BY <1>1, <1>2, PageAlignBounds

\* A module that has just been loaded has no device and no list.
LEMMA NothingIsTyped ==
  ASSUME tenant_devices = << >>, buffers = [t \in Tenants |-> << >>], vmas = {},
         loaded \in BOOLEAN
  PROVE  CharMapperTypeOK
<1>1. tenant_devices \in Seq(Tenants) /\ Len(tenant_devices) <= MAX_DEVICES
  BY EmptySeq, CharMapperAssumption
<1>2. << >> \in Seq(BufferMapping)
  BY EmptySeq
<1>3. buffers \in [Tenants -> Seq(BufferMapping)]
  BY <1>2
<1> QED BY <1>1, <1>3 DEF CharMapperTypeOK

LEMMA CharInitEstablishes == CharBuffersInit => WindowInv
<1> SUFFICES ASSUME CharBuffersInit PROVE WindowInv
  OBVIOUS
<1>1. CharMapperTypeOK
  BY NothingIsTyped DEF CharBuffersInit, CharMapperInit
<1>2. CharBuffersTypeOK
  BY <1>1 DEF CharBuffersInit, CharBuffersTypeOK, None
<1>3. \A t \in Tenants : Registered(t) = {}
  BY DEF CharBuffersInit, Registered, None
<1>4. DevicesComeFirst /\ WindowsBelowNext /\ WindowsAreApart
  BY <1>3 DEF CharBuffersInit, DevicesComeFirst, WindowsBelowNext, WindowsAreApart, None
<1> QED BY <1>2, <1>4 DEF WindowInv

\* What a step leaves alone, when its tenants keep a part of what they had and
\* no offset moves.
LEMMA FewerRegistered ==
  ASSUME WindowInv, CharBuffersTypeOK', DevicesComeFirst',
         UNCHANGED <<char_devices, buffer_offsets>>,
         \A t \in Tenants : \A h \in Registered(t)' :
           /\ h \in Registered(t) /\ live'[h] = live[h]
           /\ buffer_to_offset'[h] = buffer_to_offset[h]
  PROVE  WindowInv'
<1>1. WindowsBelowNext'
  BY DEF WindowInv, WindowsBelowNext, PageAlign
<1>2. WindowsAreApart'
  BY DEF WindowInv, WindowsAreApart, PageAlign
<1> QED BY <1>1, <1>2 DEF WindowInv

\* The kernel module's own steps and the tenants' programs.
LEMMA KernelPreserves ==
  ASSUME WindowInv, Kernel \/ User
  PROVE  WindowInv'
<1>0. CharBuffersTypeOK /\ CharMapperTypeOK /\ UNCHANGED hvVars
  BY DEF WindowInv, CharBuffersTypeOK, Kernel, User
<1>1. CharMapperTypeOK'
  <2>1. CASE pynq_char_init
    BY <1>0, <2>1 DEF CharMapperTypeOK, pynq_char_init
  <2>2. CASE pynq_char_exit
    <3>1. tenant_devices' \in Seq(Tenants) /\ Len(tenant_devices') <= MAX_DEVICES
      BY <2>2, EmptySeq, CharMapperAssumption DEF pynq_char_exit
    <3>2. << >> \in Seq(BufferMapping)
      BY EmptySeq
    <3>3. buffers' \in [Tenants -> Seq(BufferMapping)]
      BY <2>2, <3>2 DEF pynq_char_exit
    <3> QED BY <1>0, <2>2, <3>1, <3>3 DEF CharMapperTypeOK, pynq_char_exit
  <2>3. ASSUME NEW area \in vmas, munmap(area) PROVE CharMapperTypeOK'
    BY <1>0, <2>3 DEF CharMapperTypeOK, munmap
  <2>4. ASSUME NEW t \in Tenants, NEW i \in DOMAIN buffers[t], NEW size \in Sizes,
               pynq_char_mmap(t, buffers[t][i].vm_offset, PageAlign(size))
        PROVE  CharMapperTypeOK'
    <3> DEFINE o == buffers[t][i].vm_offset
    <3>1. buffers[t] \in Seq(BufferMapping)
      BY <1>0 DEF CharMapperTypeOK
    <3>2. \A j \in DOMAIN buffers[t] : buffers[t][j] \in BufferMapping
      BY <3>1, ElementOfSeq, LenProperties
    <3>3. o \in Nat /\ PageAlign(size) \in Nat
      BY <3>2, PageAlignBounds, CharBuffersAssumption DEF BufferMapping
    <3>4. First(t, o) \in DOMAIN buffers[t]
      <4>1. At(t, o) # {} /\ At(t, o) \in SUBSET Nat /\ At(t, o) \subseteq DOMAIN buffers[t]
        BY <3>1, <2>4, LenProperties DEF At, pynq_char_mmap
      <4>2. \E k \in At(t, o) : \A j \in At(t, o) : k <= j
        BY <4>1, LeastExists
      <4>3. First(t, o) \in At(t, o)
        BY <4>2 DEF First
      <4> QED BY <4>1, <4>3
    <3>5. buffers[t][First(t, o)].phys \in Blocks
      BY <3>2, <3>4 DEF BufferMapping
    <3>6. vmas' \subseteq Vma
      BY <1>0, <2>4, <3>3, <3>5 DEF pynq_char_mmap, CharMapperTypeOK, Vma
    <3> QED BY <1>0, <2>4, <3>6 DEF pynq_char_mmap, CharMapperTypeOK
  <2> QED BY <2>1, <2>2, <2>3, <2>4 DEF Kernel, User
<1>2. CharBuffersTypeOK'
  BY <1>0, <1>1 DEF CharBuffersTypeOK, hvVars
<1>3. DevicesComeFirst'
  BY <1>0 DEF WindowInv, DevicesComeFirst, hvVars
<1>4. \A t \in Tenants : Registered(t)' = Registered(t)
  BY <1>0 DEF Registered, hvVars
<1> QED BY <1>0, <1>2, <1>3, <1>4, FewerRegistered DEF hvVars

LEMMA StartStopPreserve ==
  ASSUME WindowInv, Start \/ Stop
  PROVE  WindowInv'
<1>0. CharBuffersTypeOK /\ CharMapperTypeOK /\ UNCHANGED charVars
  BY DEF WindowInv, CharBuffersTypeOK, Start, Stop
<1>1. CharMapperTypeOK'
  BY <1>0 DEF CharMapperTypeOK, charVars
<1>2. CASE Start
  <2>1. CharBuffersTypeOK'
    BY <1>0, <1>1, <1>2 DEF CharBuffersTypeOK, CharMapperTypeOK, Start
  <2>2. DevicesComeFirst'
    BY <1>2 DEF WindowInv, DevicesComeFirst, Start
  <2>3. \A t \in Tenants : Registered(t)' = Registered(t)
    BY <1>2 DEF Start, Registered
  <2> QED BY <1>2, <2>1, <2>2, <2>3, FewerRegistered DEF Start
<1>3. CASE Stop
  <2>1. Stopped
    BY <1>3 DEF Stop
  <2>2. CharBuffersTypeOK'
    BY <1>1, <2>1 DEF CharBuffersTypeOK, Stopped, None
  <2>3. \A t \in Tenants : Registered(t)' = {}
    BY <2>1 DEF Stopped, Registered, None
  <2>4. DevicesComeFirst' /\ WindowsBelowNext' /\ WindowsAreApart'
    BY <2>1, <2>3 DEF Stopped, DevicesComeFirst, WindowsBelowNext, WindowsAreApart, None
  <2> QED BY <2>2, <2>4 DEF WindowInv
<1> QED BY <1>2, <1>3

\* A tenant that is still starting has no device and so nothing registered:
\* its offset may begin at 0, whatever lists the kernel has kept.
LEMMA CreatePreserves ==
  ASSUME WindowInv, NEW t \in Tenants, create_tenant_char_device(t)
  PROVE  WindowInv'
<1>0. /\ CharBuffersTypeOK /\ CharMapperTypeOK /\ DevicesComeFirst
      /\ running /\ t \in starting /\ t \notin char_devices
      /\ UNCHANGED <<running, enabled, buffer_to_offset, live>>
      /\ starting' = starting \ {t}
  BY DEF WindowInv, CharBuffersTypeOK, DevicesComeFirst, create_tenant_char_device
<1>1. CharMapperTypeOK'
  <2>1. CASE enabled /\ CanCreate(t)
    <3>1. /\ tenant_devices' = Append(tenant_devices, t) /\ Len(tenant_devices) < MAX_DEVICES
          /\ UNCHANGED <<loaded, buffers, vmas>>
      BY <2>1 DEF create_tenant_char_device, create_tenant_device, CanCreate
    <3>2. tenant_devices' \in Seq(Tenants) /\ Len(tenant_devices') = Len(tenant_devices) + 1
      BY <1>0, <3>1, AppendProperties DEF CharMapperTypeOK
    <3>3. Len(tenant_devices) \in Nat
      BY <1>0, LenProperties DEF CharMapperTypeOK
    <3>4. Len(tenant_devices') <= MAX_DEVICES
      BY <3>1, <3>2, <3>3, CharMapperAssumption
    <3> QED BY <1>0, <3>1, <3>2, <3>4 DEF CharMapperTypeOK
  <2>2. CASE ~(enabled /\ CanCreate(t))
    <3>1. UNCHANGED charVars
      BY <2>2 DEF create_tenant_char_device
    <3> QED BY <1>0, <3>1 DEF CharMapperTypeOK, charVars
  <2> QED BY <2>1, <2>2
<1>2. \A u \in Tenants : Registered(u)' = Registered(u)
  BY <1>0 DEF Registered
<1>3. CASE SeesDevice(t)
  <2>1. /\ char_devices' = char_devices \cup {t}
        /\ buffer_offsets' = With(buffer_offsets, t, 0)
    BY <1>3 DEF create_tenant_char_device
  <2>2. /\ DOMAIN buffer_offsets' = char_devices'
        /\ \A u \in char_devices : buffer_offsets'[u] = buffer_offsets[u]
        /\ buffer_offsets' \in [DOMAIN buffer_offsets' -> Nat]
    BY <1>0, <2>1 DEF With, DevicesComeFirst, CharBuffersTypeOK
  <2>3. CharBuffersTypeOK'
    BY <1>0, <1>1, <2>1, <2>2 DEF CharBuffersTypeOK
  <2>4. DevicesComeFirst'
    BY <1>0, <2>1, <2>2 DEF DevicesComeFirst
  <2>5. WindowsBelowNext'
    BY <1>0, <1>2, <2>1, <2>2 DEF WindowInv, WindowsBelowNext, PageAlign
  <2>6. WindowsAreApart'
    BY <1>0, <1>2 DEF WindowInv, WindowsAreApart, PageAlign
  <2> QED BY <2>3, <2>4, <2>5, <2>6 DEF WindowInv
<1>4. CASE ~SeesDevice(t)
  <2>1. UNCHANGED <<char_devices, buffer_offsets>>
    BY <1>4 DEF create_tenant_char_device
  <2>2. CharBuffersTypeOK'
    BY <1>0, <1>1, <2>1 DEF CharBuffersTypeOK
  <2>3. DevicesComeFirst'
    BY <1>0, <2>1 DEF DevicesComeFirst
  <2> QED BY <1>0, <1>2, <2>1, <2>2, <2>3, FewerRegistered
<1> QED BY <1>3, <1>4

LEMMA CleanupPreserves ==
  ASSUME WindowInv, NEW t \in Tenants, cleanup_tenant_resources(t)
  PROVE  WindowInv'
<1> DEFINE gone == {h \in DOMAIN live : live[h].tenant = t}
<1>0. /\ CharBuffersTypeOK /\ CharMapperTypeOK /\ DevicesComeFirst
      /\ live' = Without(live, gone)
      /\ UNCHANGED <<running, starting, enabled, char_devices, buffer_offsets,
                     buffer_to_offset, charVars>>
  BY DEF WindowInv, CharBuffersTypeOK, cleanup_tenant_resources
<1> HIDE DEF gone
<1>1. /\ DOMAIN live' = DOMAIN live \ gone
      /\ \A h \in DOMAIN live' : live'[h] = live[h]
      /\ live' \in [DOMAIN live' -> Buffer]
  BY <1>0 DEF Without, CharBuffersTypeOK
<1>2. CharMapperTypeOK'
  BY <1>0 DEF CharMapperTypeOK, charVars
<1>3. CharBuffersTypeOK'
  BY <1>0, <1>1, <1>2 DEF CharBuffersTypeOK
<1>4. DevicesComeFirst'
  BY <1>0, <1>1 DEF DevicesComeFirst
<1>5. \A u \in Tenants : \A h \in Registered(u)' :
        /\ h \in Registered(u) /\ live'[h] = live[h]
        /\ buffer_to_offset'[h] = buffer_to_offset[h]
  BY <1>0, <1>1 DEF Registered
<1> QED BY <1>0, <1>3, <1>4, <1>5, FewerRegistered

\* A write to remove_buffer, whichever entry its digits name, takes entries out
\* of one list and changes none.
LEMMA RemoveTakesOut ==
  ASSUME CharMapperTypeOK, NEW t \in Tenants, NEW offset
  PROVE  /\ remove_buffer_store(t, offset) \in [Tenants -> Seq(BufferMapping)]
         /\ \A i \in DOMAIN remove_buffer_store(t, offset)[t] :
              \E k \in DOMAIN buffers[t] :
                remove_buffer_store(t, offset)[t][i] = buffers[t][k]
<1> DEFINE left == remove_buffer_store(t, offset)
           number == ReadAsDecimal[offset]
           k == First(t, number)
<1>0. buffers \in [Tenants -> Seq(BufferMapping)] /\ buffers[t] \in Seq(BufferMapping)
  BY DEF CharMapperTypeOK
<1>1. CASE HasDevice(t) /\ DecimalDigits[offset] /\ At(t, number) # {}
  <2>1. left = [buffers EXCEPT ![t] = RemoveAt(buffers[t], k)]
    BY <1>1 DEF remove_buffer_store
  <2>2. k \in DOMAIN buffers[t]
    <3> HIDE DEF number
    <3>1. At(t, number) \in SUBSET Nat /\ At(t, number) \subseteq DOMAIN buffers[t]
      BY <1>0, LenProperties DEF At
    <3>2. \E i \in At(t, number) : \A j \in At(t, number) : i <= j
      BY <1>1, <3>1, LeastExists
    <3>3. k \in At(t, number)
      BY <3>2 DEF First
    <3> QED BY <3>1, <3>3
  <2> HIDE DEF k, left
  <2>3. RemoveAt(buffers[t], k) \in Seq(BufferMapping)
    BY <1>0, <2>2, RemoveAtProperties
  <2>4. \A i \in DOMAIN RemoveAt(buffers[t], k) :
          \E j \in DOMAIN buffers[t] : RemoveAt(buffers[t], k)[i] = buffers[t][j]
    BY <1>0, <2>2, RemoveAtEntries
  <2>5. left \in [Tenants -> Seq(BufferMapping)] /\ left[t] = RemoveAt(buffers[t], k)
    BY <1>0, <2>1, <2>3
  <2> QED BY <2>4, <2>5 DEF left
<1>2. CASE ~(HasDevice(t) /\ DecimalDigits[offset] /\ At(t, number) # {})
  <2>1. left = buffers
    BY <1>2 DEF remove_buffer_store
  <2> HIDE DEF left
  <2> QED BY <1>0, <2>1 DEF left
<1> QED BY <1>1, <1>2

\* What free_buffer does to the lists and the tables.
LEMMA FreeTakesOut ==
  ASSUME CharBuffersTypeOK, NEW h \in Handles, free_buffer(h)
  PROVE  /\ buffers' \in [Tenants -> Seq(BufferMapping)]
         /\ \A t \in Tenants : \A i \in DOMAIN buffers'[t] :
              \E k \in DOMAIN buffers[t] : buffers'[t][i] = buffers[t][k]
         /\ DOMAIN buffer_to_offset' \subseteq DOMAIN buffer_to_offset
         /\ \A g \in DOMAIN buffer_to_offset' : buffer_to_offset'[g] = buffer_to_offset[g]
         /\ buffer_to_offset' \in [DOMAIN buffer_to_offset' -> Nat]
         /\ DOMAIN live' \subseteq DOMAIN live
         /\ \A g \in DOMAIN live' : live'[g] = live[g]
         /\ live' \in [DOMAIN live' -> Buffer]
<1>0. /\ buffers \in [Tenants -> Seq(BufferMapping)] /\ CharMapperTypeOK
      /\ h \in DOMAIN live /\ live[h].tenant \in Tenants
      /\ live' = Without(live, {h})
  BY DEF CharBuffersTypeOK, CharMapperTypeOK, free_buffer, Buffer
<1>1. /\ DOMAIN live' \subseteq DOMAIN live
      /\ \A g \in DOMAIN live' : live'[g] = live[g]
      /\ live' \in [DOMAIN live' -> Buffer]
  BY <1>0 DEF Without, CharBuffersTypeOK
<1>2. /\ DOMAIN buffer_to_offset' \subseteq DOMAIN buffer_to_offset
      /\ \A g \in DOMAIN buffer_to_offset' : buffer_to_offset'[g] = buffer_to_offset[g]
      /\ buffer_to_offset' \in [DOMAIN buffer_to_offset' -> Nat]
  <2>1. \/ buffer_to_offset' = buffer_to_offset
        \/ buffer_to_offset' = Without(buffer_to_offset, {h})
    BY DEF free_buffer
  <2> QED BY <2>1 DEF Without, CharBuffersTypeOK
<1>3. /\ buffers' \in [Tenants -> Seq(BufferMapping)]
      /\ \A t \in Tenants : \A i \in DOMAIN buffers'[t] :
           \E k \in DOMAIN buffers[t] : buffers'[t][i] = buffers[t][k]
  <2>1. CASE enabled /\ h \in DOMAIN buffer_to_offset
    <3> DEFINE u == live[h].tenant
               left == remove_buffer_store(u, buffer_to_offset[h])
    <3>1. buffers' = [buffers EXCEPT ![u] = left[u]]
      BY <2>1 DEF free_buffer
    <3>2. /\ left \in [Tenants -> Seq(BufferMapping)]
          /\ \A i \in DOMAIN left[u] : \E k \in DOMAIN buffers[u] : left[u][i] = buffers[u][k]
      BY <1>0, RemoveTakesOut
    <3>3. u \in Tenants
      BY <1>0
    <3> HIDE DEF u, left
    <3> QED BY <1>0, <3>1, <3>2, <3>3
  <2>2. CASE ~(enabled /\ h \in DOMAIN buffer_to_offset)
    <3>1. buffers' = buffers
      BY <2>2 DEF free_buffer
    <3> QED BY <1>0, <3>1
  <2> QED BY <2>1, <2>2
<1> QED BY <1>1, <1>2, <1>3

LEMMA FreePreserves ==
  ASSUME WindowInv, NEW h \in Handles, free_buffer(h)
  PROVE  WindowInv'
<1>0. /\ CharBuffersTypeOK /\ CharMapperTypeOK /\ DevicesComeFirst
      /\ UNCHANGED <<running, starting, enabled, char_devices, buffer_offsets,
                     loaded, tenant_devices, vmas>>
  BY DEF WindowInv, CharBuffersTypeOK, free_buffer
<1>1. CharMapperTypeOK'
  BY <1>0, FreeTakesOut DEF CharMapperTypeOK
<1>2. CharBuffersTypeOK'
  BY <1>0, <1>1, FreeTakesOut DEF CharBuffersTypeOK
<1>3. DevicesComeFirst'
  BY <1>0, FreeTakesOut DEF DevicesComeFirst
<1>4. \A u \in Tenants : \A g \in Registered(u)' :
        /\ g \in Registered(u) /\ live'[g] = live[g]
        /\ buffer_to_offset'[g] = buffer_to_offset[g]
  BY <1>0, FreeTakesOut DEF Registered
<1> QED BY <1>0, <1>2, <1>3, <1>4, FewerRegistered

\* A new buffer takes the tenant's next offset: its window begins where those
\* of the tenant's other buffers have ended.
LEMMA AllocatePreserves ==
  ASSUME WindowInv, NEW t \in Tenants, NEW size \in Sizes, NEW phys \in Blocks,
         NEW h \in FreshHandles, allocate_buffer(t, size, phys, h)
  PROVE  WindowInv'
<1> DEFINE new == [tenant |-> t, phys |-> phys, size |-> size]
<1>0. /\ CharBuffersTypeOK /\ CharMapperTypeOK /\ DevicesComeFirst
      /\ h \in Handles /\ h \notin DOMAIN live /\ h \notin DOMAIN buffer_to_offset
      /\ running /\ live' = With(live, h, new)
      /\ UNCHANGED <<running, starting, enabled, char_devices>>
  BY DEF WindowInv, CharBuffersTypeOK, FreshHandles, allocate_buffer
<1>1. new \in Buffer /\ new.tenant = t /\ new.size = size
  BY DEF Buffer
<1> HIDE DEF new
<1>2. /\ DOMAIN live' = DOMAIN live \cup {h} /\ live'[h] = new
      /\ \A g \in DOMAIN live : live'[g] = live[g]
      /\ live' \in [DOMAIN live' -> Buffer]
  BY <1>0, <1>1 DEF With, CharBuffersTypeOK
<1>3. size \in Nat \ {0} /\ PageAlign(size) \in Nat /\ PageAlign(size) >= 1
  BY CharBuffersAssumption, PageAlignBounds
<1>4. CASE enabled /\ t \in char_devices
  <2> DEFINE offset == buffer_offsets[t]
             mapping == [vm_offset |-> offset, phys |-> phys, size |-> size]
  <2>1. /\ offset \in Nat /\ t \in DOMAIN buffer_offsets
        /\ buffers' = [buffers EXCEPT ![t] = Append(@, mapping)]
        /\ UNCHANGED <<loaded, tenant_devices, vmas>>
        /\ buffer_to_offset' = With(buffer_to_offset, h, offset)
        /\ buffer_offsets' = [buffer_offsets EXCEPT ![t] = offset + PageAlign(size)]
    BY <1>0, <1>4 DEF allocate_buffer, add_buffer_store, NextOffset, DevicesComeFirst,
       CharBuffersTypeOK
  <2>2. mapping \in BufferMapping
    BY <1>3, <2>1 DEF BufferMapping
  <2> HIDE DEF offset, mapping
  <2>3. buffers' \in [Tenants -> Seq(BufferMapping)]
    BY <1>0, <2>1, <2>2, AppendProperties DEF CharMapperTypeOK
  <2>4. CharMapperTypeOK'
    BY <1>0, <2>1, <2>3 DEF CharMapperTypeOK
  <2>5. /\ DOMAIN buffer_to_offset' = DOMAIN buffer_to_offset \cup {h}
        /\ buffer_to_offset'[h] = offset
        /\ \A g \in DOMAIN buffer_to_offset : buffer_to_offset'[g] = buffer_to_offset[g]
        /\ buffer_to_offset' \in [DOMAIN buffer_to_offset' -> Nat]
    BY <1>0, <2>1 DEF With, CharBuffersTypeOK
  <2>6. /\ DOMAIN buffer_offsets' = DOMAIN buffer_offsets
        /\ buffer_offsets'[t] = offset + PageAlign(size)
        /\ \A u \in DOMAIN buffer_offsets \ {t} : buffer_offsets'[u] = buffer_offsets[u]
        /\ buffer_offsets' \in [DOMAIN buffer_offsets' -> Nat]
    BY <1>0, <1>3, <2>1 DEF CharBuffersTypeOK
  <2>7. CharBuffersTypeOK'
    BY <1>0, <1>2, <2>4, <2>5, <2>6 DEF CharBuffersTypeOK
  <2>8. DevicesComeFirst'
    BY <1>0, <2>6 DEF DevicesComeFirst
  <2>9. /\ Registered(t)' = Registered(t) \cup {h}
        /\ \A u \in Tenants \ {t} : Registered(u)' = Registered(u)
        /\ h \notin Registered(t)
    BY <1>0, <1>1, <1>2, <2>5 DEF Registered
  <2>10. \A u \in Tenants : \A g \in Registered(u) :
           /\ live'[g] = live[g] /\ buffer_to_offset'[g] = buffer_to_offset[g]
    BY <1>2, <2>5 DEF Registered
  <2>11. \A g \in Registered(t) :
           /\ buffer_to_offset[g] + PageAlign(live[g].size) <= offset
           /\ buffer_to_offset[g] \in Nat /\ PageAlign(live[g].size) \in Nat
    BY <1>0, RegisteredIsTyped DEF WindowInv, WindowsBelowNext, offset
  <2>12. WindowsBelowNext'
    <3> SUFFICES ASSUME NEW u \in Tenants, NEW g \in Registered(u)'
                 PROVE  /\ u \in char_devices
                        /\ buffer_to_offset'[g] + PageAlign(live'[g].size) <= buffer_offsets'[u]
      BY <1>0 DEF WindowsBelowNext, PageAlign
    <3>1. CASE u # t
      BY <1>0, <2>6, <2>9, <2>10, <3>1 DEF WindowInv, WindowsBelowNext, DevicesComeFirst
    <3>2. CASE u = t /\ g # h
      <4>1. buffer_to_offset[g] + PageAlign(live[g].size) <= offset + PageAlign(size)
        BY <1>3, <2>1, <2>9, <2>11, <3>2
      <4> QED BY <1>4, <2>6, <2>9, <2>10, <3>2, <4>1
    <3>3. CASE u = t /\ g = h
      BY <1>1, <1>2, <1>3, <1>4, <2>1, <2>5, <2>6, <3>3
    <3> QED BY <3>1, <3>2, <3>3
  <2>13. WindowsAreApart'
    <3> SUFFICES ASSUME NEW u \in Tenants, NEW f \in Registered(u)',
                        NEW g \in Registered(u)', f # g
                 PROVE  \/ buffer_to_offset'[f] + PageAlign(live'[f].size) <= buffer_to_offset'[g]
                        \/ buffer_to_offset'[g] + PageAlign(live'[g].size) <= buffer_to_offset'[f]
      BY DEF WindowsAreApart, PageAlign
    <3>1. CASE f \in Registered(u) /\ g \in Registered(u)
      BY <2>10, <3>1 DEF WindowInv, WindowsAreApart
    <3>2. CASE u = t /\ f = h /\ g \in Registered(t)
      BY <2>5, <2>10, <2>11, <3>2
    <3>3. CASE u = t /\ g = h /\ f \in Registered(t)
      BY <2>5, <2>10, <2>11, <3>3
    <3> QED BY <2>9, <3>1, <3>2, <3>3
  <2> QED BY <2>7, <2>8, <2>12, <2>13 DEF WindowInv
<1>5. CASE ~(enabled /\ t \in char_devices)
  <2>1. UNCHANGED <<buffer_to_offset, buffer_offsets, charVars>>
    BY <1>5 DEF allocate_buffer
  <2>2. CharMapperTypeOK'
    BY <1>0, <2>1 DEF CharMapperTypeOK, charVars
  <2>3. CharBuffersTypeOK'
    BY <1>0, <1>2, <2>1, <2>2 DEF CharBuffersTypeOK
  <2>4. DevicesComeFirst'
    BY <1>0, <2>1 DEF DevicesComeFirst
  <2>5. \A u \in Tenants : \A g \in Registered(u)' :
          /\ g \in Registered(u) /\ live'[g] = live[g]
          /\ buffer_to_offset'[g] = buffer_to_offset[g]
    BY <1>0, <1>2, <2>1 DEF Registered
  <2> QED BY <1>0, <2>1, <2>3, <2>4, <2>5, FewerRegistered
<1> QED BY <1>4, <1>5

LEMMA WindowNextPreserves == WindowInv /\ [CharBuffersNext]_cbVars => WindowInv'
<1> SUFFICES ASSUME WindowInv, [CharBuffersNext]_cbVars PROVE WindowInv'
  OBVIOUS
<1>1. CASE UNCHANGED cbVars
  <2>1. UNCHANGED hvVars /\ UNCHANGED charVars
    BY <1>1 DEF cbVars
  <2>2. CharBuffersTypeOK'
    BY <2>1 DEF WindowInv, CharBuffersTypeOK, CharMapperTypeOK, hvVars, charVars
  <2>3. DevicesComeFirst'
    BY <2>1 DEF WindowInv, DevicesComeFirst, hvVars
  <2>4. \A t \in Tenants : Registered(t)' = Registered(t)
    BY <2>1 DEF Registered, hvVars
  <2> QED BY <2>1, <2>2, <2>3, <2>4, FewerRegistered DEF hvVars
<1>2. CASE Kernel \/ User
  BY <1>2, KernelPreserves
<1>3. CASE Hypervisor
  BY <1>3, StartStopPreserve, CreatePreserves, CleanupPreserves, AllocatePreserves,
     FreePreserves DEF Hypervisor
<1> QED BY <1>1, <1>2, <1>3 DEF CharBuffersNext

LEMMA WindowInvariance == CharBuffersSpec => []WindowInv
  BY CharInitEstablishes, WindowNextPreserves, PTL DEF CharBuffersSpec

\* The windows of a tenant's live buffers never overlap, whatever is freed,
\* crashes or is reloaded, on any page size.
THEOREM WindowsNeverOverlap == CharBuffersSpec => []WindowsAreApart
<1>1. WindowInv => WindowsAreApart
  BY DEF WindowInv
<1> QED BY <1>1, WindowInvariance, PTL

\* The kernel's table never outgrows MAX_DEVICES and the lists hold mappings
\* of known blocks only.
THEOREM BuffersAreTyped == CharBuffersSpec => []CharBuffersTypeOK
<1>1. WindowInv => CharBuffersTypeOK
  BY DEF WindowInv
<1> QED BY <1>1, WindowInvariance, PTL

-----------------------------------------------------------------------------
(* What mmap finds at a buffer's offset, on a kernel that does not clear the *)
(* memory it frees: there a device that exists is never taken for a new one  *)

\* The kernel may hold entries of buffers long freed; in the device of a tenant
\* of this run they all lie below the next offset, and one at the offset of a
\* live buffer is that buffer's.
ListsHaveDevices ==
  \A t \in Tenants : ~HasDevice(t) => DOMAIN buffers[t] = {}

EntriesBelowNext ==
  \A t \in Tenants \cap char_devices : \A i \in DOMAIN buffers[t] :
    buffers[t][i].vm_offset < buffer_offsets[t]

EntriesAreBuffers ==
  \A t \in Tenants : \A h \in Registered(t) : \A i \in DOMAIN buffers[t] :
    buffers[t][i].vm_offset = buffer_to_offset[h] =>
      buffers[t][i].phys = live[h].phys /\ buffers[t][i].size = live[h].size

ListInv ==
  /\ WindowInv
  /\ ListsHaveDevices
  /\ EntriesBelowNext
  /\ EntriesAreBuffers

LEMMA ListInitEstablishes == CharBuffersInit => ListInv
<1> SUFFICES ASSUME CharBuffersInit PROVE ListInv
  OBVIOUS
<1>1. WindowInv
  BY CharInitEstablishes
<1>2. \A t \in Tenants : DOMAIN buffers[t] = {}
  BY DEF CharBuffersInit, CharMapperInit
<1> QED
  BY <1>1, <1>2 DEF ListInv, ListsHaveDevices, EntriesBelowNext, EntriesAreBuffers

\* A step that adds no entry and registers nothing, in tenants whose device and
\* offset stay.
LEMMA NoNewEntry ==
  ASSUME ListInv, WindowInv',
         \A t \in Tenants : HasDevice(t)' \/ DOMAIN buffers'[t] = {} \/ ~HasDevice(t),
         \A t \in Tenants : \A i \in DOMAIN buffers'[t] :
           \E k \in DOMAIN buffers[t] : buffers'[t][i] = buffers[t][k],
         \A t \in char_devices' : t \in char_devices /\ buffer_offsets'[t] = buffer_offsets[t],
         \A t \in Tenants : \A h \in Registered(t)' :
           /\ h \in Registered(t) /\ live'[h] = live[h]
           /\ buffer_to_offset'[h] = buffer_to_offset[h]
  PROVE  ListInv'
<1>1. ListsHaveDevices'
  BY DEF ListInv, ListsHaveDevices
<1>2. EntriesBelowNext'
  BY DEF ListInv, EntriesBelowNext
<1>3. EntriesAreBuffers'
  BY DEF ListInv, EntriesAreBuffers
<1> QED BY <1>1, <1>2, <1>3 DEF ListInv

LEMMA KernelKeepsLists ==
  ASSUME ListInv, Kernel \/ User
  PROVE  ListInv'
<1>1. WindowInv' /\ UNCHANGED hvVars
  BY KernelPreserves DEF ListInv, Kernel, User
<1>2. \A t \in Tenants : Registered(t)' = Registered(t)
  BY <1>1 DEF Registered, hvVars
<1>3. CASE pynq_char_exit
  <2>1. \A t \in Tenants : DOMAIN buffers'[t] = {}
    BY <1>3 DEF pynq_char_exit
  <2> QED BY <1>1, <1>2, <2>1, NoNewEntry DEF hvVars
<1>4. CASE UNCHANGED <<tenant_devices, buffers>>
  <2>1. \A t \in Tenants : HasDevice(t)' = HasDevice(t)
    BY <1>4 DEF HasDevice
  <2> QED BY <1>1, <1>2, <1>4, <2>1, NoNewEntry DEF hvVars
<1> QED
  BY <1>3, <1>4 DEF Kernel, User, pynq_char_init, pynq_char_mmap, munmap

LEMMA StartStopKeepLists ==
  ASSUME ListInv, Start \/ Stop
  PROVE  ListInv'
<1>1. WindowInv' /\ UNCHANGED charVars
  BY StartStopPreserve DEF ListInv, Start, Stop
<1>2. \A t \in Tenants : HasDevice(t)' = HasDevice(t)
  BY <1>1 DEF HasDevice, charVars
<1>3. CASE Start
  <2>1. \A t \in Tenants : Registered(t)' = Registered(t)
    BY <1>3 DEF Registered, Start
  <2> QED BY <1>1, <1>2, <1>3, <2>1, NoNewEntry DEF Start, charVars
<1>4. CASE Stop
  <2>1. (\A t \in Tenants : Registered(t)' = {}) /\ char_devices' = {}
    BY <1>4 DEF Stop, Stopped, Registered, None
  <2> QED BY <1>1, <1>2, <2>1, NoNewEntry DEF charVars
<1> QED BY <1>3, <1>4

\* The write to create_device succeeds for a device that did not exist, so
\* there is no entry in it.
LEMMA CreateKeepsLists ==
  ASSUME ~CLEARS_FREED, ListInv, NEW t \in Tenants, create_tenant_char_device(t)
  PROVE  ListInv'
<1>0. /\ WindowInv' /\ UNCHANGED <<buffer_to_offset, live, buffers>>
      /\ DevicesComeFirst /\ CharMapperTypeOK
  BY CreatePreserves DEF ListInv, WindowInv, CharBuffersTypeOK, create_tenant_char_device,
     create_tenant_device, charVars
<1>1. \A u \in Tenants : Registered(u)' = Registered(u)
  BY <1>0 DEF Registered
<1>2. CASE SeesDevice(t)
  <2>1. /\ ~HasDevice(t)
        /\ tenant_devices' = Append(tenant_devices, t)
        /\ char_devices' = char_devices \cup {t}
        /\ buffer_offsets' = With(buffer_offsets, t, 0)
    BY <1>2 DEF SeesDevice, ClaimsSuccess, CanCreate, create_tenant_char_device,
       create_tenant_device
  <2>2. DOMAIN buffers[t] = {}
    BY <2>1 DEF ListInv, ListsHaveDevices
  <2>3. \A u \in Tenants : HasDevice(u) => HasDevice(u)'
    <3>1. /\ \A i \in DOMAIN tenant_devices :
               i \in DOMAIN tenant_devices' /\ tenant_devices'[i] = tenant_devices[i]
      BY <1>0, <2>1, AppendProperties, LenProperties DEF CharMapperTypeOK
    <3> QED BY <3>1 DEF HasDevice, ToSet
  <2>4. ListsHaveDevices'
    BY <1>0, <2>3 DEF ListInv, ListsHaveDevices
  <2>5. \A u \in char_devices \ {t} : buffer_offsets'[u] = buffer_offsets[u]
    BY <1>0, <2>1 DEF With, DevicesComeFirst
  <2>6. EntriesBelowNext'
    BY <1>0, <2>1, <2>2, <2>5 DEF ListInv, EntriesBelowNext
  <2>7. EntriesAreBuffers'
    BY <1>0, <1>1 DEF ListInv, EntriesAreBuffers
  <2> QED BY <1>0, <2>4, <2>6, <2>7 DEF ListInv
<1>3. CASE ~SeesDevice(t)
  <2>1. UNCHANGED <<char_devices, buffer_offsets, charVars>>
    BY <1>3 DEF SeesDevice, create_tenant_char_device
  <2>2. \A u \in Tenants : HasDevice(u)' = HasDevice(u)
    BY <2>1 DEF HasDevice, charVars
  <2> QED BY <1>0, <1>1, <2>1, <2>2, NoNewEntry DEF charVars
<1> QED BY <1>2, <1>3

LEMMA CleanupKeepsLists ==
  ASSUME ListInv, NEW t \in Tenants, cleanup_tenant_resources(t)
  PROVE  ListInv'
<1> DEFINE gone == {h \in DOMAIN live : live[h].tenant = t}
<1>1. /\ WindowInv' /\ UNCHANGED <<char_devices, buffer_offsets, buffer_to_offset, charVars>>
      /\ live' = Without(live, gone)
  BY CleanupPreserves DEF ListInv, cleanup_tenant_resources
<1> HIDE DEF gone
<1>2. \A u \in Tenants : HasDevice(u)' = HasDevice(u)
  BY <1>1 DEF HasDevice, charVars
<1>3. \A u \in Tenants : \A h \in Registered(u)' : h \in Registered(u) /\ live'[h] = live[h]
  BY <1>1 DEF Registered, Without
<1> QED BY <1>1, <1>2, <1>3, NoNewEntry DEF charVars

LEMMA FreeKeepsLists ==
  ASSUME ListInv, NEW h \in Handles, free_buffer(h)
  PROVE  ListInv'
<1>1. /\ WindowInv' /\ UNCHANGED <<char_devices, buffer_offsets, tenant_devices>>
      /\ CharBuffersTypeOK
  BY FreePreserves DEF ListInv, WindowInv, free_buffer
<1>2. \A u \in Tenants : HasDevice(u)' = HasDevice(u)
  BY <1>1 DEF HasDevice
<1>3. \A u \in Tenants : \A g \in Registered(u)' :
        /\ g \in Registered(u) /\ live'[g] = live[g]
        /\ buffer_to_offset'[g] = buffer_to_offset[g]
  BY <1>1, FreeTakesOut DEF Registered
<1> QED BY <1>1, <1>2, <1>3, FreeTakesOut, NoNewEntry

\* The new entry is at an offset past every entry the device has and past the
\* offsets of the tenant's other buffers.
LEMMA AllocateKeepsLists ==
  ASSUME ListInv, NEW t \in Tenants, NEW size \in Sizes, NEW phys \in Blocks,
         NEW h \in FreshHandles, allocate_buffer(t, size, phys, h)
  PROVE  ListInv'
<1> DEFINE new == [tenant |-> t, phys |-> phys, size |-> size]
<1>0. /\ WindowInv /\ WindowInv' /\ CharBuffersTypeOK /\ CharMapperTypeOK
      /\ DevicesComeFirst /\ h \notin DOMAIN live /\ h \notin DOMAIN buffer_to_offset
      /\ live' = With(live, h, new)
      /\ UNCHANGED char_devices
  BY AllocatePreserves DEF ListInv, WindowInv, CharBuffersTypeOK, FreshHandles,
     allocate_buffer
<1>1. new.tenant = t /\ new.phys = phys /\ new.size = size
  OBVIOUS
<1> HIDE DEF new
<1>2. /\ DOMAIN live' = DOMAIN live \cup {h} /\ live'[h] = new
      /\ \A g \in DOMAIN live : live'[g] = live[g]
  BY <1>0 DEF With
<1>3. CASE enabled /\ t \in char_devices
  <2> DEFINE offset == buffer_offsets[t]
             mapping == [vm_offset |-> offset, phys |-> phys, size |-> size]
  <2>1. /\ HasDevice(t) /\ offset \in Nat
        /\ buffers' = [buffers EXCEPT ![t] = Append(@, mapping)]
        /\ UNCHANGED tenant_devices
        /\ buffer_to_offset' = With(buffer_to_offset, h, offset)
        /\ buffer_offsets' = [buffer_offsets EXCEPT ![t] = offset + PageAlign(size)]
        /\ buffers \in [Tenants -> Seq(BufferMapping)]
    BY <1>0, <1>3 DEF allocate_buffer, add_buffer_store, NextOffset, DevicesComeFirst,
       CharBuffersTypeOK, CharMapperTypeOK
  <2>2. size \in Nat \ {0} /\ PageAlign(size) \in Nat /\ PageAlign(size) >= 1
    BY CharBuffersAssumption, PageAlignBounds
  <2>3. mapping \in BufferMapping /\ mapping.vm_offset = offset /\ mapping.phys = phys
        /\ mapping.size = size
    BY <2>1, <2>2 DEF BufferMapping
  <2> HIDE DEF offset, mapping
  <2>4. /\ \A u \in Tenants \ {t} : buffers'[u] = buffers[u]
        /\ DOMAIN buffers'[t] = DOMAIN buffers[t] \cup {Len(buffers[t]) + 1}
        /\ buffers'[t][Len(buffers[t]) + 1] = mapping
        /\ \A i \in DOMAIN buffers[t] : buffers'[t][i] = buffers[t][i]
    BY <2>1, <2>3, AppendProperties, LenProperties
  <2>5. /\ DOMAIN buffer_to_offset' = DOMAIN buffer_to_offset \cup {h}
        /\ buffer_to_offset'[h] = offset
        /\ \A g \in DOMAIN buffer_to_offset : buffer_to_offset'[g] = buffer_to_offset[g]
    BY <1>0, <2>1 DEF With
  <2>6. /\ buffer_offsets'[t] = offset + PageAlign(size)
        /\ \A u \in char_devices \ {t} : buffer_offsets'[u] = buffer_offsets[u]
    BY <1>0, <1>3, <2>1 DEF DevicesComeFirst
  <2>7. /\ Registered(t)' = Registered(t) \cup {h}
        /\ \A u \in Tenants \ {t} : Registered(u)' = Registered(u)
    BY <1>0, <1>1, <1>2, <2>5 DEF Registered
  <2>8. \A u \in Tenants : \A g \in Registered(u) :
          g \in DOMAIN live /\ g \in DOMAIN buffer_to_offset
          /\ live'[g] = live[g] /\ buffer_to_offset'[g] = buffer_to_offset[g]
    BY <1>2, <2>5 DEF Registered
  <2>9. \A i \in DOMAIN buffers[t] :
          buffers[t][i].vm_offset < offset /\ buffers[t][i].vm_offset \in Nat
    <3>1. \A i \in DOMAIN buffers[t] : buffers[t][i] \in BufferMapping
      BY <2>1, ElementOfSeq, LenProperties
    <3>2. \A i \in DOMAIN buffers[t] : buffers[t][i].vm_offset < offset
      BY <1>3 DEF ListInv, EntriesBelowNext, offset
    <3> QED BY <3>1, <3>2 DEF BufferMapping
  <2>10. \A g \in Registered(t) : buffer_to_offset[g] < offset
    <3>1. \A g \in Registered(t) :
            /\ buffer_to_offset[g] + PageAlign(live[g].size) <= offset
            /\ buffer_to_offset[g] \in Nat
            /\ PageAlign(live[g].size) \in Nat /\ PageAlign(live[g].size) >= 1
      BY <1>0, RegisteredIsTyped DEF WindowInv, WindowsBelowNext, offset
    <3> QED BY <2>1, <3>1
  <2>11. ListsHaveDevices'
    BY <2>1, <2>4 DEF ListInv, ListsHaveDevices, HasDevice
  <2>12. EntriesBelowNext'
    <3> SUFFICES ASSUME NEW u \in Tenants \cap char_devices, NEW i \in DOMAIN buffers'[u]
                 PROVE  buffers'[u][i].vm_offset < buffer_offsets'[u]
      BY <1>0 DEF EntriesBelowNext
    <3>1. CASE u # t
      BY <2>4, <2>6, <3>1 DEF ListInv, EntriesBelowNext
    <3>2. CASE u = t
      BY <2>1, <2>2, <2>3, <2>4, <2>6, <2>9, <3>2
    <3> QED BY <3>1, <3>2
  <2>13. EntriesAreBuffers'
    <3> SUFFICES ASSUME NEW u \in Tenants, NEW g \in Registered(u)',
                        NEW i \in DOMAIN buffers'[u],
                        buffers'[u][i].vm_offset = buffer_to_offset'[g]
                 PROVE  /\ buffers'[u][i].phys = live'[g].phys
                        /\ buffers'[u][i].size = live'[g].size
      BY DEF EntriesAreBuffers
    <3>1. CASE u # t
      BY <2>4, <2>7, <2>8, <3>1 DEF ListInv, EntriesAreBuffers
    <3>2. CASE u = t /\ g # h
      <4>1. g \in Registered(t) /\ buffer_to_offset'[g] < offset
        BY <2>7, <2>8, <2>10, <3>2
      <4>2. i \in DOMAIN buffers[t] /\ buffers'[t][i] = buffers[t][i]
        BY <2>1, <2>3, <2>4, <3>2, <4>1
      <4> QED BY <2>8, <3>2, <4>1, <4>2 DEF ListInv, EntriesAreBuffers
    <3>3. CASE u = t /\ g = h
      <4>1. i = Len(buffers[t]) + 1
        BY <2>1, <2>4, <2>5, <2>9, <3>3
      <4> QED BY <1>1, <1>2, <2>3, <2>4, <3>3, <4>1
    <3> QED BY <3>1, <3>2, <3>3
  <2> QED BY <1>0, <2>11, <2>12, <2>13 DEF ListInv
<1>4. CASE ~(enabled /\ t \in char_devices)
  <2>1. UNCHANGED <<buffer_to_offset, buffer_offsets, charVars>>
    BY <1>4 DEF allocate_buffer
  <2>2. \A u \in Tenants : HasDevice(u)' = HasDevice(u)
    BY <2>1 DEF HasDevice, charVars
  <2>3. \A u \in Tenants : \A g \in Registered(u)' :
          g \in Registered(u) /\ live'[g] = live[g]
    BY <1>0, <1>2, <2>1 DEF Registered
  <2> QED BY <1>0, <2>1, <2>2, <2>3, NoNewEntry DEF charVars
<1> QED BY <1>3, <1>4

LEMMA ListNextPreserves ==
  ASSUME ~CLEARS_FREED
  PROVE  ListInv /\ [CharBuffersNext]_cbVars => ListInv'
<1> SUFFICES ASSUME ListInv, [CharBuffersNext]_cbVars PROVE ListInv'
  OBVIOUS
<1>1. CASE UNCHANGED cbVars
  <2>1. WindowInv' /\ UNCHANGED hvVars /\ UNCHANGED charVars
    BY <1>1, WindowNextPreserves DEF ListInv, cbVars
  <2>2. \A t \in Tenants : Registered(t)' = Registered(t) /\ HasDevice(t)' = HasDevice(t)
    BY <2>1 DEF Registered, HasDevice, hvVars, charVars
  <2> QED BY <2>1, <2>2, NoNewEntry DEF hvVars, charVars
<1>2. CASE Kernel \/ User
  BY <1>2, KernelKeepsLists
<1>3. CASE Hypervisor
  BY <1>3, StartStopKeepLists, CreateKeepsLists, CleanupKeepsLists, AllocateKeepsLists,
     FreeKeepsLists DEF Hypervisor
<1> QED BY <1>1, <1>2, <1>3 DEF CharBuffersNext

\* Only mmap makes an area, of the block the first entry at its offset names.
LEMMA MmapFindsBuffer ==
  ASSUME ListInv, [CharBuffersNext]_cbVars, NEW area \in vmas' \ vmas,
         NEW h \in Registered(area.tenant), buffer_to_offset[h] = area.vm_offset
  PROVE  area.phys = live[h].phys /\ area.size <= PageAlign(live[h].size)
<1>1. PICK t \in Tenants : \E i \in DOMAIN buffers[t], size \in Sizes :
        pynq_char_mmap(t, buffers[t][i].vm_offset, PageAlign(size))
  BY DEF CharBuffersNext, Kernel, User, Hypervisor, Start, Stop, create_tenant_char_device,
     cleanup_tenant_resources, allocate_buffer, free_buffer, add_buffer_store,
     create_tenant_device, pynq_char_init, pynq_char_exit, munmap, charVars, cbVars
<1>2. PICK o, size : o \in {buffers[t][i].vm_offset : i \in DOMAIN buffers[t]}
                     /\ pynq_char_mmap(t, o, size)
  BY <1>1
<1> DEFINE k == First(t, o)
<1>3. k \in DOMAIN buffers[t] /\ buffers[t][k].vm_offset = o
  <2>1. buffers[t] \in Seq(BufferMapping)
    BY DEF ListInv, WindowInv, CharBuffersTypeOK, CharMapperTypeOK
  <2>2. /\ At(t, o) # {} /\ At(t, o) \in SUBSET Nat
        /\ \A i \in At(t, o) : i \in DOMAIN buffers[t] /\ buffers[t][i].vm_offset = o
    BY <1>2, <2>1, LenProperties DEF At, pynq_char_mmap
  <2>3. \E i \in At(t, o) : \A j \in At(t, o) : i <= j
    BY <2>2, LeastExists
  <2>4. k \in At(t, o)
    BY <2>3 DEF First
  <2> QED BY <2>2, <2>4
<1>4. /\ area = [tenant |-> t, vm_offset |-> o, phys |-> buffers[t][k].phys, size |-> size]
      /\ size <= PageAlign(buffers[t][k].size)
  BY <1>2 DEF pynq_char_mmap
<1> HIDE DEF k
<1>5. area.tenant = t /\ area.vm_offset = o /\ area.phys = buffers[t][k].phys
      /\ area.size = size
  BY <1>4
<1>6. buffers[t][k].phys = live[h].phys /\ buffers[t][k].size = live[h].size
  BY <1>3, <1>5 DEF ListInv, EntriesAreBuffers
<1> QED BY <1>4, <1>5, <1>6

\* On a kernel that does not clear freed memory, a program that maps the offset
\* of a live buffer gets that buffer and no more, through crashes of the
\* hypervisor, reloads of the module and entries nobody took out.
THEOREM MmapIsExact ==
  ASSUME ~CLEARS_FREED
  PROVE  CharBuffersSpec => MmapReachesOwnBuffer
<1>1. ListInv /\ [CharBuffersNext]_cbVars =>
        [\A area \in vmas' \ vmas : \A h \in Registered(area.tenant) :
           buffer_to_offset[h] = area.vm_offset =>
             /\ area.phys = live[h].phys
             /\ area.size <= PageAlign(live[h].size)]_cbVars
  BY MmapFindsBuffer
<1>2. ListInv /\ [CharBuffersNext]_cbVars => ListInv'
  BY ListNextPreserves
<1> QED
  BY <1>1, <1>2, ListInitEstablishes, PTL DEF CharBuffersSpec, MmapReachesOwnBuffer
=============================================================================
