------------------------------ MODULE VFPGALease ------------------------------
(***************************************************************************)
(* What the hypervisor promises its tenants, without threads, locks,       *)
(* handles or decouplers: a PR region is leased to one tenant at a time,   *)
(* runs one bitstream for as long as the lease lasts, and is only          *)
(* reprogrammed between leases.                                            *)
(***************************************************************************)
EXTENDS Functions

CONSTANTS
  Regions,     \* the PR regions of the board
  Tenants,
  Bitstreams,  \* what a tenant may run
  Contents,    \* whatever a region may hold, the bitstreams among it
  PowerOnContent

VARIABLES
  lease,    \* region -> the tenant that holds it and what it was promised
  running   \* what each region holds

leaseVars == <<lease, running>>

LeaseInit ==
  /\ lease = [z \in {} |-> {}]
  /\ running = [z \in Regions |-> PowerOnContent]

\* A free region is programmed, perhaps unsuccessfully.
Program(z, c) ==
  /\ z \notin DOMAIN lease
  /\ running' = [running EXCEPT ![z] = c]
  /\ UNCHANGED lease

\* A free region is leased for the bitstream it holds.
Grant(z, t) ==
  /\ z \notin DOMAIN lease
  /\ running[z] \in Bitstreams
  /\ lease' = [x \in DOMAIN lease \cup {z} |->
                 IF x = z THEN [tenant |-> t, bitstream |-> running[z]] ELSE lease[x]]
  /\ UNCHANGED running

\* Every lease of a tenant ends in one step: no cleanup is seen half done.
RevokeAll(t) ==
  /\ lease' = Restrict(lease, {z \in DOMAIN lease : lease[z].tenant # t})
  /\ UNCHANGED running

\* The hypervisor is started again.
PowerOn ==
  /\ lease' = [z \in {} |-> {}]
  /\ running' = [z \in Regions |-> PowerOnContent]

LeaseNext ==
  \/ \E z \in Regions, c \in Contents : Program(z, c)
  \/ \E z \in Regions, t \in Tenants : Grant(z, t)
  \/ \E t \in Tenants : RevokeAll(t)
  \/ PowerOn

LeaseSpec == LeaseInit /\ [][LeaseNext]_leaseVars

\* What the tenants rely on: a leased region runs what its holder was promised.
LeaseRuns == \A z \in DOMAIN lease : running[z] = lease[z].bitstream
=============================================================================
