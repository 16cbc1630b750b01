------------------------------ MODULE MCLiveness ------------------------------
(* The hypervisor's lock and the AXI slave: what must happen in the end.  They *)
(* share no state, so each is explored with the other one not yet used, the    *)
(* slave's latched addresses being 0 then; fairness is that of FairSpec and    *)
(* FairAXISpec, for the one that is used.                                      *)
EXTENDS MCHypervisor, MCAtlasAXI

liveVars == <<vars, axiVars>>

AXIUnused == AXIInit /\ axi_awaddr = 0 /\ axi_araddr = 0 /\ UNCHANGED axiVars
HypervisorUnused == Init /\ UNCHANGED vars

LiveNext ==
  \/ AXIUnused /\ Next
  \/ HypervisorUnused /\ AXINext

LiveFairness ==
  /\ \A t \in Workers : WF_liveVars(AXIUnused /\ Step(t))
  /\ WF_liveVars(HypervisorUnused /\ ClockEdge)
  /\ WF_liveVars(HypervisorUnused /\ PresentAddress)
  /\ WF_liveVars(HypervisorUnused /\ PresentData)
  /\ WF_liveVars(HypervisorUnused /\ TakeResponse)
  /\ WF_liveVars(HypervisorUnused /\ TakeData)

LiveSpec == Init /\ AXIInit /\ [][LiveNext]_liveVars /\ LiveFairness
=============================================================================
