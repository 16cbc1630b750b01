--------------------------- MODULE MCKernelDrivers ----------------------------
(* The two kernel modules.  They share no state, so each is explored with the  *)
(* other one not yet used: the states of the one and the states of the other,  *)
(* not their products.                                                         *)
EXTENDS CharBuffers, UioMapper, TLC

DriversInit == CharBuffersInit /\ UioInit

DriversNext ==
  \/ UioInit /\ CharBuffersNext /\ UNCHANGED umVars
  \/ CharBuffersInit /\ UioNext /\ UNCHANGED cbVars

DriversSpec == DriversInit /\ [][DriversNext]_<<cbVars, umVars>>

\* Tenants, blocks and handles are interchangeable; so are names and writers.
MCSymmetry ==
  Permutations(Tenants) \cup Permutations(Blocks) \cup Permutations(Handles)
    \cup Permutations(Names) \cup Permutations(Writers)
=============================================================================
