------------------------------ MODULE MCAtlasAXI ------------------------------
(* Registers of two one-bit lanes.  Two pads with three bits each: pad 0 ends *)
(* in slv_reg1, where pad 1 begins.                                           *)
EXTENDS AtlasAXI

OnesAndZeros == {[b \in Bits |-> v] : v \in Bit}
AllLanesOrOne == {Lanes, {0}}
OnlyOnes == {[b \in Bits |-> 1]}
AllLanes == {Lanes}
=============================================================================
