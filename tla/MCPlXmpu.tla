------------------------------ MODULE MCPlXmpu ------------------------------
(***************************************************************************)
(* The example design with a protection unit of one or two regions.  The   *)
(* builds change up to two of the switches the properties tell apart, and  *)
(* may give one on the command line as well.                               *)
(***************************************************************************)
EXTENDS FaultInjection

MCKnobs ==
  {"ENABLE_EM", "ENABLE_SCHEDULER", "ENABLE_RECOVERY", "ENABLE_POS",
   "ENABLE_DDR_SR_WR", "ENABLE_RUNTIME_OVERTEMP", "ENABLE_RUNTIME_EXTWDT",
   "ENABLE_DYNAMIC_MIO_CONFIG"}

MCRequests == {<<"PL", "SRST">>, <<"FPD_SWDT", "NONE">>}
=============================================================================
