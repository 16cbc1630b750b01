------------------------------- MODULE Platform -------------------------------
(***************************************************************************)
(* What the parts of the hypervisor share: the board's partially           *)
(* reconfigurable (PR) zones, the bitstream directory and the tenants.     *)
(*                                                                         *)
(* A bitstream file PR_<z>_<base>.bit is the pair <<z, base>>.             *)
(***************************************************************************)
EXTENDS Integers

CONSTANTS
  NumPRZones,          \* zones are 0 .. NumPRZones-1
  ZoneIds,             \* numbers a file name may carry, some past the last zone
  Bases,               \* the <base> in PR_<z>_<base>.bit
  Files,               \* the bitstream files in bitstream_dir
  Tenants,
  AllowedBitstreams,   \* tenant -> the files its configuration lists
  Handles              \* the resource handles uuid4 may return

Zones == 0 .. NumPRZones - 1

Bitstreams == ZoneIds \X Bases

ASSUME PlatformAssumption ==
  /\ NumPRZones \in Nat
  /\ ZoneIds \subseteq Nat
  /\ Zones \subseteq ZoneIds
  /\ Files \subseteq Bitstreams
  /\ AllowedBitstreams \in [Tenants -> SUBSET Bitstreams]

NoZone == -1   \* Python's None where a zone number is expected
=============================================================================
