----------------------------- MODULE BtDevicesMC -----------------------------
(* An instance of BtDevices small enough for TLC. *)
EXTENDS BtDevices, TLC

CONSTANTS headset, phone, lamp

\* 0x240404, 0x5a020c and a Class of no known type.
MCClass == headset :> 2360324 @@ phone :> 5898764 @@ lamp :> 7936

\* Device objects are only compared.
Symmetry == Permutations(Objects)
=============================================================================
