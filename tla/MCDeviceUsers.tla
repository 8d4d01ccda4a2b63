--------------------------- MODULE MCDeviceUsers ---------------------------
(***************************************************************************)
(* DeviceUsers for TLC: users and consumers are interchangeable.           *)
(***************************************************************************)
EXTENDS DeviceUsers, TLC
Symmetry == Permutations(Users) \cup Permutations(Consumers)
=============================================================================
