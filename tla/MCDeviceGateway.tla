-------------------------- MODULE MCDeviceGateway ---------------------------
(* DeviceGateway with model values for TLC. *)
EXTENDS DeviceGateway, TLC

CONSTANTS d1, d2, p1, p2, w1

Symmetry == Permutations(Devices) \cup Permutations(Callers)
=============================================================================
