------------------------------ MODULE MCSwitchGate -----------------------------
(* Instances of SwitchGate for TLC: the .cfg files give the operations as  *)
(* model values.  The liveness properties rule out symmetry.               *)
EXTENDS SwitchGate, TLC
================================================================================
