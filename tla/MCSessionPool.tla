------------------------------ MODULE MCSessionPool ----------------------------
(* Instances of SessionPool for TLC: the .cfg files give the operations,   *)
(* connections and settings as model values.  The liveness property rules  *)
(* out symmetry.                                                           *)
EXTENDS SessionPool, TLC
================================================================================
