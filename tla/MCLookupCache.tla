------------------------------ MODULE MCLookupCache ----------------------------
(* Instances of LookupCache for TLC: the .cfg files give the readers as    *)
(* model values; generations and versions are small numbers.               *)
EXTENDS LookupCache, TLC
================================================================================
