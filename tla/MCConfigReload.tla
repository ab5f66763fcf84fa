----------------------------- MODULE MCConfigReload -----------------------------
(***************************************************************************)
(* ConfigReload for TLC.                                                   *)
(***************************************************************************)
EXTENDS ConfigReload, TLC
================================================================================
