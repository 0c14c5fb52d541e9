----------------------------- MODULE MCDisplay -----------------------------
(***************************************************************************)
(* A screen changes at its second regular update; two system status        *)
(* screens.                                                                *)
(***************************************************************************)
EXTENDS Display
============================================================================
