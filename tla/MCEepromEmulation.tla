------------------------- MODULE MCEepromEmulation -------------------------
(***************************************************************************)
(* Small instances.  EepromEmulation.cfg: the log reaches the header of    *)
(* page 1 with its 5th entry, two variables and two values.                *)
(* EepromWorn.cfg: it does so with its 3rd entry, three variables, so that *)
(* most of the state space lies behind that point.                         *)
(***************************************************************************)
EXTENDS EepromEmulation

\* An ordinary value and the one that looks like erased flash.
MCData == {7, 65535}

MCOneValue == {7}
============================================================================
