--------------------------- MODULE MCExternalAdc ---------------------------
(***************************************************************************)
(* Two channels, halves of two records; the chunk of three records and the *)
(* scan of the ADC both straddle the halves.                               *)
(***************************************************************************)
EXTENDS ExternalAdc
============================================================================
