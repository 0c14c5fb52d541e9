----------------------- MODULE MCDevice -----------------------
(***************************************************************************)
(* Three coefficients, the CRC and one halfword of padding.  The first     *)
(* coefficient of one calibration is 0, as it is in the default.  Two of   *)
(* the calibrations and the default can be mixed to something that is not  *)
(* a calibration.                                                          *)
(***************************************************************************)
EXTENDS Device

MCContent(x, y, z) == [a \in 0 .. 2 |-> CASE a = 0 -> x [] a = 1 -> y [] a = 2 -> z]

MCDefault == MCContent(0, 0, 0)
MCUserCalibrations == {MCContent(0, 1, 1), MCContent(1, 2, 0), MCContent(2, 2, 2)}

\* Different for all mixes, and never a coefficient.
MCCrc(c) == 3 + ((9 * c[0] + 3 * c[1] + c[2]) % 27)

MCHalfword == 0 .. 29
============================================================================
