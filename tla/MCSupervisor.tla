--------------------------- MODULE MCSupervisor ----------------------------
(***************************************************************************)
(* Supervisor over three channels, with a supply that is seen below OFF,   *)
(* at OFF or above ON, and a smoothing over four values.  It becomes valid    *)
(* below OFF and needs several rounds more to come up to the supply.       *)
(***************************************************************************)
EXTENDS Supervisor

\* A calibration that takes 1/2 off, which is cut off to 1.
MCLowered == [c0 |-> -2, c1 |-> 4, c2 |-> 0]

MCSupplies == {6, 11, 13}

\* The sums of a supply that is always 13, the one that is seen above ON.
MCRise[n \in 1 .. ROUNDS] == IF n = 1 THEN 13 ELSE Kept(MCRise[n - 1]) + 13

\* The smoothing comes up to it in time.
ASSUME MCWarmUp == ComesUp(13, MCRise)

============================================================================
