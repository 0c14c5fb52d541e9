------------------------- MODULE MCPowerStatistics -------------------------
(***************************************************************************)
(* A positive and a negative half-wave and a record in the band of the     *)
(* hysteresis.  The current of one is the greatest of its type.            *)
(***************************************************************************)
EXTENDS PowerStatistics

Waves == {<<32767, 4>>, <<-5, -4>>, <<2, 0>>}

\* The machine at standstill.
Standstill == {<<0, 0>>}
============================================================================
