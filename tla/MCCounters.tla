------------------------------ MODULE MCCounters ------------------------------
(* Counters with samples of a clock that was set back, too.                *)
EXTENDS Counters

Samples == {-2, 3}
=============================================================================
