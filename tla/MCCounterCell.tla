---------------------------- MODULE MCCounterCell ----------------------------
(* An instance of CounterCell: two values from either end of the range. *)
EXTENDS CounterCell

MCAmounts == {1, -2}
=============================================================================
