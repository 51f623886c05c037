---------------------------- MODULE MCExecuteRun ----------------------------
(***************************************************************************)
(* ExecuteRun with two of the six signals, whose weights are equal: either *)
(* alone is exactly the half of the weight that is enough to score.        *)
(***************************************************************************)
EXTENDS ExecuteRun

TwoSignals == <<"competition", "customer_value">>

Weights == [competition |-> 20, customer_value |-> 20]
=============================================================================
