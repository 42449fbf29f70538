---------------------------- MODULE MCAlertEngine ----------------------------
(* Two contradictory conditions on one metric, and one on another.           *)
EXTENDS AlertEngine

MCValue == {0, 1}
MCCondition ==
    {[metric |-> "cpu", operator |-> ">", threshold |-> 0],
     [metric |-> "cpu", operator |-> "<=", threshold |-> 0],
     [metric |-> "disk", operator |-> "<", threshold |-> 1]}
=============================================================================
