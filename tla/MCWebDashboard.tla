---------------------------- MODULE MCWebDashboard ----------------------------
(* Requests that share the list of rules, requests that share the sensors,   *)
(* and one page that asks for everything.                                    *)
EXTENDS WebDashboard, TLC

CONSTANTS t1, t2

Contents == <<<<>>, <<1, 2>>, <<2>>, <<>>>>
Asks ==
    {[asks |-> (t1 :> {"rules"} @@ t2 :> {"rules"}), edits |-> 4, clock |-> FALSE],
     [asks |-> (t1 :> {"metrics"} @@ t2 :> {"metrics"}), edits |-> 1, clock |-> TRUE],
     [asks |-> (t1 :> Kind @@ t2 :> {}), edits |-> 2, clock |-> FALSE]}
===============================================================================
