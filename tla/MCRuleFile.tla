------------------------------ MODULE MCRuleFile ------------------------------
(* A dashboard ("tui"), which can also serve the web page from HTTP threads,  *)
(* and a command-line session.  One leaves its rules unnamed, the other names *)
(* them all alike, so that the origin of a rule shows.                        *)
EXTENDS RuleFile, TLC

MCTyped == [u \in UI |-> IF u = "tui" THEN {Default} ELSE UserName]
MCHost == [t \in WebThread |-> "tui"]
MCIdText(i) == ToString(i)
MCDefaultName(i) == "rule_" \o ToString(i)
MCFineStamps == {1}
MCCoarseStamps == {0, 1}
=============================================================================
