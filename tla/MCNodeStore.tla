----------------------------- MODULE MCNodeStore -----------------------------
(* A thread reads the store of the first process; the port may be the         *)
(* second's.                                                                  *)
EXTENDS NodeStore

CONSTANTS p1, p2, r1

MCHome == [r \in {r1} |-> p1]
=============================================================================
