----------------------------- MODULE MCDaemonLock -----------------------------
(* Three processes racing for the lock: two suffice for a conflict, the third *)
(* spawns while one of them is the daemon and another one is on its way out.  *)
EXTENDS DaemonLock, TLC

CONSTANTS p1, p2, p3

MCProcess == {p1, p2, p3}
=============================================================================
