------------------------------ MODULE Singleton ------------------------------
(***************************************************************************)
(* What nano_logic/daemon_lock.py promises, with nothing of how it keeps   *)
(* the promise: at any time at most one process is the monitoring daemon,  *)
(* the role is taken only while nobody has it, and it becomes free again   *)
(* when its owner gives it up or dies.                                     *)
(***************************************************************************)
CONSTANTS Process,   \* the processes that may become the daemon
          None       \* nobody

VARIABLE owner       \* the process that is the daemon, or None

Init == owner = None

BecomeDaemon(p) ==
    /\ owner = None
    /\ owner' = p

Cease ==
    /\ owner # None
    /\ owner' = None

Next == (\E p \in Process : BecomeDaemon(p)) \/ Cease

Spec == Init /\ [][Next]_owner
=============================================================================
