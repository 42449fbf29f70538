------------------------------ MODULE DaemonLock ------------------------------
(***************************************************************************)
(* The flock()'d PID file that keeps the monitoring daemon single          *)
(* (nano_logic/daemon_lock.py), with the processes that race for it: every *)
(* dashboard spawns a daemon when it is mounted, without looking whether   *)
(* one runs already (nano_logic/dashboard.py), and run_daemon() takes the  *)
(* lock or exits (nano_logic/daemon.py).                                   *)
(*                                                                         *)
(* A process is one spawned interpreter; once it has exited its name can   *)
(* be spawned again.  The flock belongs to the open file, so it is gone    *)
(* when the process closes the file or dies, whatever it was doing.        *)
(***************************************************************************)
EXTENDS FiniteSets

CONSTANTS Process,   \* the daemon processes a machine may have at one time
          None       \* nobody: a free lock, a PID file that names no process

ASSUME NoneIsNoProcess == None \notin Process

VARIABLES
    pc,         \* where each process is in acquire_daemon_lock / run_daemon
    flocked,    \* the process whose open file holds the exclusive lock
    pidFile     \* the process named in daemon.pid

vars == <<pc, flocked, pidFile>>

\* Before "opened" a process has no file descriptor; from "locked" to
\* "monitoring" its descriptor holds the lock; "unlocked" has released it and
\* still has to close the file.
Phases == {"absent", "spawned", "opened", "locked", "truncated",
           "monitoring", "unlocked"}

Holding == {"locked", "truncated", "monitoring"}

TypeOK ==
    /\ pc \in [Process -> Phases]
    /\ flocked \in Process \cup {None}
    /\ pidFile \in Process \cup {None}

\* The PID file may be left over from a daemon that ran before.
Init ==
    /\ pc = [p \in Process |-> "absent"]
    /\ flocked = None
    /\ pidFile \in Process \cup {None}

-----------------------------------------------------------------------------
Goto(p, phase) == pc' = [pc EXCEPT ![p] = phase]

\* A slip: a lock that outlives its holder, as one made of the existence of
\* the PID file would be.
StaleLockOf(p) == UNCHANGED flocked

\* What the kernel does to the lock when p closes its file or dies.
DropLockOf(p) == flocked' = IF flocked = p THEN None ELSE flocked

\* A dashboard is mounted and spawns a daemon, whether or not one is running.
SpawnDaemon(p) ==
    /\ pc[p] = "absent"
    /\ Goto(p, "spawned")
    /\ UNCHANGED <<flocked, pidFile>>

OpenPidFile(p) ==
    /\ pc[p] = "spawned"
    /\ Goto(p, "opened")
    /\ UNCHANGED <<flocked, pidFile>>

\* A slip of the lock call: LOCK_SH in place of LOCK_EX, which any number of
\* processes obtain together.
TakeLockShared(p) ==
    /\ pc[p] = "opened"
    /\ flocked' = p
    /\ Goto(p, "locked")
    /\ UNCHANGED pidFile

TakeLock(p) ==
    /\ pc[p] = "opened"
    /\ flocked = None
    /\ flocked' = p
    /\ Goto(p, "locked")
    /\ UNCHANGED pidFile

\* LOCK_NB: the call fails at once, the process closes its file and exits.
Refused(p) ==
    /\ pc[p] = "opened"
    /\ flocked # None
    /\ Goto(p, "absent")
    /\ UNCHANGED <<flocked, pidFile>>

TruncatePidFile(p) ==
    /\ pc[p] = "locked"
    /\ pidFile' = None
    /\ Goto(p, "truncated")
    /\ UNCHANGED flocked

\* A slip: the write of the PID is lost (no write, or none before the yield).
MonitorUnnamed(p) ==
    /\ pc[p] = "truncated"
    /\ Goto(p, "monitoring")
    /\ UNCHANGED <<flocked, pidFile>>

\* The PID is written and flushed, and the body of the with statement starts.
StartMonitoring(p) ==
    /\ pc[p] = "truncated"
    /\ pidFile' = p
    /\ Goto(p, "monitoring")
    /\ UNCHANGED flocked

\* Truncating, writing or flushing the PID file fails: the exception closes
\* the file on its way out and ends the process.
PidWriteFails(p) ==
    /\ pc[p] \in {"locked", "truncated"}
    /\ Goto(p, "absent")
    /\ DropLockOf(p)
    /\ UNCHANGED pidFile

\* An exception the loop does not catch (Ctrl-C in a terminal) leaves the
\* with statement: LOCK_UN first ...
LeaveMonitoring(p) ==
    /\ pc[p] = "monitoring"
    /\ Goto(p, "unlocked")
    /\ DropLockOf(p)
    /\ UNCHANGED pidFile

\* ... then the file is closed and the process ends.
ClosePidFile(p) ==
    /\ pc[p] = "unlocked"
    /\ Goto(p, "absent")
    /\ DropLockOf(p)
    /\ UNCHANGED pidFile

\* The process is killed, at any point; the kernel closes its file.
Killed(p) ==
    /\ pc[p] # "absent"
    /\ Goto(p, "absent")
    /\ DropLockOf(p)
    /\ UNCHANGED pidFile

\* A process's own steps, which the scheduler keeps running.
Proceed(p) ==
    \/ OpenPidFile(p)
    \/ TakeLock(p)
    \/ Refused(p)
    \/ TruncatePidFile(p)
    \/ StartMonitoring(p)
    \/ ClosePidFile(p)

\* What ends a process from outside, or ends the daemon for good.
Ends(p) == PidWriteFails(p) \/ LeaveMonitoring(p) \/ Killed(p)

Next == \E p \in Process : SpawnDaemon(p) \/ Proceed(p) \/ Ends(p)

\* A live process keeps running; nobody has to start or kill one.
Fairness == \A p \in Process : WF_vars(Proceed(p))

Spec == Init /\ [][Next]_vars /\ Fairness
-----------------------------------------------------------------------------
Monitoring == {p \in Process : pc[p] = "monitoring"}

\* "At most one daemon process can ever hold the lock": two processes never
\* run the monitor loop at once, so no alert is evaluated and logged twice.
AtMostOneDaemon == \A p, q \in Monitoring : p = q

\* While the loop runs, daemon.pid names the process that runs it, whoever
\* else has opened, truncated or given up the file in the meantime.
PidFileNamesDaemon == \A p \in Monitoring : pidFile = p

\* What makes the above inductive: the lock is held exactly by the process
\* between its flock() and its LOCK_UN, and only that process touches the file.
LockMatchesPhase ==
    /\ \A p \in Process : pc[p] \in Holding <=> flocked = p
    /\ \A p \in Process : pc[p] = "truncated" => pidFile = None

IInv == TypeOK /\ LockMatchesPhase /\ PidFileNamesDaemon

\* A redundant spawn never lingers: a process that has not become the daemon
\* leaves, or becomes it, without waiting for the one that is.
NobodyWaits ==
    \A p \in Process :
        (pc[p] \in {"spawned", "opened"}) ~> (pc[p] \in {"absent", "monitoring"})

\* The daemon, and whoever may still become it, stays: a process ends only when
\* another one has the lock.
DaemonsStay ==
    \A p \in Process :
        /\ pc[p] \in Holding => pc'[p] \in Holding
        /\ pc[p] # "absent" /\ pc'[p] = "absent" => flocked \notin {None, p}

\* If from some point on no daemon dies, and daemons are spawned again and
\* again, then from some point on a daemon monitors for good: a lock that died
\* with its holder stays free for the next, and a spawn that was refused by a
\* dying daemon is made up for by a later one.
EventuallyMonitored ==
    (<>[][DaemonsStay]_vars /\ []<>(\E p \in Process : pc[p] = "spawned"))
        => <>[](Monitoring # {})

\* No spawn hangs, and no sequence of spawns leaves the machine unwatched.
DaemonProgress == NobodyWaits /\ EventuallyMonitored

\* The abstract daemon is the process in its monitor loop.
Owner == IF Monitoring = {} THEN None ELSE CHOOSE p \in Process : p \in Monitoring

Abstract == INSTANCE Singleton WITH owner <- Owner

\* The lock implements the promise: the role passes only through "nobody".
ImplementsSingleton == Abstract!Spec
=============================================================================
