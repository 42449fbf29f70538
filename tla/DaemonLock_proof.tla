--------------------------- MODULE DaemonLock_proof ---------------------------
(***************************************************************************)
(* Proofs about DaemonLock for any set of processes: the daemon is single, *)
(* daemon.pid names it, and the lock implements Singleton.                 *)
(***************************************************************************)
EXTENDS DaemonLock, TLAPS

\* The three parts of IInv hold in the initial state: nobody is past open().
LEMMA InitIInv == Init => IInv
  BY NoneIsNoProcess
     DEF Init, IInv, TypeOK, LockMatchesPhase, PidFileNamesDaemon, Monitoring,
         Phases, Holding

\* Every step keeps the types.
LEMMA TypeStep == TypeOK /\ [Next]_vars => TypeOK'
<1> SUFFICES ASSUME TypeOK, [Next]_vars PROVE TypeOK'
  OBVIOUS
<1> USE DEF TypeOK, Phases, Goto, DropLockOf
<1>1. ASSUME NEW p \in Process, SpawnDaemon(p) PROVE TypeOK'
  BY <1>1 DEF SpawnDaemon
<1>2. ASSUME NEW p \in Process, Proceed(p) PROVE TypeOK'
  BY <1>2 DEF Proceed, OpenPidFile, TakeLock, Refused, TruncatePidFile,
              StartMonitoring, ClosePidFile
<1>3. ASSUME NEW p \in Process, Ends(p) PROVE TypeOK'
  BY <1>3 DEF Ends, PidWriteFails, LeaveMonitoring, Killed
<1>4. CASE UNCHANGED vars
  BY <1>4 DEF vars
<1> QED
  BY <1>1, <1>2, <1>3, <1>4 DEF Next

\* Every step keeps the lock with the process between flock() and LOCK_UN, and
\* the PID file with the process that monitors.
LEMMA LockStep ==
    IInv /\ [Next]_vars => LockMatchesPhase' /\ PidFileNamesDaemon'
<1> SUFFICES ASSUME IInv, [Next]_vars
             PROVE  LockMatchesPhase' /\ PidFileNamesDaemon'
  OBVIOUS
<1> DEFINE Goal == LockMatchesPhase' /\ PidFileNamesDaemon'
<1> USE NoneIsNoProcess
    DEF IInv, TypeOK, LockMatchesPhase, PidFileNamesDaemon, Monitoring,
        Phases, Holding, Goto, DropLockOf
<1>1. ASSUME NEW p \in Process, SpawnDaemon(p) PROVE Goal
  BY <1>1 DEF SpawnDaemon
<1>2. ASSUME NEW p \in Process, OpenPidFile(p) PROVE Goal
  BY <1>2 DEF OpenPidFile
<1>3. ASSUME NEW p \in Process, TakeLock(p) PROVE Goal
  BY <1>3 DEF TakeLock
<1>4. ASSUME NEW p \in Process, Refused(p) PROVE Goal
  BY <1>4 DEF Refused
<1>5. ASSUME NEW p \in Process, TruncatePidFile(p) PROVE Goal
  BY <1>5 DEF TruncatePidFile
<1>6. ASSUME NEW p \in Process, StartMonitoring(p) PROVE Goal
  BY <1>6 DEF StartMonitoring
<1>7. ASSUME NEW p \in Process, PidWriteFails(p) PROVE Goal
  BY <1>7 DEF PidWriteFails
<1>8. ASSUME NEW p \in Process, LeaveMonitoring(p) PROVE Goal
  BY <1>8 DEF LeaveMonitoring
<1>9. ASSUME NEW p \in Process, ClosePidFile(p) PROVE Goal
  BY <1>9 DEF ClosePidFile
<1>10. ASSUME NEW p \in Process, Killed(p) PROVE Goal
  BY <1>10 DEF Killed
<1>11. CASE UNCHANGED vars
  BY <1>11 DEF vars
<1> QED
  BY <1>1, <1>2, <1>3, <1>4, <1>5, <1>6, <1>7, <1>8, <1>9, <1>10, <1>11
     DEF Next, Proceed, Ends

\* The inductive invariant.
THEOREM Inductive == Spec => []IInv
<1>1. Init => IInv
  BY InitIInv
<1>2. IInv /\ [Next]_vars => IInv'
  BY TypeStep, LockStep DEF IInv
<1> QED
  BY <1>1, <1>2, PTL DEF Spec

\* Two processes that monitor both hold the one lock, so they are the same.
LEMMA IInvMakesSingle == IInv => AtMostOneDaemon
  BY DEF IInv, LockMatchesPhase, AtMostOneDaemon, Monitoring, Holding

\* daemon_lock.py: "at most one daemon process can ever hold the lock".
THEOREM DaemonIsSingle == Spec => []AtMostOneDaemon
  BY Inductive, IInvMakesSingle, PTL

\* While a daemon monitors, daemon.pid names that daemon.
THEOREM PidFileIsTrue == Spec => []PidFileNamesDaemon
<1>1. IInv => PidFileNamesDaemon
  BY DEF IInv
<1> QED
  BY <1>1, Inductive, PTL

-----------------------------------------------------------------------------
\* The owner of the abstract role is the process that monitors, if any.
LEMMA OwnerIs ==
    ASSUME IInv
    PROVE  /\ \A p \in Monitoring : Owner = p
           /\ Monitoring = {} => Owner = None
<1>1. ASSUME NEW p \in Monitoring PROVE Owner = p
  <2>1. p \in Process /\ Monitoring # {}
    BY <1>1 DEF Monitoring
  <2>2. \A q \in Process : q \in Monitoring => q = p
    BY IInvMakesSingle, <1>1 DEF AtMostOneDaemon
  <2> QED
    BY <1>1, <2>1, <2>2 DEF Owner
<1>2. Monitoring = {} => Owner = None
  BY DEF Owner
<1> QED
  BY <1>1, <1>2

\* A step takes nobody or one process into the monitor loop, or the daemon
\* out of it, never both.
LEMMA MonitoringStep ==
    ASSUME IInv, [Next]_vars
    PROVE  \/ Monitoring' = Monitoring
           \/ Monitoring' = {}
           \/ Monitoring = {} /\ \E p \in Process : Monitoring' = {p}
<1> USE NoneIsNoProcess
    DEF IInv, TypeOK, LockMatchesPhase, Monitoring, Phases, Holding, Goto
<1> DEFINE Goal == \/ Monitoring' = Monitoring
                   \/ Monitoring' = {}
                   \/ Monitoring = {} /\ \E p \in Process : Monitoring' = {p}
<1>1. ASSUME NEW p \in Process, pc[p] # "monitoring", NEW phase \in Phases,
             phase # "monitoring", Goto(p, phase)
      PROVE  Goal
  <2>1. Monitoring' = Monitoring
    BY <1>1
  <2> QED
    BY <2>1
<1>2. ASSUME NEW p \in Process, pc[p] = "monitoring", NEW phase \in Phases,
             phase # "monitoring", Goto(p, phase)
      PROVE  Goal
  <2>1. \A q \in Process : q # p => pc[q] # "monitoring"
    BY <1>2
  <2>2. Monitoring' = {}
    BY <1>2, <2>1
  <2> QED
    BY <2>2
<1>3. ASSUME NEW p \in Process, StartMonitoring(p) PROVE Goal
  <2>1. \A q \in Process : q # p => pc[q] # "monitoring"
    BY <1>3 DEF StartMonitoring
  <2>2. Monitoring = {} /\ Monitoring' = {p}
    BY <1>3, <2>1 DEF StartMonitoring
  <2> QED
    BY <2>2
<1>4. ASSUME NEW p \in Process,
             SpawnDaemon(p) \/ Proceed(p) \/ Ends(p), ~StartMonitoring(p)
      PROVE  \E phase \in Phases : phase # "monitoring" /\ Goto(p, phase)
  BY <1>4 DEF SpawnDaemon, Proceed, Ends, OpenPidFile, TakeLock, Refused,
              TruncatePidFile, ClosePidFile, PidWriteFails, LeaveMonitoring,
              Killed
<1>5. CASE UNCHANGED vars
  BY <1>5 DEF vars
<1> QED
  BY <1>1, <1>2, <1>3, <1>4, <1>5 DEF Next

\* Every step of the lock is a step of the abstract role or leaves it alone.
LEMMA StepSimulates ==
    IInv /\ IInv' /\ [Next]_vars => [Abstract!Next]_Owner
<1> SUFFICES ASSUME IInv, IInv', [Next]_vars
             PROVE  [Abstract!Next]_Owner
  OBVIOUS
<1> USE NoneIsNoProcess
<1>1. /\ \A p \in Monitoring : Owner = p
      /\ Monitoring = {} => Owner = None
  BY OwnerIs
<1>2. /\ \A p \in Monitoring' : Owner' = p
      /\ Monitoring' = {} => Owner' = None
  <2>1. (/\ \A p \in Monitoring : Owner = p
         /\ Monitoring = {} => Owner = None)'
    BY OwnerIs, PTL
  <2> QED
    BY <2>1
<1>3. CASE Monitoring' = Monitoring
  BY <1>1, <1>2, <1>3
<1>4. CASE Monitoring' = {}
  BY <1>1, <1>2, <1>4 DEF Abstract!Next, Abstract!Cease, Monitoring
<1>5. CASE Monitoring = {} /\ \E p \in Process : Monitoring' = {p}
  BY <1>1, <1>2, <1>5 DEF Abstract!Next, Abstract!BecomeDaemon
<1> QED
  BY <1>3, <1>4, <1>5, MonitoringStep

\* daemon_lock.py keeps the promise of Singleton: the daemon's role passes from
\* one process to another only through a moment when nobody has it.
THEOREM LockImplementsSingleton == Spec => ImplementsSingleton
<1>1. Init => Abstract!Init
  BY DEF Init, Abstract!Init, Owner, Monitoring
<1>2. IInv /\ IInv' /\ [Next]_vars => [Abstract!Next]_Owner
  BY StepSimulates
<1> QED
  BY <1>1, <1>2, Inductive, PTL DEF Spec, ImplementsSingleton, Abstract!Spec
=============================================================================
