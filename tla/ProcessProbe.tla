----------------------------- MODULE ProcessProbe -----------------------------
(***************************************************************************)
(* The commands about the machine's processes: proc.list, proc.search,     *)
(* cpu.top, mem.top and system.processes, which walk over all of them, and *)
(* proc.info and proc.kill, which take a PID.  Processes begin and end     *)
(* between any two of their system calls, and a PID is given out again.    *)
(*                                                                         *)
(* psutil is modelled from how the code uses it: process_iter takes the    *)
(* list of PIDs once and reads each process when it comes to it, skipping  *)
(* those that are gone; the reads of a Process object go by the PID, and   *)
(* only terminate() makes sure that it is still the same process.          *)
(***************************************************************************)
EXTENDS Naturals, FiniteSets

CONSTANTS
    MaxPid,     \* the PIDs are 1..MaxPid
    MaxBorn,    \* bound: the last process to begin during a command
    share,      \* the share of memory, or of the CPU, each process takes
    Hidden,     \* processes that this user may not look into
    Limit       \* rows a ranking shows

Pid == 1..MaxPid
Process == 1..MaxBorn
None == 0

ASSUME ProcessAssumption ==
    /\ MaxPid \in Nat /\ MaxBorn \in Nat /\ MaxPid <= MaxBorn
    /\ Limit \in Nat
    /\ share \in [Process -> Nat]
    /\ Hidden \subseteq Process

VARIABLES
    holder,     \* the process that has each PID
    born,       \* the last process that has begun
    walk,       \* the command that runs, or none
    wstage,     \* how far it is
    todo,       \* PIDs it has still to look at
    found,      \* what it has noted
    outcome,    \* what it reports
    \* the rest observes the command
    seen,       \* <<PID, process>> pairs there have been since it began
    bound,      \* the process that a Process object was made for
    killed      \* processes it has terminated

processVars == <<holder, born, walk, wstage, todo, found, outcome, seen, bound, killed>>

-----------------------------------------------------------------------------
Ranking == {"cpu", "mem"}
Walk == {"list", "search", "threads"} \cup Ranking
ByPid == {"info", "kill"}

Row == [pid : Pid, process : Process, share : Nat]
Pairs == {<<p, holder[p]>> : p \in {q \in Pid : holder[q] # None}}

\* The process that has PID p when a command begins is called p; those that
\* begin later have higher numbers.
Worlds == {h \in [Pid -> Process \cup {None}] : \A p \in Pid : h[p] \in {None, p}}

ProcessTypeOK ==
    /\ holder \in [Pid -> Process \cup {None}]
    /\ born \in 0..MaxBorn
    /\ walk \in Walk \cup ByPid \cup {"none"}
    /\ wstage \in {"idle", "walk", "again", "bound", "named", "done"}
    /\ todo \subseteq Pid
    /\ found \subseteq Row
    /\ outcome \in {"none", "rows", "error", "missing", "details", "killed", "denied"}
    /\ seen \subseteq Pid \X Process
    /\ bound \in Process \cup {None} /\ killed \subseteq Process

\* The PID that comes next: process_iter goes in their order.
IsNext(p) == p \in todo /\ \A q \in todo : p <= q

\* Who has had a PID ever since the command began, having had it all along.
Throughout ==
    {q \in seen : q[2] <= MaxPid /\ holder[q[1]] = q[2]}

\* Who has a PID has been seen with it; the processes are numbered as they begin.
HoldersAreSeen ==
    /\ born >= MaxPid /\ bound <= born
    /\ \A p \in Pid : holder[p] <= born /\ (holder[p] # None => <<p, holder[p]>> \in seen)

\* What is underway at each stage.
StagesFit ==
    /\ wstage = "idle" => found = {}
    /\ wstage # "done" => outcome = "none" /\ killed = {}
    /\ wstage = "again" => walk \in Ranking \cup {"threads"}
    /\ wstage \in {"bound", "named"} => walk \in ByPid
    /\ wstage = "named" => walk = "kill"
    /\ wstage # "idle" /\ walk \in ByPid => \E p \in Pid : todo = {p}
    /\ walk \in ByPid /\ wstage = "walk" => found = {}

\* A Process object is of one that has had the PID; whoever else has it by now
\* began later.  A name that was read while it had the PID is its own.
BoundIsHeld ==
    wstage \in {"again", "bound", "named"} =>
        /\ bound # None
        /\ \A p \in todo : IsNext(p) =>
              /\ <<p, bound>> \in seen
              /\ holder[p] \in {bound, None} \cup {n \in Process : n > MaxPid}
              /\ holder[p] = bound /\ wstage = "named" => \A row \in found : row.process = bound

\* Each row is of a process that had the PID, with a share that one had that had it.
RowsAreTrue ==
    \A row \in found :
        /\ <<row.pid, row.process>> \in seen
        /\ row.share # 0 => \E q \in seen : q[1] = row.pid /\ share[q[2]] = row.share

\* There is a row for q, with the share it has if that decides on its place.
HasRow(q) ==
    \E row \in found :
        /\ row.pid = q[1] /\ row.process = q[2]
        /\ walk # "threads" => row.share = IF walk = "mem" THEN share[q[2]] ELSE 0

\* A walk comes past each PID once, and past no process that has been there all
\* the time without a row, but for those it may not look into.
WalksLeaveNoneOut ==
    walk \in Walk /\ wstage \in {"walk", "again"} =>
        /\ IsFiniteSet(found)
        /\ \A row, other \in found : row.pid = other.pid => row = other
        /\ \A row \in found : row.pid \notin todo
        /\ walk # "cpu" =>
              \A q \in Throughout :
                 q[1] \in todo \/ HasRow(q) \/ (walk = "mem" /\ q[2] \in Hidden)

\* No command about processes runs.
ProcessIdle ==
    /\ walk = "none" /\ wstage = "idle" /\ todo = {} /\ found = {} /\ outcome = "none"
    /\ holder = [p \in Pid |-> None] /\ born = MaxPid
    /\ seen = {} /\ bound = None /\ killed = {}

\* The command is over.
ProcessRests ==
    /\ walk' = "none" /\ wstage' = "idle" /\ todo' = {} /\ found' = {} /\ outcome' = "none"
    /\ holder' = [p \in Pid |-> None] /\ born' = MaxPid
    /\ seen' = {} /\ bound' = None /\ killed' = {}

\* The command w begins in some state of the machine; target is the PID it is
\* given, if it takes one.
AskProcesses(w, target) ==
    /\ holder' \in Worlds
    /\ walk' = w
    /\ seen' = Pairs'
    /\ wstage' = "walk"
    /\ todo' = IF w \in ByPid THEN {target} ELSE {p \in Pid : holder'[p] # None}
    /\ UNCHANGED <<born, found, outcome, bound, killed>>

Tells(what) ==
    /\ outcome' = what
    /\ wstage' = "done"

-----------------------------------------------------------------------------
(* The machine                                                             *)

ProcessEnds ==
    /\ wstage \notin {"idle", "done"}
    /\ \E p \in Pid : holder[p] # None /\ holder' = [holder EXCEPT ![p] = None]
    /\ UNCHANGED <<born, walk, wstage, todo, found, outcome, seen, bound, killed>>

ProcessBegins ==
    /\ wstage \notin {"idle", "done"}
    /\ born < MaxBorn
    /\ born' = born + 1
    /\ \E p \in Pid : holder[p] = None /\ holder' = [holder EXCEPT ![p] = born + 1]
    /\ seen' = seen \cup Pairs'
    /\ UNCHANGED <<walk, wstage, todo, found, outcome, bound, killed>>

-----------------------------------------------------------------------------
(* The walks                                                               *)

Gone(p) == holder[p] = None
Unreadable(p) == Gone(p) \/ holder[p] \in Hidden
\* process_iter skips a process that has gone since the list was taken.
SkipGone ==
    /\ walk \in Walk /\ wstage = "walk"
    /\ \E p \in todo : IsNext(p) /\ Gone(p) /\ todo' = todo \ {p}
    /\ UNCHANGED <<holder, born, walk, wstage, found, outcome, seen, bound, killed>>

Noted(p, process, s) == found' = found \cup {[pid |-> p, process |-> process, share |-> s]}

\* process_iter reads what it was asked for: for a list or a search that is all.
ReadOne ==
    /\ walk \in Walk /\ wstage = "walk"
    /\ \E p \in todo :
          /\ IsNext(p) /\ ~Gone(p)
          /\ IF walk \in {"list", "search"}
             THEN /\ Noted(p, holder[p], 0)
                  /\ todo' = todo \ {p}
                  /\ UNCHANGED <<wstage, bound>>
             ELSE /\ bound' = holder[p]
                  /\ wstage' = "again"
                  /\ UNCHANGED <<found, todo>>
    /\ UNCHANGED <<holder, born, walk, outcome, seen, killed>>

\* What a second read finds: the share of memory, or that of the CPU since the
\* first read, which has only just been.
Measured(process) == IF walk = "cpu" THEN {0, share[process]} ELSE {share[process]}

\* A ranking and the count of threads read each process once more, by its PID.
ReadAgain ==
    /\ wstage = "again"
    /\ \E p \in todo :
          /\ IsNext(p) /\ ~Unreadable(p)
          /\ \E s \in Measured(holder[p]) : Noted(p, bound, s)
          /\ todo' = todo \ {p}
    /\ wstage' = "walk" /\ bound' = None
    /\ UNCHANGED <<holder, born, walk, outcome, seen, killed>>

\* What follows a failed second read: a ranking leaves the process out and goes
\* on, the count of threads fails as a whole.
Misses(left) ==
    /\ todo' = left /\ bound' = None
    /\ IF walk = "threads" THEN Tells("error") ELSE wstage' = "walk" /\ UNCHANGED outcome
    /\ UNCHANGED <<holder, born, walk, found, seen, killed>>

\* A slip: the process is tried once more.
GoneAgainRetries ==
    /\ wstage = "again"
    /\ \E p \in todo : IsNext(p) /\ Unreadable(p) /\ Misses(todo)

\* The process is gone by then or may not be read.
GoneAgain ==
    /\ wstage = "again"
    /\ \E p \in todo : IsNext(p) /\ Unreadable(p) /\ Misses(todo \ {p})

\* row stands above other: sort(reverse=True) keeps the order of PIDs.
Above(row, other) ==
    \/ row.share > other.share
    \/ row.share = other.share /\ row.pid < other.pid

\* processes[:limit]; a search shows every match, a count has no rows.
Shown(rows) ==
    IF walk \in {"search", "threads"} THEN rows
    ELSE {r \in rows : Cardinality({q \in rows : Above(q, r)}) < Limit}

WalkEnds ==
    /\ walk \in Walk /\ wstage = "walk" /\ todo = {}
    /\ found' = Shown(found)
    /\ Tells("rows")
    /\ UNCHANGED <<holder, born, walk, todo, seen, bound, killed>>

-----------------------------------------------------------------------------
(* One process                                                             *)

\* psutil.Process(pid), then its name.
Bind ==
    /\ walk \in ByPid /\ wstage = "walk"
    /\ IF \A p \in todo : Gone(p)
       THEN Tells("missing") /\ UNCHANGED bound
       ELSE /\ wstage' = "bound" /\ UNCHANGED outcome
            /\ \E p \in todo : bound' = holder[p]
    /\ UNCHANGED <<holder, born, walk, todo, found, seen, killed>>

\* proc.name() and the details of proc.info.
ReadName ==
    /\ wstage = "bound"
    /\ \E p \in todo :
          IF Gone(p)
          THEN Tells("missing") /\ UNCHANGED found
          ELSE /\ found' = {[pid |-> p, process |-> holder[p], share |-> 0]}
               /\ IF walk = "info" THEN Tells("details")
                                   ELSE wstage' = "named" /\ UNCHANGED outcome
    /\ UNCHANGED <<holder, born, walk, todo, seen, bound, killed>>

\* AccessDenied, at any of the calls.
Denied ==
    /\ walk \in ByPid /\ wstage \in {"bound", "named"}
    /\ Tells("denied")
    /\ UNCHANGED <<holder, born, walk, todo, found, seen, bound, killed>>

\* A slip: the signal goes to whoever has the PID.
TerminateWhoever ==
    /\ wstage = "named"
    /\ \E p \in todo :
          IF ~Gone(p)
          THEN Tells("killed") /\ killed' = {holder[p]} /\ holder' = [holder EXCEPT ![p] = None]
          ELSE Tells("missing") /\ UNCHANGED <<killed, holder>>
    /\ UNCHANGED <<born, walk, todo, found, seen, bound>>

\* proc.terminate() raises NoSuchProcess if the PID is another process's now.
Terminate ==
    /\ wstage = "named"
    /\ \E p \in todo :
          IF holder[p] = bound
          THEN Tells("killed") /\ killed' = {bound} /\ holder' = [holder EXCEPT ![p] = None]
          ELSE Tells("missing") /\ UNCHANGED <<killed, holder>>
    /\ UNCHANGED <<born, walk, todo, found, seen, bound>>

-----------------------------------------------------------------------------
ProbesProcesses ==
    \/ SkipGone \/ ReadOne \/ ReadAgain \/ GoneAgain \/ WalkEnds
    \/ Bind \/ ReadName \/ Terminate

ProcessNext == ProcessEnds \/ ProcessBegins \/ ProbesProcesses \/ Denied

-----------------------------------------------------------------------------
(* Properties                                                              *)

\* proc.kill ends nothing but the process that had the PID when the command
\* looked it up, and it ends that one exactly when it says so; the name it gives
\* is that of its victim although it was read by the PID.
OnlyTheNamedIsKilled ==
    /\ killed \subseteq {bound}
    /\ outcome = "killed" <=> killed # {}
    /\ outcome = "killed" => /\ walk = "kill"
                             /\ \A row \in found : row.process \in killed
                             /\ \A p \in todo : <<p, bound>> \in seen

\* What is reported was so during the command: each row names a process that
\* had the PID, with a share that a holder of the PID had; a process that was
\* there all the time is left out of no list unless rows above it fill the
\* list; "does not exist" is not said of a process that was there all the time.
ProcessesAreTrue ==
    /\ outcome \in {"rows", "details"} =>
          \A row \in found :
             /\ <<row.pid, row.process>> \in seen
             /\ row.share # 0 => \E q \in seen : q[1] = row.pid /\ share[q[2]] = row.share
    /\ outcome = "rows" /\ walk # "cpu" =>
          \A q \in Throughout :
             \/ \E row \in found : row.pid = q[1] /\ row.process = q[2]
             \/ walk = "mem" /\ q[2] \in Hidden
             \/ /\ Cardinality(found) = Limit
                /\ \A row \in found :
                      Above(row, [pid |-> q[1], share |-> IF walk = "mem" THEN share[q[2]] ELSE 0])
    /\ outcome = "missing" => \A q \in Throughout : q[1] \notin todo
    /\ outcome = "error" => \E q \in seen : q \notin Throughout \/ q[2] \in Hidden

\* The steps that a command has still to take, at most: two for each PID it has to
\* look at, and those to the end.
StepsLeft ==
    2 * Cardinality(todo)
    + (CASE wstage = "walk" -> 3
         [] wstage \in {"again", "bound"} -> 2
         [] wstage = "named" -> 1
         [] OTHER -> 0)
=============================================================================
