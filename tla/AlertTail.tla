------------------------------ MODULE AlertTail ------------------------------
(***************************************************************************)
(* How the dashboard learns that a rule has fired: the daemon appends a    *)
(* line to the log file named after the rule, and once a second the        *)
(* dashboard reads what was appended to the file of each of its rules      *)
(* (dashboard._check_for_new_alerts).                                      *)
(*                                                                         *)
(* The two processes share nothing but the files: the daemon writes, and   *)
(* somebody may rotate a log, between any two system calls of the          *)
(* dashboard's tick.  The user's commands run on the tick's own thread and *)
(* come between two ticks.  Offsets are counted in lines: a line is        *)
(* written by one write().                                                 *)
(***************************************************************************)
EXTENDS Integers, SequencesExt

CONSTANTS
    Name,           \* names of rules, and so of log files
    MaxRules,       \* bound: rules at one time
    MaxAdds,        \* bound: rules ever added
    MaxLines,       \* bound: lines ever written to the logs
    MaxRotations,   \* bound: times a log is rotated
    MaxFailures,    \* bound: system calls that raise OSError
    MaxRestarts     \* bound: times the dashboard is started again

ASSUME BoundAssumption ==
    /\ MaxRules \in Nat \ {0} /\ MaxAdds \in Nat \ {0} /\ MaxLines \in Nat \ {0}
    /\ MaxRotations \in Nat /\ MaxFailures \in Nat /\ MaxRestarts \in Nat

VARIABLES
    rules,      \* ACTIVE_RULES of the dashboard
    logs,       \* the log files
    offsets,    \* _alert_log_offsets
    at,         \* the place of the rule the tick has come to, 0 between ticks
    reading,    \* what the tick has found out about that rule's file
    \* the rest observes or bounds the behaviour
    written,    \* lines written so far
    activated,  \* lines written before each rule was added or loaded
    watched,    \* lines written before the tick first saw each rule
    shown,      \* how often each rule has shown each line
    epoch,      \* how often each file was rotated
    readEpoch,  \* the epoch in which each rule has read its file without a gap
    recycled,   \* ids given to a new rule while the last one's offset was kept
    adds, rotations, failures, restarts

tickVars == <<offsets, at, reading>>
ghosts == <<activated, watched, shown, readEpoch, recycled>>
bounds == <<adds, rotations, failures, restarts>>
vars == <<rules, logs, tickVars, written, epoch, ghosts, bounds>>

-----------------------------------------------------------------------------
Id == 1..MaxAdds
Serial == 1..MaxLines
Rule == [id : Id, name : Name]
Line == [serial : Serial, alert : BOOLEAN]
IdsOf(list) == {list[i].id : i \in DOMAIN list}

NoReading == [from |-> 0, size |-> 0, epoch |-> 0]
InTick == at > 0
Current == rules[at]

\* logs[name], one line longer.
Appended(name, alert) ==
    /\ written < MaxLines
    /\ logs' = [logs EXCEPT ![name] = Append(@, [serial |-> written + 1, alert |-> alert])]
    /\ written' = written + 1

\* A system call raises OSError.
CallFails == failures < MaxFailures /\ failures' = failures + 1

\* dict[id] = n
With(dict, id, n) == [i \in DOMAIN dict \cup {id} |-> IF i = id THEN n ELSE dict[i]]

-----------------------------------------------------------------------------
TypeOK ==
    /\ rules \in Seq(Rule) /\ Len(rules) <= MaxRules
    /\ logs \in [Name -> Seq(Line)]
    /\ DOMAIN offsets \subseteq Id /\ \A i \in DOMAIN offsets : offsets[i] \in 0..MaxLines
    /\ at \in 0..Len(rules)
    /\ reading \in [from : 0..MaxLines, size : 0..MaxLines,
                   epoch : 0..MaxRotations]
    /\ reading.from <= reading.size
    /\ reading # NoReading => InTick /\ Current.id \in DOMAIN offsets
    /\ written \in 0..MaxLines
    /\ activated \in [Id -> 0..MaxLines] /\ watched \in [Id -> 0..MaxLines]
    /\ shown \in [Id -> [Serial -> Nat]]
    /\ epoch \in [Name -> 0..MaxRotations] /\ readEpoch \in [Id -> 0..MaxRotations]
    /\ recycled \subseteq Id
    /\ adds \in 0..MaxAdds /\ rotations \in 0..MaxRotations
    /\ failures \in 0..MaxFailures /\ restarts \in 0..MaxRestarts

\* Lines are numbered as they are written.
SerialsAreKnown ==
    /\ \A n \in Name : /\ Len(logs[n]) <= written /\ epoch[n] <= rotations
                      /\ \A i \in DOMAIN logs[n] : logs[n][i].serial <= written
    /\ \A i \in Id : /\ activated[i] <= written /\ watched[i] <= written
                    /\ \A s \in Serial : shown[i][s] > 0 => s <= written

IdsAreUnique == \A j, k \in DOMAIN rules : rules[j].id = rules[k].id => j = k

\* What rule k shows: nothing before it is watched; once watched, nothing twice
\* that it would read again.
ShownOnce ==
    \A k \in DOMAIN rules :
        LET id == rules[k].id
            log == logs[rules[k].name]
            times(i) == shown[id][log[i].serial]
        IN  /\ id \notin DOMAIN offsets => \A s \in Serial : shown[id][s] = 0
            /\ id \in DOMAIN offsets => \A i \in DOMAIN log :
                  i > offsets[id] \/ Len(log) < offsets[id] => times(i) <= 1
            /\ k = at /\ reading # NoReading => \A i \in DOMAIN log :
                  /\ i > reading.from => times(i) <= 1
                  /\ i > reading.size \/ Len(log) < reading.size => times(i) = 0

\* Rule k has read its file up to an offset: the offset is within the file, and
\* what is behind it is newer than the rule, unless the file was rotated; if it
\* was, all of it is newer.
Tracked(k, offset, e) ==
    LET log == logs[rules[k].name]
        now == epoch[rules[k].name]
    IN  /\ e <= now
        /\ e = now => offset <= Len(log)
        /\ \A i \in DOMAIN log :
              i > offset \/ e # now => log[i].serial > activated[rules[k].id]

OffsetsAreTracked ==
    \A k \in DOMAIN rules :
        LET id == rules[k].id
        IN  id \notin recycled /\ id \in DOMAIN offsets =>
                /\ Tracked(k, offsets[id], readEpoch[id])
                /\ k = at /\ reading # NoReading =>
                      /\ Tracked(k, reading.from, reading.epoch)
                      /\ reading.epoch = epoch[rules[k].name] =>
                            reading.size <= Len(logs[rules[k].name])
                      /\ \/ reading.from = 0
                         \/ reading.from = offsets[id] /\ reading.epoch = readEpoch[id]

\* An earlier session may have left a rule, with an alert in its log.
Init ==
    /\ \/ /\ rules = <<>>
          /\ logs = [n \in Name |-> <<>>]
          /\ written = 0
       \/ \E name \in Name :
             /\ rules = <<[id |-> 1, name |-> name]>>
             /\ logs = [n \in Name |->
                           IF n = name THEN <<[serial |-> 1, alert |-> TRUE]>> ELSE <<>>]
             /\ written = 1
    /\ offsets = <<>>
    /\ at = 0
    /\ reading = NoReading
    /\ activated = [i \in Id |-> written]
    /\ watched = [i \in Id |-> written]
    /\ shown = [i \in Id |-> [s \in Serial |-> 0]]
    /\ epoch = [n \in Name |-> 0]
    /\ readEpoch = [i \in Id |-> 0]
    /\ recycled = {}
    /\ adds = Len(rules)
    /\ rotations = 0
    /\ failures = 0
    /\ restarts = 0

-----------------------------------------------------------------------------
(* The user, between two ticks                                             *)

\* add_rule, and the line "--- Rule ... Activated ---" in the rule's log unless
\* an OSError prevents it.
AddRule ==
    /\ ~InTick
    /\ adds < MaxAdds
    /\ Len(rules) < MaxRules
    /\ \E name \in Name, id \in Id :
          /\ id - 1 \in IdsOf(rules) \cup {0}
          /\ \A other \in IdsOf(rules) : other < id
          /\ rules' = Append(rules, [id |-> id, name |-> name])
          /\ \/ Appended(name, FALSE) /\ UNCHANGED failures
             \/ CallFails /\ UNCHANGED <<logs, written>>
          /\ activated' = [activated EXCEPT ![id] = written]
          /\ shown' = [shown EXCEPT ![id] = [s \in Serial |-> 0]]
          /\ recycled' = IF id \in DOMAIN offsets THEN recycled \cup {id} ELSE recycled
    /\ adds' = adds + 1
    /\ UNCHANGED <<tickVars, epoch, watched, readEpoch, rotations, restarts>>

StopRule ==
    /\ ~InTick
    /\ \E k \in DOMAIN rules : rules' = RemoveAt(rules, k)
    /\ UNCHANGED <<logs, tickVars, written, epoch, ghosts, bounds>>

\* The dashboard ends and is started again: load_rules, and nothing tracked.
Restart ==
    /\ restarts < MaxRestarts
    /\ restarts' = restarts + 1
    /\ offsets' = <<>>
    /\ at' = 0
    /\ reading' = NoReading
    /\ activated' = [i \in Id |-> written]
    /\ shown' = [i \in Id |-> [s \in Serial |-> 0]]
    /\ recycled' = {}
    /\ UNCHANGED <<rules, logs, written, epoch, watched, readEpoch,
                   adds, rotations, failures>>

-----------------------------------------------------------------------------
(* The other processes                                                     *)

\* A rule fires.  The daemon may still evaluate one that was stopped.
DaemonLogs ==
    /\ \E name \in Name : Appended(name, TRUE)
    /\ UNCHANGED <<rules, tickVars, epoch, ghosts, bounds>>

Rotate ==
    /\ rotations < MaxRotations
    /\ \E name \in Name :
          /\ logs[name] # <<>>
          /\ logs' = [logs EXCEPT ![name] = <<>>]
          /\ epoch' = [epoch EXCEPT ![name] = @ + 1]
    /\ rotations' = rotations + 1
    /\ UNCHANGED <<rules, tickVars, written, ghosts, adds, failures, restarts>>

-----------------------------------------------------------------------------
(* A tick of the dashboard                                                 *)

BeginTick ==
    /\ ~InTick
    /\ rules # <<>>
    /\ at' = 1
    /\ UNCHANGED <<rules, logs, offsets, reading, written, epoch, ghosts, bounds>>

\* With no rule left, all that a tick does is to forget the last ones.
EmptyTick ==
    /\ rules = <<>>
    /\ offsets' = <<>>
    /\ UNCHANGED <<rules, logs, at, reading, written, epoch, ghosts, bounds>>

\* A slip: the tick runs one place past the last rule.
NextRuleOrOneMore(table) ==
    /\ reading' = NoReading
    /\ IF at <= Len(rules)
       THEN at' = at + 1 /\ offsets' = table
       ELSE at' = 0 /\ offsets' = Restrict(table, IdsOf(rules) \cap DOMAIN table)

\* On to the next rule.  After the last, the rules that are gone are
\* forgotten, and the tick is over.
NextRule(table) ==
    /\ reading' = NoReading
    /\ IF at < Len(rules)
       THEN at' = at + 1 /\ offsets' = table
       ELSE at' = 0 /\ offsets' = Restrict(table, IdsOf(rules) \cap DOMAIN table)

\* A slip: a rule is read from the top of its file.
SeedAtTheTop ==
    /\ InTick
    /\ reading = NoReading
    /\ Current.id \notin DOMAIN offsets
    /\ NextRule(With(offsets, Current.id, 0))
    /\ watched' = [watched EXCEPT ![Current.id] = written]
    /\ readEpoch' = [readEpoch EXCEPT ![Current.id] = epoch[Current.name]]
    /\ UNCHANGED <<rules, logs, written, epoch, activated, shown, recycled, bounds>>

\* The first time it sees a rule, it notes the end of its file.
Seed ==
    /\ InTick
    /\ reading = NoReading
    /\ Current.id \notin DOMAIN offsets
    /\ NextRule(With(offsets, Current.id, Len(logs[Current.name])))
    /\ watched' = [watched EXCEPT ![Current.id] = written]
    /\ readEpoch' = [readEpoch EXCEPT ![Current.id] = epoch[Current.name]]
    /\ UNCHANGED <<rules, logs, written, epoch, activated, shown, recycled, bounds>>

\* A slip: a file that has shrunk is read on from the old offset.
StartOfNews(id, size) == offsets[id]

\* Where to read from: a file that has shrunk was rotated, and is read from the
\* top.
NewsFrom(id, size) == IF size < offsets[id] THEN 0 ELSE offsets[id]

\* stat(): nothing to read, on to the next rule.
StatNoNews ==
    /\ InTick
    /\ reading = NoReading
    /\ Current.id \in DOMAIN offsets
    /\ Len(logs[Current.name]) = NewsFrom(Current.id, Len(logs[Current.name]))
    /\ NextRule(offsets)
    /\ UNCHANGED <<rules, logs, written, epoch, ghosts, bounds>>

\* stat(): there is something to read.
StatNews ==
    /\ InTick
    /\ reading = NoReading
    /\ Current.id \in DOMAIN offsets
    /\ LET id == Current.id
           size == Len(logs[Current.name])
       IN  /\ size # NewsFrom(id, size)
           /\ reading' = [from |-> NewsFrom(id, size), size |-> size,
                          epoch |-> IF size < offsets[id] THEN epoch[Current.name]
                                                          ELSE readEpoch[id]]
    /\ UNCHANGED <<rules, logs, offsets, at, written, epoch, ghosts, bounds>>

\* The alerts in a file behind an offset.
AlertsAfter(log, from) ==
    {log[i].serial : i \in {j \in (from + 1)..Len(log) : log[j].alert}}

\* A slip: the offset moves to the end of the file as it is found later.
ReadAndStatAgain ==
    /\ reading # NoReading
    /\ LET id == Current.id
           log == logs[Current.name]
           news == AlertsAfter(SubSeq(log, 1, reading.size), reading.from)
       IN  /\ shown' = [shown EXCEPT ![id] =
                           [s \in Serial |-> IF s \in news THEN @[s] + 1 ELSE @[s]]]
           /\ NextRule(With(offsets, id, Len(log)))
           /\ readEpoch' = [readEpoch EXCEPT ![id] = reading.epoch]
    /\ UNCHANGED <<rules, logs, written, epoch, activated, watched, recycled, bounds>>

\* The file is read from the offset to its end, as it is by now, and every
\* alert in it is shown; the new offset is the size that stat() had returned.
Read ==
    /\ reading # NoReading
    /\ LET id == Current.id
           news == AlertsAfter(logs[Current.name], reading.from)
       IN  /\ shown' = [shown EXCEPT ![id] =
                           [s \in Serial |-> IF s \in news THEN @[s] + 1 ELSE @[s]]]
           /\ NextRule(With(offsets, id, reading.size))
           /\ readEpoch' = [readEpoch EXCEPT ![id] = reading.epoch]
    /\ UNCHANGED <<rules, logs, written, epoch, activated, watched, recycled, bounds>>

\* An OSError is logged, and the rule is left for the next tick.
ReadFails ==
    /\ reading # NoReading
    /\ CallFails
    /\ NextRule(offsets)
    /\ UNCHANGED <<rules, logs, written, epoch, ghosts, adds, rotations, restarts>>

-----------------------------------------------------------------------------
TickProceeds == BeginTick \/ EmptyTick \/ Seed \/ StatNoNews \/ StatNews \/ Read

Next ==
    \/ AddRule \/ StopRule \/ Restart
    \/ DaemonLogs \/ Rotate
    \/ TickProceeds \/ ReadFails

\* The metrics loop keeps ticking; nothing else need happen.
Fairness == WF_vars(TickProceeds)

Spec == Init /\ [][Next]_vars /\ Fairness
-----------------------------------------------------------------------------
(* Properties                                                              *)

\* The rules that are being watched: the tick has seen them.
Watched == {k \in DOMAIN rules : rules[k].id \in DOMAIN offsets}

\* The file was rotated and has since grown past the offset, unnoticed.
Lapped(rule) ==
    /\ readEpoch[rule.id] # epoch[rule.name]
    /\ Len(logs[rule.name]) >= offsets[rule.id]

\* No alert falls between two readings: what the dashboard has read past of a
\* watched rule's file it has shown, if it was written since the watch began.
\* It depends on stat() coming before the read.  Excepted are a file that was
\* rotated and outgrew the offset before the next look, and a rule that took
\* over the offset of a stopped one with its id.
NothingSkipped ==
    \A k \in Watched :
        LET rule == rules[k]
            log == logs[rule.name]
        IN  rule.id \notin recycled /\ readEpoch[rule.id] = epoch[rule.name] =>
                \A i \in DOMAIN log :
                    i <= offsets[rule.id] /\ log[i].alert /\ log[i].serial > watched[rule.id]
                        => shown[rule.id][log[i].serial] > 0

\* An alert that is written between the stat() and the read is shown again by
\* the next tick, but no alert is shown a third time.
AtMostTwice ==
    \A k \in DOMAIN rules, s \in Serial : shown[rules[k].id][s] <= 2

IInv ==
    /\ TypeOK /\ SerialsAreKnown /\ IdsAreUnique
    /\ ShownOnce /\ OffsetsAreTracked /\ AtMostTwice

\* "A newly-added or newly-loaded rule starts tracking from the current end of
\* its log file": it shows no alert that was in the file before it came, unless
\* it took over the offset of a stopped rule with its id.
NothingReplayed ==
    \A k \in DOMAIN rules, s \in Serial :
        rules[k].id \notin recycled /\ shown[rules[k].id][s] > 0
            => s > activated[rules[k].id]

\* A rule that is watched for good shows, in the end, every alert that is then
\* in its file and was written since the watch began.
AlertsAreSurfaced ==
    \A r \in Rule :
        <>[](/\ r \in ToSet(rules) /\ r.id \in DOMAIN offsets /\ r.id \notin recycled
             /\ ~Lapped(r))
            => <>[](\A i \in DOMAIN logs[r.name] :
                       logs[r.name][i].alert /\ logs[r.name][i].serial > watched[r.id]
                           => shown[r.id][logs[r.name][i].serial] > 0)
=============================================================================
