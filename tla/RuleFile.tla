------------------------------- MODULE RuleFile -------------------------------
(***************************************************************************)
(* The rule set that the user interfaces, the web dashboard's threads and  *)
(* the daemon share through rules.json (nano_logic/engine.py, daemon.py,   *)
(* web.py, dashboard.py, cli.py).                                          *)
(*                                                                         *)
(* Every process keeps a list of its own, ACTIVE_RULES.  A user interface  *)
(* reads the file when it starts and writes its whole list back after      *)
(* every change.  The HTTP threads of a process that also serves the web   *)
(* dashboard reload the same list while its user edits it.  The daemon     *)
(* polls the file's modification time and reloads when it has grown.       *)
(*                                                                         *)
(* A rule is its id and its name: what it watches does not matter here.    *)
(* Reading the file is one step, writing it is two: open("w") empties it,  *)
(* the data arrives when the buffer is flushed.                            *)
(***************************************************************************)
EXTENDS Integers, SequencesExt

CONSTANTS
    UI,              \* processes in which a user edits rules (TUI, CLI)
    WebThread,       \* HTTP threads of the web dashboard
    Host,            \* the process each of them runs in: [WebThread -> UI]
    UserName,        \* the names users give to rules
    Default,         \* the name of a rule that was given none: rule_<id>
    Typed,           \* the names given in each: [UI -> SUBSET (UserName and Default)]
    IdText(_),       \* how an id reads when a user types it
    DefaultName(_),  \* how the name rule_<id> reads
    StampStep,       \* by how much a write can move the file's mtime
    DiskMayFail,     \* whether opening or writing the file can raise OSError
    MaxEdits,        \* bound: commands that change the rules
    MaxStarts        \* bound: times a user interface is started

ASSUME HostAssumption == Host \in [WebThread -> UI]
ASSUME DefaultAssumption == Default \notin UserName
ASSUME TypedAssumption == Typed \in [UI -> SUBSET (UserName \cup {Default})]
ASSUME StampAssumption == StampStep \subseteq Int

VARIABLES
    mem,        \* ACTIVE_RULES of each user interface
    phase,      \* where each user interface's own thread is
    job,        \* the change that thread is making
    web,        \* where each HTTP thread is in load_rules
    held,       \* the list it has parsed and not yet installed
    disk,       \* rules.json
    mtime,      \* its modification time
    daemon,     \* where the daemon is in its loop
    dmem,       \* ACTIVE_RULES of the daemon
    seen,       \* the mtime its last stat() returned, 0 between two rounds
    lastMtime,  \* the mtime it has loaded
    \* the rest observes or bounds the behaviour
    acked,      \* the rules users were told are active
    cut,        \* a save was interrupted or failed
    started,    \* the user interfaces that have ever run
    edits, starts

uiVars == <<mem, phase, job>>
webVars == <<web, held>>
fileVars == <<disk, mtime>>
daemonVars == <<daemon, dmem, seen, lastMtime>>
ghosts == <<acked, cut, started, edits, starts>>
vars == <<uiVars, webVars, fileVars, daemonVars, ghosts>>

-----------------------------------------------------------------------------
(* Rules and lists of rules                                                *)

Rule == [id : Nat \ {0}, name : UserName \cup {Default}]

NameText(rule) == IF rule.name = Default THEN DefaultName(rule.id) ELSE rule.name

IdsOf(rules) == {rules[i].id : i \in DOMAIN rules}

\* Two entries of a list never carry the same id.
UniqueIds(rules) ==
    \A i, j \in DOMAIN rules : rules[i].id = rules[j].id => i = j

\* A slip: the largest id itself in place of one more.
IsLargestId(rules, id) ==
    \E top \in IdsOf(rules) \cup {0} :
        /\ \A other \in IdsOf(rules) : other <= top
        /\ id = top

\* add_rule: one more than the largest id of the list, 1 when it is empty.
IsNextId(rules, id) ==
    \E top \in IdsOf(rules) \cup {0} :
        /\ \A other \in IdsOf(rules) : other <= top
        /\ id = top + 1

CandidateIds(rules) == {i + 1 : i \in IdsOf(rules) \cup {0}}

IsFirst(rules, i, Test(_)) ==
    Test(rules[i]) /\ \A j \in 1..(i - 1) : ~Test(rules[j])

\* remove_rule: the first rule with that id, or else the first with that name.
IsRemovalIndex(rules, ident, i) ==
    \/ IsFirst(rules, i, LAMBDA r : IdText(r.id) = ident)
    \/ /\ \A r \in ToSet(rules) : IdText(r.id) # ident
       /\ IsFirst(rules, i, LAMBDA r : NameText(r) = ident)

-----------------------------------------------------------------------------
(* The file                                                                *)

\* "empty" is what open("w") leaves, "mixed" what two overlapping saves can
\* leave; neither is JSON.
Disk == [kind : {"absent", "empty", "mixed"}, rules : {<<>>}]
        \cup [kind : {"whole"}, rules : Seq(Rule)]

NoFile == [kind |-> "absent", rules |-> <<>>]
EmptyFile == [kind |-> "empty", rules |-> <<>>]
MixedFile == [kind |-> "mixed", rules |-> <<>>]
Whole(rules) == [kind |-> "whole", rules |-> rules]

\* What load_rules leaves in a list: an absent or unreadable file changes
\* nothing.
Loaded(rules) == IF disk.kind = "whole" THEN disk.rules ELSE rules

Stamped == \E step \in StampStep : mtime' = mtime + step

NoJob == [op |-> "none"]

\* The change a user interface is making: the rule it adds, or the place and
\* the rule it found there to stop.
Job == [op : {"none"}]
       \cup [op : {"add"}, rule : Rule]
       \cup [op : {"stop"}, rule : Rule, at : Nat \ {0}]

-----------------------------------------------------------------------------
TypeOK ==
    /\ mem \in [UI -> Seq(Rule)]
    /\ phase \in [UI -> {"off", "idle", "adding", "removing", "changed", "writing"}]
    /\ job \in [UI -> Job]
    /\ web \in [WebThread -> {"idle", "parsed", "cleared"}]
    /\ held \in [WebThread -> Seq(Rule)]
    /\ disk \in Disk
    /\ mtime \in Int
    /\ daemon \in {"off", "idle", "statted"}
    /\ dmem \in Seq(Rule)
    /\ seen \in Int
    /\ lastMtime \in Int
    /\ acked \subseteq Rule
    /\ cut \in BOOLEAN
    /\ started \subseteq UI
    /\ edits \in Nat
    /\ starts \in Nat

\* rules.json may not exist yet, or hold what earlier sessions left.
Init ==
    /\ mem = [u \in UI |-> <<>>]
    /\ phase = [u \in UI |-> "off"]
    /\ job = [u \in UI |-> NoJob]
    /\ web = [t \in WebThread |-> "idle"]
    /\ held = [t \in WebThread |-> <<>>]
    /\ \/ disk = NoFile /\ mtime = 0
       \/ \E r \in [id : {1}, name : {Default}] : disk = Whole(<<r>>) /\ mtime = 1
    /\ daemon = "off"
    /\ dmem = <<>>
    /\ seen = 0
    /\ lastMtime = 0
    /\ acked = ToSet(disk.rules)
    /\ cut = FALSE
    /\ started = {}
    /\ edits = 0
    /\ starts = 0

-----------------------------------------------------------------------------
(* A user interface: the thread the user types into                        *)

Goto(u, p) == phase' = [phase EXCEPT ![u] = p]

\* on_mount / main: load_rules() into a list that is still empty.
StartUI(u) ==
    /\ phase[u] = "off"
    /\ starts < MaxStarts
    /\ Goto(u, "idle")
    /\ mem' = [mem EXCEPT ![u] = Loaded(<<>>)]
    /\ started' = started \cup {u}
    /\ starts' = starts + 1
    /\ UNCHANGED <<job, webVars, fileVars, daemonVars, acked, cut, edits>>

\* add_rule computes the id from the list as it is now ...
ChooseId(u) ==
    /\ phase[u] = "idle"
    /\ edits < MaxEdits
    /\ \E id \in CandidateIds(mem[u]), name \in Typed[u] :
          /\ IsNextId(mem[u], id)
          /\ job' = [job EXCEPT ![u] =
                [op |-> "add", rule |-> [id |-> id, name |-> name]]]
    /\ Goto(u, "adding")
    /\ edits' = edits + 1
    /\ UNCHANGED <<mem, webVars, fileVars, daemonVars, acked, cut, started, starts>>

\* ... and appends the rule to the list as it is then.
AppendRule(u) ==
    /\ phase[u] = "adding"
    /\ mem' = [mem EXCEPT ![u] = Append(@, job[u].rule)]
    /\ Goto(u, "changed")
    /\ UNCHANGED <<job, webVars, fileVars, daemonVars, ghosts>>

\* remove_rule finds the rule a user names by its id or its name ...
FindRule(u) ==
    /\ phase[u] = "idle"
    /\ edits < MaxEdits
    /\ \E r \in ToSet(mem[u]) :
       \E ident \in {IdText(r.id), NameText(r)}, at \in DOMAIN mem[u] :
          /\ IsRemovalIndex(mem[u], ident, at)
          /\ job' = [job EXCEPT ![u] =
                [op |-> "stop", rule |-> mem[u][at], at |-> at]]
    /\ Goto(u, "removing")
    /\ edits' = edits + 1
    /\ UNCHANGED <<mem, webVars, fileVars, daemonVars, acked, cut, started, starts>>

\* ... and pops whatever is at that place by then,
PopRule(u) ==
    /\ phase[u] = "removing"
    /\ job[u].at <= Len(mem[u])
    /\ mem' = [mem EXCEPT ![u] = RemoveAt(@, job[u].at)]
    /\ Goto(u, "changed")
    /\ UNCHANGED <<job, webVars, fileVars, daemonVars, ghosts>>

\* which an HTTP thread may have emptied: IndexError, the command fails.
PopFails(u) ==
    /\ phase[u] = "removing"
    /\ job[u].at > Len(mem[u])
    /\ Goto(u, "idle")
    /\ job' = [job EXCEPT ![u] = NoJob]
    /\ UNCHANGED <<mem, webVars, fileVars, daemonVars, ghosts>>

\* save_rules: open(RULES_FILE, "w") empties the file.
OpenForWrite(u) ==
    /\ phase[u] = "changed"
    /\ disk' = EmptyFile
    /\ Stamped
    /\ Goto(u, "writing")
    /\ UNCHANGED <<mem, job, webVars, daemonVars, ghosts>>

\* What the user is told once save_rules has returned, whether it saved or not.
AckedAfter(u) ==
    IF job[u].op = "add" THEN acked \cup {job[u].rule} ELSE acked \ {job[u].rule}

Acknowledge(u) ==
    /\ acked' = AckedAfter(u)
    /\ Goto(u, "idle")
    /\ job' = [job EXCEPT ![u] = NoJob]

\* A slip: the save leaves out the rule that was added last.
WriteAllButLast(u) ==
    /\ phase[u] = "writing"
    /\ disk' = Whole(IF mem[u] = <<>> THEN <<>> ELSE Front(mem[u]))
    /\ Stamped
    /\ Acknowledge(u)
    /\ UNCHANGED <<mem, webVars, daemonVars, cut, started, edits, starts>>

\* A slip: the file's mtime is put back to what it was, as a save through a
\* copy that keeps the times would.
WriteKeepingTime(u) ==
    /\ phase[u] = "writing"
    /\ disk' = Whole(mem[u])
    /\ mtime' = mtime
    /\ Acknowledge(u)
    /\ UNCHANGED <<mem, webVars, daemonVars, cut, started, edits, starts>>

\* json.dump writes the list as it is now.  Over the data that another process
\* has flushed since this one emptied the file, a shorter text leaves the end
\* of the longer one behind it.
WriteRules(u) ==
    /\ phase[u] = "writing"
    /\ \/ disk' = Whole(mem[u])
       \/ /\ disk.kind \in {"whole", "mixed"}
          /\ disk # Whole(mem[u])
          /\ disk' = MixedFile
    /\ Stamped
    /\ Acknowledge(u)
    /\ UNCHANGED <<mem, webVars, daemonVars, cut, started, edits, starts>>

\* An OSError at either step is logged and swallowed.
SaveFails(u) ==
    /\ DiskMayFail
    /\ phase[u] \in {"changed", "writing"}
    /\ cut' = TRUE
    /\ Acknowledge(u)
    /\ UNCHANGED <<mem, webVars, fileVars, daemonVars, started, edits, starts>>

\* The process ends, at the user's wish or not, with all its threads; what it
\* has not flushed is lost.
EndUI(u) ==
    /\ phase[u] # "off"
    /\ Goto(u, "off")
    /\ mem' = [mem EXCEPT ![u] = <<>>]
    /\ job' = [job EXCEPT ![u] = NoJob]
    /\ web' = [t \in WebThread |-> IF Host[t] = u THEN "idle" ELSE web[t]]
    /\ held' = [t \in WebThread |-> IF Host[t] = u THEN <<>> ELSE held[t]]
    /\ cut' = (cut \/ phase[u] = "writing")
    /\ UNCHANGED <<fileVars, daemonVars, acked, started, edits, starts>>

-----------------------------------------------------------------------------
(* An HTTP thread in get_rules_payload: load_rules without any lock         *)

WebParse(t) ==
    /\ phase[Host[t]] # "off"
    /\ web[t] = "idle"
    /\ disk.kind = "whole"
    /\ held' = [held EXCEPT ![t] = disk.rules]
    /\ web' = [web EXCEPT ![t] = "parsed"]
    /\ UNCHANGED <<uiVars, fileVars, daemonVars, ghosts>>

WebClear(t) ==
    /\ web[t] = "parsed"
    /\ mem' = [mem EXCEPT ![Host[t]] = <<>>]
    /\ web' = [web EXCEPT ![t] = "cleared"]
    /\ UNCHANGED <<phase, job, held, fileVars, daemonVars, ghosts>>

WebExtend(t) ==
    /\ web[t] = "cleared"
    /\ mem' = [mem EXCEPT ![Host[t]] = @ \o held[t]]
    /\ web' = [web EXCEPT ![t] = "idle"]
    /\ held' = [held EXCEPT ![t] = <<>>]
    /\ UNCHANGED <<phase, job, fileVars, daemonVars, ghosts>>

-----------------------------------------------------------------------------
(* The daemon                                                              *)

StartDaemon ==
    /\ daemon = "off"
    /\ daemon' = "idle"
    /\ UNCHANGED <<dmem, seen, lastMtime, uiVars, webVars, fileVars, ghosts>>

\* The first half of a round of _monitor_loop: stat() comes before the load.
StatFile ==
    /\ daemon = "idle"
    /\ disk.kind # "absent"
    /\ seen' = mtime
    /\ daemon' = "statted"
    /\ UNCHANGED <<dmem, lastMtime, uiVars, webVars, fileVars, ghosts>>

\* A slip: the file is loaded when the daemon starts, and never again.
ReloadOnce ==
    /\ daemon = "statted"
    /\ daemon' = "idle"
    /\ \/ /\ lastMtime = 0
          /\ dmem' = Loaded(dmem)
          /\ lastMtime' = seen
       \/ /\ lastMtime > 0
          /\ UNCHANGED <<dmem, lastMtime>>
    /\ seen' = 0
    /\ UNCHANGED <<uiVars, webVars, fileVars, ghosts>>

\* The second half: reload if the file is newer than what was loaded, and
\* count it as loaded even if it could not be parsed.
ReloadIfNewer ==
    /\ daemon = "statted"
    /\ daemon' = "idle"
    /\ \/ /\ seen > lastMtime
          /\ dmem' = Loaded(dmem)
          /\ lastMtime' = seen
       \/ /\ seen <= lastMtime
          /\ UNCHANGED <<dmem, lastMtime>>
    /\ seen' = 0
    /\ UNCHANGED <<uiVars, webVars, fileVars, ghosts>>

DaemonDies ==
    /\ daemon # "off"
    /\ daemon' = "off"
    /\ dmem' = <<>>
    /\ seen' = 0
    /\ lastMtime' = 0
    /\ UNCHANGED <<uiVars, webVars, fileVars, ghosts>>

-----------------------------------------------------------------------------
\* The steps that carry a command of the user through.
UIProceeds(u) ==
    AppendRule(u) \/ PopRule(u) \/ PopFails(u) \/ OpenForWrite(u) \/ WriteRules(u)

WebProceeds(t) == WebClear(t) \/ WebExtend(t)

DaemonProceeds == StatFile \/ ReloadIfNewer

Next ==
    \/ \E u \in UI : \/ StartUI(u) \/ ChooseId(u) \/ FindRule(u) \/ UIProceeds(u)
                     \/ SaveFails(u) \/ EndUI(u)
    \/ \E t \in WebThread : WebParse(t) \/ WebProceeds(t)
    \/ StartDaemon \/ DaemonProceeds \/ DaemonDies

\* A command once begun and a round of the daemon run on; users need not type,
\* and nothing need start or end.
Fairness ==
    /\ \A u \in UI : WF_vars(UIProceeds(u))
    /\ \A t \in WebThread : WF_vars(WebProceeds(t))
    /\ WF_vars(DaemonProceeds)

Spec == Init /\ [][Next]_vars /\ Fairness
-----------------------------------------------------------------------------
(* Properties                                                              *)

\* The processes whose list an HTTP thread rewrites.
WebHosts == {Host[t] : t \in WebThread}

Quiet ==
    /\ \A u \in UI : phase[u] \in {"off", "idle"}
    /\ \A t \in WebThread : web[t] = "idle"

\* The file holds the rules users were told are active, no fewer and no more.
FileHoldsAcked ==
    \/ disk.kind = "whole" /\ ToSet(disk.rules) = acked
    \/ disk.kind = "absent" /\ acked = {}

\* The daemon's poll is a sound cache check: if the mtime it has loaded is the
\* file's own, the rules it evaluates are the ones in the file.  Depends on
\* stat() coming before the load, and on every write moving the mtime.
DaemonCoherent ==
    (daemon # "off" /\ lastMtime = mtime /\ disk.kind = "whole")
        => dmem = disk.rules

\* While no process that serves the web dashboard has run, no list ever holds
\* two rules with one id: not the memory of any process, nor the file.
IdsStayUnique ==
    (started \cap WebHosts = {}) =>
        /\ \A u \in UI : UniqueIds(mem[u])
        /\ UniqueIds(disk.rules)
        /\ UniqueIds(dmem)

\* The strengthenings that make the two above inductive.  A loaded time never
\* runs ahead of the file, so a write always leaves it behind; and the id a
\* thread has chosen stays above all ids of its list until it is appended.
CacheInv ==
    /\ 0 <= lastMtime /\ lastMtime <= mtime /\ seen <= mtime
    /\ disk.kind = "whole" => mtime > 0
    /\ daemon = "off" => lastMtime = 0
    /\ DaemonCoherent

JobMatchesPhase ==
    \A u \in UI : /\ phase[u] = "adding" => job[u].op = "add"
                  /\ phase[u] = "removing" => job[u].op = "stop"
                  /\ phase[u] \in {"changed", "writing"} => job[u].op # "none"

UniqueInv ==
    /\ \A u \in UI : phase[u] # "off" => u \in started
    /\ \A t \in WebThread : web[t] # "idle" => Host[t] \in started
    /\ started \cap WebHosts = {} =>
          \A u \in UI : phase[u] = "adding" =>
              \A id \in IdsOf(mem[u]) : id < job[u].rule.id
    /\ IdsStayUnique

\* One process alone has edited rules, with no HTTP thread beside the user's and
\* no save cut short.
SoleEditor ==
    ~cut /\ started \cap WebHosts = {} /\ \A u, v \in started : u = v

\* While one process alone has edited rules, with no HTTP thread beside the
\* user's and no save cut short, the file holds the acknowledged rules
\* whenever nothing is in progress, over any number of restarts.
SoleEditorPersists == (Quiet /\ SoleEditor) => FileHoldsAcked

\* What makes it inductive: how the sole editor's list, the file and what the
\* user has been told are related at each point of a command.
SoleState ==
    /\ (\A u \in UI : phase[u] # "writing") => FileHoldsAcked
    /\ \A u \in UI :
          /\ phase[u] \in {"idle", "adding", "removing"} => mem[u] = disk.rules
          /\ phase[u] = "removing" =>
                job[u].at \in DOMAIN mem[u] /\ job[u].rule = mem[u][job[u].at]
          /\ phase[u] \in {"changed", "writing"} => ToSet(mem[u]) = AckedAfter(u)
          /\ phase[u] = "writing" => disk.kind = "empty"

SoleInv == SoleEditor => SoleState

IInv == TypeOK /\ CacheInv /\ JobMatchesPhase /\ UniqueInv /\ SoleInv

\* "rules.json" is "the common source of truth for the current rule set": the
\* same with any number of processes editing it.
CommonSourceOfTruth == (Quiet /\ ~cut) => FileHoldsAcked

\* Once the users have stopped editing, a daemon that stays up evaluates the
\* rules in the file from some moment on.
DaemonCatchesUp ==
    <>[](daemon # "off") => <>[](disk.kind = "whole" => dmem = disk.rules)
=============================================================================
