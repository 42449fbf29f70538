----------------------------- MODULE WebDashboard -----------------------------
(***************************************************************************)
(* The HTTP threads of the web dashboard (ThreadingHTTPServer: one thread  *)
(* per request, do_GET to the end of the answer).  They share the list of  *)
(* rules, which every request about rules loads anew and then walks over   *)
(* (get_rules_payload), and the cache of temperatures (SensorCache).       *)
(* Neither has a lock.  Other programs rewrite rules.json meanwhile.       *)
(*                                                                         *)
(* A rule is kept with the version of the file that it was loaded from, so *)
(* that an answer can be told from an outdated one; what else a payload    *)
(* shows of the machine is left out.  NodeStore has what the nodes are,    *)
(* DockerProbe what a query of Docker can come to.                         *)
(***************************************************************************)
EXTENDS SensorCache, Sequences

CONSTANTS
    Files,      \* the contents of rules.json, one after the other
    Workloads   \* bound: what each thread is asked for, up to which version the
                \* file changes, and whether time passes

Kind == {"overview", "metrics", "rules", "docker", "nodes", "file"}
Version == 1..Len(Files)

ASSUME WebAssumption ==
    /\ Files \in Seq(Seq(Nat)) /\ Files # <<>> /\ Files[1] = <<>>
    /\ \A w \in Workloads :
          /\ w.asks \in [Thread -> SUBSET Kind]
          /\ w.edits \in Version /\ w.clock \in BOOLEAN

VARIABLES
    file,       \* rules.json: its version, and "absent", "cut" or "whole"
    active,     \* ACTIVE_RULES
    kind,       \* what each thread has been asked for
    at,         \* where it is
    parsed,     \* the version that its load_rules has read
    index,      \* the place of its loop in ACTIVE_RULES
    out,        \* rules_data
    \* the rest observes the behaviour
    oldest,     \* the version there was when it began to load, or when a load
                \* began that was still under way
    alone,      \* no other load and no edit since then
    read,       \* it has read the file
    workload

rulesVars == <<file, active, parsed, index, out, oldest, alone, read>>
threadVars == <<kind, at>>
vars == <<rulesVars, threadVars, sensorVars, workload>>

-----------------------------------------------------------------------------
Item == [rule : Nat, version : Version]
Items(v) == [i \in 1..Len(Files[v]) |-> [rule |-> Files[v][i], version |-> v]]

Stage == {"idle", "look", "debounce", "load", "clear", "extend", "each",
          "docker", "gather", "nodes", "file", "reply"}

\* Between the beginning of load_rules and the end of the loop.
Loading(t) == at[t] \in {"load", "clear", "extend", "each"}

RequestTypeOK ==
    /\ file \in [version : Version, state : {"absent", "cut", "whole"}]
    /\ active \in Seq(Item)
    /\ kind \in [Thread -> Kind] /\ at \in [Thread -> Stage]
    /\ parsed \in [Thread -> Version] /\ oldest \in [Thread -> Version]
    /\ index \in [Thread -> Nat \ {0}]
    /\ out \in [Thread -> Seq(Item)]
    /\ alone \in [Thread -> BOOLEAN] /\ read \in [Thread -> BOOLEAN]
    /\ workload \in Workloads

TypeOK == SensorTypeOK /\ RequestTypeOK

\* A thread starts a reader only when its last one is done, for while one runs
\* the last read is not long ago.
ReadersAreFew ==
    \A t \in Thread :
        /\ at[t] = "debounce" => ~Running(t)
        /\ Running(t) => lastRead <= reader[t].ran /\ reader[t].age <= reader[t].ran

\* Readers that run together began together, in the tick of a request that found
\* the last read long ago.  Until then a temperature ages with the last read, and
\* then with the page; while they run it ages with them, and those that are done
\* but for the time stamp have brought one that is as old as they are at most.
SensorsAreTimely ==
    /\ \A t, u \in Thread : at[t] = "debounce" /\ Running(u) => reader[u].ran = 0
    /\ \A t, u \in Thread : Running(t) /\ Running(u) => reader[t].ran = reader[u].ran
    /\ gap > PollGap => good = 0
    /\ \A t \in Thread : reader[t].at = "stamp" => Bounded(reader[t].ran)
    /\ \A t \in Thread : Running(t) =>
          Bounded(ReadTime + Interval + PollGap + reader[t].ran)
    /\ (\A t \in Thread : ~Running(t)) =>
          \/ ~Due /\ Bounded(ReadTime + lastRead)
          \/ Due /\ (\E t \in Thread : at[t] = "debounce")
                /\ Bounded(ReadTime + Interval + PollGap)
          \/ Due /\ (\A t \in Thread : at[t] # "debounce")
                /\ Bounded(ReadTime + Interval + gap)

\* What a load under way has read, and what it has put into the list or taken
\* from it, is not older than any request that it can still reach.
LoadsAreRecent ==
    \A t \in Thread : Loading(t) =>
        /\ oldest[t] <= file.version
        /\ \A u \in Thread : at[u] \in {"clear", "extend"} => parsed[u] >= oldest[t]
        /\ at[t] \in {"extend", "each"} /\ read[t] =>
              \A i \in DOMAIN active : active[i].version >= oldest[t]

\* A request comes to its load with nothing read and nothing collected.
RequestsBeginAfresh ==
    \A t \in Thread :
        /\ at[t] \in {"idle", "look", "debounce", "load"} => ~read[t]
        /\ at[t] \in {"idle", "look", "debounce", "load", "clear", "extend"} =>
              out[t] = <<>> /\ index[t] = 1

NoFileNoRules ==
    file.state = "absent" =>
        /\ file.version = 1 /\ active = <<>>
        /\ \A t \in Thread : at[t] \notin {"clear", "extend"}

\* A load that is alone has the list for itself.
LonelyLoadsAreExact ==
    \A t \in Thread : alone[t] =>
        /\ file.state # "cut"
        /\ \A u \in Thread \ {t} : ~Loading(u)
        /\ at[t] \in {"clear", "extend"} => parsed[t] = file.version
        /\ at[t] = "extend" => active = <<>>
        /\ at[t] = "each" =>
              /\ active = Items(file.version)
              /\ Len(out[t]) + 1 = index[t] /\ Len(out[t]) <= Len(active)
              /\ \A i \in DOMAIN out[t] : out[t][i] = active[i]

Init ==
    /\ workload \in Workloads
    /\ file \in [version : {1}, state : {"absent", "whole"}]
    /\ active = <<>>
    /\ kind = [t \in Thread |-> "file"] /\ at = [t \in Thread |-> "idle"]
    /\ parsed = [t \in Thread |-> 1] /\ oldest = [t \in Thread |-> 1]
    /\ index = [t \in Thread |-> 1]
    /\ out = [t \in Thread |-> <<>>]
    /\ alone = [t \in Thread |-> FALSE] /\ read = [t \in Thread |-> FALSE]
    /\ SensorInit

-----------------------------------------------------------------------------
(* Other programs: save_rules                                              *)

\* open(..., "w"); the writer may die or fail before the next step.
CutsFile ==
    /\ file.state # "cut" /\ file.version < workload.edits
    /\ file' = [version |-> file.version + 1, state |-> "cut"]
    /\ alone' = [t \in Thread |-> FALSE]
    /\ UNCHANGED <<active, parsed, index, out, oldest, read, threadVars, sensorVars, workload>>

WritesFile ==
    /\ file.state = "cut"
    /\ file' = [file EXCEPT !.state = "whole"]
    /\ UNCHANGED <<active, parsed, index, out, oldest, alone, read, threadVars, sensorVars,
                   workload>>

-----------------------------------------------------------------------------
(* The course of a request                                                 *)

\* The first version that a load of t which begins now may deliver.
MayDeliver(t, v) ==
    /\ v <= file.version
    /\ \A u \in Thread \ {t} : Loading(u) => v <= oldest[u]
    /\ v = file.version \/ \E u \in Thread \ {t} : Loading(u) /\ v = oldest[u]

\* Thread t comes to stage s.
Goes(t, s) ==
    /\ at' = [at EXCEPT ![t] = s]
    /\ IF s = "load"
       THEN /\ \E v \in Version : MayDeliver(t, v) /\ oldest' = [oldest EXCEPT ![t] = v]
            /\ alone' = [u \in Thread |->
                           u = t /\ file.state # "cut" /\ \A o \in Thread \ {t} : ~Loading(o)]
       ELSE UNCHANGED <<oldest, alone>>

\* get_overview_payload calls the four others in turn.
\* What psutil may still raise after the temperatures ends the overview as well.
AfterMetrics(t) == IF kind[t] = "overview" THEN {"load", "reply"} ELSE {"reply"}
AfterRules(t) == IF kind[t] = "overview" THEN "docker" ELSE "reply"
AfterDocker(t) == IF kind[t] = "overview" THEN "nodes" ELSE "reply"

FirstStage == [overview |-> "look", metrics |-> "look", rules |-> "load",
               docker |-> "docker", nodes |-> "nodes", file |-> "file"]

\* do_GET
Get(t) ==
    /\ at[t] = "idle"
    /\ \E k \in workload.asks[t] :
          /\ kind' = [kind EXCEPT ![t] = k]
          /\ Goes(t, FirstStage[k])
    /\ UNCHANGED <<file, active, parsed, index, out, read, sensorVars, workload>>

\* The answer is sent, or the client has gone, and the thread ends.
Reply(t) ==
    /\ at[t] = "reply"
    /\ Goes(t, "idle")
    /\ kind' = [kind EXCEPT ![t] = "file"]
    /\ parsed' = [parsed EXCEPT ![t] = 1]
    /\ index' = [index EXCEPT ![t] = 1]
    /\ out' = [out EXCEPT ![t] = <<>>]
    /\ read' = [read EXCEPT ![t] = FALSE]
    /\ UNCHANGED <<file, active, sensorVars, workload>>

\* _send_file, or 404
SendFile(t) ==
    /\ at[t] = "file"
    /\ Goes(t, "reply")
    /\ UNCHANGED <<file, active, parsed, index, out, read, kind, sensorVars, workload>>

-----------------------------------------------------------------------------
(* get_system_metrics_payload                                              *)

\* psutil reads outside any try may raise: no answer, and no overview.
MetricsRaise(t) ==
    /\ at[t] = "look"
    /\ Goes(t, "reply")
    /\ UNCHANGED <<file, active, parsed, index, out, read, kind, sensorVars, workload>>

Look(t) ==
    /\ at[t] = "look"
    /\ \/ LooksFresh /\ \E s \in AfterMetrics(t) : Goes(t, s)
       \/ LooksDue /\ Goes(t, "debounce")
    /\ UNCHANGED <<file, active, parsed, index, out, read, kind, workload>>

\* A slip: the request waits for the sensors.
DebounceAndWait(t) ==
    /\ at[t] = "debounce" /\ ~Running(t)
    /\ \/ Due /\ StartsReader(t) /\ Goes(t, "debounce")
       \/ /\ ~Due /\ UNCHANGED sensorVars
          /\ \E s \in AfterMetrics(t) : Goes(t, s)
    /\ UNCHANGED <<file, active, parsed, index, out, read, kind, workload>>

Debounce(t) ==
    /\ at[t] = "debounce"
    /\ StartsReader(t)
    /\ \E s \in AfterMetrics(t) : Goes(t, s)
    /\ UNCHANGED <<file, active, parsed, index, out, read, kind, workload>>

-----------------------------------------------------------------------------
(* get_rules_payload                                                       *)

\* Without a file, or with one that does not parse, the list is what it was.
Load(t) ==
    /\ at[t] = "load"
    /\ IF file.state = "whole"
       THEN /\ parsed' = [parsed EXCEPT ![t] = file.version]
            /\ read' = [read EXCEPT ![t] = TRUE]
            /\ Goes(t, "clear")
       ELSE Goes(t, "each") /\ UNCHANGED <<parsed, read>>
    /\ UNCHANGED <<file, active, index, out, kind, sensorVars, workload>>

\* A slip: the rules are added to those there are.
ClearNothing(t) ==
    /\ at[t] = "clear"
    /\ Goes(t, "extend")
    /\ UNCHANGED <<file, active, parsed, index, out, read, kind, sensorVars, workload>>

Clear(t) ==
    /\ at[t] = "clear"
    /\ active' = <<>>
    /\ Goes(t, "extend")
    /\ UNCHANGED <<file, parsed, index, out, read, kind, sensorVars, workload>>

Extend(t) ==
    /\ at[t] = "extend"
    /\ active' = active \o Items(parsed[t])
    /\ Goes(t, "each")
    /\ UNCHANGED <<file, parsed, index, out, read, kind, sensorVars, workload>>

\* for r in ACTIVE_RULES: the iterator holds a place in the list, and the list
\* may be another one by now.
EachRule(t) ==
    /\ at[t] = "each" /\ index[t] <= Len(active)
    /\ out' = [out EXCEPT ![t] = Append(@, active[index[t]])]
    /\ index' = [index EXCEPT ![t] = @ + 1]
    /\ UNCHANGED <<file, active, parsed, oldest, alone, read, threadVars, sensorVars, workload>>

RulesDone(t) ==
    /\ at[t] = "each" /\ index[t] > Len(active)
    /\ Goes(t, AfterRules(t))
    /\ UNCHANGED <<file, active, parsed, index, out, read, kind, sensorVars, workload>>

-----------------------------------------------------------------------------
(* get_docker_payload, get_nodes_payload                                   *)

\* The queries follow only if Docker is installed and its daemon answers.
AskDocker(t) ==
    /\ at[t] = "docker"
    /\ \E s \in {"gather", AfterDocker(t)} : Goes(t, s)
    /\ UNCHANGED <<file, active, parsed, index, out, read, kind, sensorVars, workload>>

\* Each of them that fails leaves its part empty.
GatherDocker(t) ==
    /\ at[t] = "gather"
    /\ Goes(t, AfterDocker(t))
    /\ UNCHANGED <<file, active, parsed, index, out, read, kind, sensorVars, workload>>

\* The handler always passes its store, so that the receiver is not asked.
ReportNodes(t) ==
    /\ at[t] = "nodes"
    /\ Goes(t, "reply")
    /\ UNCHANGED <<file, active, parsed, index, out, read, kind, sensorVars, workload>>

-----------------------------------------------------------------------------
\* Requests are short: none stays between its look and its debounce for a tick.
Tick ==
    /\ workload.clock
    /\ \A t \in Thread : at[t] # "debounce"
    /\ SensorTick
    /\ UNCHANGED <<rulesVars, threadVars, workload>>

ReadSensors == ReaderNext /\ UNCHANGED <<rulesVars, threadVars, workload>>

Serve(t) ==
    \/ Reply(t) \/ SendFile(t)
    \/ MetricsRaise(t) \/ Look(t) \/ Debounce(t)
    \/ Load(t) \/ Clear(t) \/ Extend(t) \/ EachRule(t) \/ RulesDone(t)
    \/ AskDocker(t) \/ GatherDocker(t) \/ ReportNodes(t)

Next ==
    \/ CutsFile \/ WritesFile \/ Tick \/ ReadSensors
    \/ \E t \in Thread : Get(t) \/ Serve(t)

\* A thread that serves a request runs on.  Nobody need ask, nobody need finish
\* writing the file, and the sensors may never answer.
Fairness == \A t \in Thread : WF_vars(Serve(t))

Spec == Init /\ [][Next]_vars /\ Fairness

-----------------------------------------------------------------------------
(* Properties                                                              *)

IInv ==
    /\ TypeOK /\ ReadersAreFew /\ SensorsAreTimely
    /\ LoadsAreRecent /\ RequestsBeginAfresh /\ NoFileNoRules /\ LonelyLoadsAreExact

\* The answer of a request that has read the file holds no rule that was gone
\* from it before the request and all loads it met began; and if it met neither
\* another load nor an edit, it is the file, rule by rule, whatever earlier
\* requests have made of the list.
RulesAreTheFiles ==
    \A t \in Thread :
        /\ Loading(t) /\ read[t] => \A i \in DOMAIN out[t] : out[t][i].version >= oldest[t]
        /\ at[t] = "each" /\ alone[t] /\ index[t] > Len(active) =>
              out[t] = Items(file.version)

\* Every request comes to its end, however often others reload the list that it
\* walks over, and though the sensors may never answer.
EveryRequestIsAnswered == \A t \in Thread : at[t] # "idle" ~> at[t] = "idle"
=============================================================================
