------------------------------ MODULE DockerProbe ------------------------------
(***************************************************************************)
(* The commands about Docker.  Each asks the daemon through the Python SDK *)
(* if that is installed, and through the docker command if it is not or    *)
(* anything goes wrong; how the command ends is told apart by its exit     *)
(* code and by words in its stderr, whoever has printed them.              *)
(*                                                                         *)
(* Containers, images, networks and volumes come and go between any two    *)
(* requests, and so does the daemon.  The daemon, the SDK and the command  *)
(* are modelled from how docker_probe uses them: the SDK lists containers  *)
(* and images by asking for each of them once more.                        *)
(***************************************************************************)
EXTENDS Naturals, FiniteSets

CONSTANTS
    Thing,          \* containers, or whatever the command lists
    Logged,         \* the one that docker.logs is given
    MaxChanges      \* bound: changes around a command while it runs

ASSUME DockerAssumption == IsFiniteSet(Thing) /\ Logged \in Thing /\ MaxChanges \in Nat

VARIABLES
    installed,  \* what there is to reach the daemon by: "sdk", the docker
                \* package, and "cli", the docker command
    routes,     \* those of them that reach it
    state,      \* of each thing: "running", "stopped", "gone"
    report,     \* the command that runs, or none
    dstage,     \* how far the command is
    pending,    \* things listed by the SDK and not looked at yet
    rows,       \* things looked at
    answer,     \* what the command reports
    \* the rest observes the command
    ending,     \* how the docker command has ended
    always,     \* things it should list, ever since it began
    ever,       \* things it should have listed at some time
    wasCut,     \* the docker command could not reach the daemon at some time
    changes

dockerVars == <<installed, routes, state, report, dstage, pending, rows, answer,
                ending, always, ever, wasCut, changes>>

-----------------------------------------------------------------------------
\* Of running containers; of everything, asking for each thing once more; and of
\* everything at once.
RunningOnly == {"ps", "stats", "count"}
Inspecting == RunningOnly \cup {"containers", "images"}
Listing == Inspecting \cup {"networks", "volumes"}
Report == Listing \cup {"info", "logs"}

Listed(r, s) ==
    CASE r = "logs" -> {t \in {Logged} : s[t] # "gone"}
      [] r = "info" -> {}
      [] r \in RunningOnly -> {t \in Thing : s[t] = "running"}
      [] OTHER -> {t \in Thing : s[t] # "gone"}

NoThings == [t \in Thing |-> "gone"]

\* The words that the code looks for in what the docker command has printed, and
\* finds first; "no text" is output that cannot be decoded.  In the output of
\* docker logs they may be the container's own.  The exit code is 0, the 127 of a
\* command that is not there, or anything else.
Words == {"no text", "no container", "no binary", "no daemon", "no file", "other"}
Ending == [code : {"0", "127", "else"}, says : Words, own : BOOLEAN]
NoEnding == [code |-> "0", says |-> "other", own |-> FALSE]

DockerTypeOK ==
    /\ installed \subseteq {"sdk", "cli"} /\ routes \subseteq installed
    /\ state \in [Thing -> {"running", "stopped", "gone"}]
    /\ report \in Report \cup {"none"}
    /\ dstage \in {"idle", "check", "sdk", "rows", "cli", "done"}
    /\ pending \subseteq Thing /\ rows \subseteq Thing
    /\ answer \in {"none", "rows", "missing", "unavailable", "unreachable", "error", "raised"}
    /\ ending \in Ending
    /\ always \subseteq Thing /\ ever \subseteq Thing
    /\ wasCut \in BOOLEAN /\ changes \in 0..MaxChanges

\* While a command runs, what has been there to be listed all the time is there
\* now, and what is there now has been there at some time; what the SDK has listed
\* and looked at so far lies between the two, and nothing is left of it when
\* another way is tried.
DockerCollects ==
    /\ dstage = "idle" => answer = "none"
    /\ dstage \in {"check", "sdk", "rows", "cli"} =>
          /\ answer = "none"
          /\ always \subseteq Listed(report, state) /\ Listed(report, state) \subseteq ever
          /\ "cli" \notin routes => wasCut
          /\ IF dstage = "rows" THEN always \subseteq pending \cup rows /\ pending \cup rows \subseteq ever
                               ELSE pending = {} /\ rows = {}

\* No command about Docker runs.
DockerIdle ==
    /\ report = "none" /\ dstage = "idle" /\ answer = "none"
    /\ pending = {} /\ rows = {}
    /\ installed = {} /\ routes = {} /\ ending = NoEnding
    /\ state = NoThings
    /\ always = {} /\ ever = {} /\ wasCut = FALSE /\ changes = 0

\* The command is over; what it saw of the machine is nobody's any more.
DockerRests ==
    /\ report' = "none" /\ dstage' = "idle" /\ answer' = "none"
    /\ pending' = {} /\ rows' = {}
    /\ installed' = {} /\ routes' = {} /\ ending' = NoEnding
    /\ state' = NoThings
    /\ always' = {} /\ ever' = {} /\ wasCut' = FALSE /\ changes' = 0

\* The command r begins in some state of the machine.  The probe behind the
\* metric does not check whether Docker is installed.
AskDocker(r) ==
    /\ installed' \in SUBSET {"sdk", "cli"}
    /\ routes' \in SUBSET installed'
    /\ state' \in [Thing -> {"running", "stopped", "gone"}]
    /\ report' = r
    /\ dstage' = IF r = "count" THEN "sdk" ELSE "check"
    /\ always' = Listed(r, state)' /\ ever' = Listed(r, state)'
    /\ wasCut' = ("cli" \notin routes')
    /\ UNCHANGED <<pending, rows, answer, ending, changes>>

-----------------------------------------------------------------------------
(* The machine                                                             *)

ThingChanges ==
    /\ dstage \notin {"idle", "done"} /\ changes < MaxChanges
    /\ \E t \in Thing, s \in {"running", "stopped", "gone"} :
          /\ s # state[t]
          /\ state' = [state EXCEPT ![t] = s]
    /\ always' = always \cap Listed(report, state')
    /\ ever' = ever \cup Listed(report, state')
    /\ changes' = changes + 1
    /\ UNCHANGED <<installed, routes, report, dstage, pending, rows, answer, ending,
                   wasCut>>

DaemonChanges ==
    /\ dstage \notin {"idle", "done"} /\ changes < MaxChanges
    /\ routes' \in SUBSET installed /\ routes' # routes
    /\ wasCut' = (wasCut \/ "cli" \notin routes')
    /\ changes' = changes + 1
    /\ UNCHANGED <<installed, state, report, dstage, pending, rows, answer, ending,
                   always, ever>>

-----------------------------------------------------------------------------
(* The command                                                             *)

At(s) == dstage = s /\ UNCHANGED <<installed, routes, state, report, always, ever,
                                   wasCut, changes>>

\* A step that does not run the docker command.
Probes(s) == At(s) /\ UNCHANGED ending

Answers(what, things) ==
    /\ dstage' = "done"
    /\ answer' = what /\ rows' = things /\ pending' = {}

\* is_docker_installed
CheckInstalled ==
    /\ Probes("check")
    /\ IF installed # {}
       THEN dstage' = "sdk" /\ UNCHANGED <<pending, rows, answer>>
       ELSE Answers("unavailable", {})

\* A slip: what the SDK has delivered before it failed is the answer.
FallsShort ==
    /\ dstage \in {"sdk", "rows"} /\ Probes(dstage)
    /\ IF rows = {} THEN dstage' = "cli" /\ pending' = {} /\ rows' = {} /\ UNCHANGED answer
                    ELSE Answers("rows", rows)

\* Whatever fails with the SDK, the docker command is tried, and what the SDK
\* has delivered so far is dropped.
FallsBack ==
    /\ dstage \in {"sdk", "rows"} /\ Probes(dstage)
    /\ dstage' = "cli"
    /\ pending' = {} /\ rows' = {}
    /\ UNCHANGED answer

SdkAnswers == "sdk" \in routes

\* client....list()
SdkLists ==
    /\ Probes("sdk") /\ SdkAnswers
    /\ report \in Inspecting
    /\ dstage' = "rows" /\ pending' = Listed(report, state)
    /\ UNCHANGED <<rows, answer>>

\* Each listed thing is asked for, whatever it does by now; if one is gone, the
\* whole list fails.
SdkInspects ==
    /\ Probes("rows") /\ SdkAnswers
    /\ \E t \in pending :
          /\ state[t] # "gone"
          /\ pending' = pending \ {t} /\ rows' = rows \cup {t}
    /\ UNCHANGED <<dstage, answer>>

SdkListed ==
    /\ Probes("rows") /\ pending = {}
    /\ Answers("rows", rows)

\* Networks, volumes, the daemon's data and the logs of a container that is
\* there take no further request that could miss.
SdkDelivers ==
    /\ Probes("sdk") /\ SdkAnswers
    /\ report \notin Inspecting
    /\ report = "logs" => state[Logged] # "gone"
    /\ Answers("rows", Listed(report, state))

\* How the docker command can end.  It may fail or take too long for reasons of
\* its own, and name a missing file though the daemon is there; docker logs
\* passes on what the container has printed, whatever that is.
Failing(words) == [code : {"else"}, says : words \cup {"other", "no file"}, own : {FALSE}]
Endings ==
    CASE "cli" \notin installed -> [code : {"127"}, says : {"no binary"}, own : {FALSE}]
      [] "cli" \in installed \ routes -> Failing({"no daemon"})
      [] "cli" \in routes /\ report # "logs" -> Failing({}) \cup {NoEnding}
      [] "cli" \in routes /\ report = "logs" /\ state[Logged] = "gone" -> Failing({"no container"})
      [] OTHER -> Failing({}) \cup {NoEnding} \cup [code : {"0", "else"}, says : Words, own : {TRUE}]

\* _classify_cli_failure
Classified(e) ==
    CASE e.code = "0" -> "rows"
      [] e.code # "0" /\ (e.code = "127" \/ e.says = "no binary") -> "unavailable"
      [] e.code = "else" /\ e.says \in {"no daemon", "no file"} -> "unreachable"
      [] OTHER -> "error"

\* What comes before: subprocess decodes the output, and _run_cli does not catch
\* what that raises; get_container_logs looks for "no such container" whatever
\* the exit code is.  And after it: the daemon's data may not have its nine parts.
Conclusions(e) ==
    CASE e.says = "no text" -> {"raised"}
      [] e.says = "no container" /\ report = "logs" -> {"missing"}
      [] report = "info" /\ e.code = "0" -> {"rows", "error"}
      [] OTHER -> {Classified(e)}

CliAnswers ==
    /\ At("cli")
    /\ ending' \in Endings
    /\ \E what \in Conclusions(ending') :
          Answers(what, IF what = "rows" THEN Listed(report, state) ELSE {})

-----------------------------------------------------------------------------
ProbesDocker == CheckInstalled \/ FallsBack \/ SdkLists \/ SdkInspects \/ SdkListed
                \/ SdkDelivers \/ CliAnswers

DockerNext == ThingChanges \/ DaemonChanges \/ ProbesDocker

-----------------------------------------------------------------------------
(* Properties                                                              *)

\* What a Docker command reports was so: its rows hold everything that was
\* there to be listed all the time and nothing that never was, however often
\* the SDK was tried before the command; the count behind the metric lies
\* between the two; and a failure is blamed on what failed: "not available"
\* on a missing command, "daemon not reachable" on a daemon that the command
\* could not reach, "no such container" on a container that was not there.  Only
\* words may mislead: those of a container, when its logs are asked for, and "no
\* such file or directory", which need not be about the daemon's socket.  And
\* nothing but a container's logs can make a command raise.
DockerIsTrue ==
    /\ answer = "rows" => always \subseteq rows /\ rows \subseteq ever
    /\ answer = "unavailable" => "cli" \notin installed \/ ending.own
    /\ answer = "unreachable" =>
          "cli" \in installed /\ (wasCut \/ ending.says = "no file" \/ ending.own)
    /\ answer = "missing" => report = "logs" /\ (Logged \notin always \/ ending.own)
    /\ ending.own \/ answer = "raised" => report = "logs" /\ ending.own

\* More than the steps that a command has still to take: one for each thing the
\* SDK has listed, and those to get there and back.
RequestsLeft ==
    CASE dstage = "check" -> Cardinality(Thing) + 4
      [] dstage = "sdk" -> Cardinality(Thing) + 3
      [] dstage = "rows" -> Cardinality(pending) + 2
      [] dstage = "cli" -> 1
      [] OTHER -> 0
=============================================================================
