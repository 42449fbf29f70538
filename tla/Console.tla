-------------------------------- MODULE Console --------------------------------
(***************************************************************************)
(* One session at a prompt: the import of the package with its plugins,    *)
(* then one command after the other, from the text that is typed to the    *)
(* line that is printed (execute_command, MetricsTransformer, repl_loop,   *)
(* on_input_submitted).  It composes the discovery of plugins with the     *)
(* probes of Docker and of processes, which it reaches through what the    *)
(* plugins have registered.  The commands about rules are RuleFile's, the  *)
(* answers of the ec2 commands are NodeStore's.                            *)
(***************************************************************************)
EXTENDS PluginRegistry, DockerProbe, ProcessProbe

CONSTANTS
    Docker,         \* the plugin module that hands on to docker_probe
    DockerMetric,   \* the metric it offers
    Reports,        \* the commands about Docker that are tried,
    Walks           \* ... and those about processes

ASSUME ConsoleAssumption ==
    /\ Docker \in Module
    /\ DockerMetric \in offers[Docker]["metrics"] \ BuiltIn
    /\ \A key \in offers[Docker]["commands"] : key[1] = "docker"
    /\ Reports \subseteq Report /\ Walks \subseteq Walk \cup ByPid

VARIABLES
    prompt,     \* "starting", "ready", "running", "answered"
    command,    \* what was typed: the namespace and the word after the dot
    reply       \* what is printed

consoleVars == <<prompt, command, reply>>
vars == <<consoleVars, registryVars, dockerVars, processVars>>

-----------------------------------------------------------------------------
(* The commands that are a method of the transformer and nothing else      *)

Cpu == {"util", "load", "cores", "avg"}
Memory == {"util", "stats", "swap", "cached"}
Disk == {"free", "usage", "io", "top", "inode"}
Gpu == {"util"}
Proc == {"tree"}
Net == {"interfaces", "bandwidth", "connections", "ports", "dns"}
System == {"uptime", "info", "users", "load"}
Sensor == {"temp", "fans", "battery"}
Service == {"list", "status"}
Utility == {"clear", "help", "rules", "history", "guide", "status"}

HostCommands == [cpu |-> Cpu, mem |-> Memory, disk |-> Disk, gpu |-> Gpu, proc |-> Proc,
                 net |-> Net, system |-> System, sensor |-> Sensor, service |-> Service,
                 utility |-> Utility]

\* Those that read psutil and catch nothing, and those that read nothing.
Uncaught == ({"cpu"} \X Cpu) \cup ({"mem"} \X Memory) \cup {<<"disk", "free">>, <<"system", "load">>}
Fixed == {"utility"} \X (Utility \ {"status"})

\* What a command comes to.  Lark wraps whatever a method raises in a VisitError,
\* which is a LarkError, and so it is printed as a parse error; the others print
\* an error in place of the text.
Outcomes(c) ==
    {"text"} \cup (IF c \in Uncaught THEN {"parse error"} ELSE {})
             \cup (IF c \notin Uncaught \cup Fixed THEN {"error"} ELSE {})

Ec2 == {"list", "metrics", "info", "server"}

\* What may be typed; "?" stands for a text that the grammar rejects.
Command ==
    {<<ns, word>> : ns \in {"?"}, word \in {"?"}}
    \cup (UNION {{<<ns, word>> : word \in HostCommands[ns]} : ns \in DOMAIN HostCommands})
    \cup {<<"docker", r>> : r \in Reports \ {"count"}}
    \cup {<<"check", r>> : r \in Reports \cap {"count"}}
    \cup {<<"walk", w>> : w \in Walks}
    \cup {<<"ec2", word>> : word \in Ec2}

Nothing == <<"none", "none">>

ConsoleTypeOK ==
    /\ prompt \in {"starting", "ready", "running", "answered"}
    /\ command \in Command \cup {Nothing}
    /\ reply \in {"none", "text", "parse error", "error",
                  "docker", "processes", "handler", "no handler", "checked"}

\* Each part is at rest unless the command is its business.
AtRest ==
    /\ prompt = "starting" <=> Discovering
    /\ command[1] \notin {"docker", "check"} => DockerIdle
    /\ report \in {"none", command[2]}
    /\ command[1] # "walk" => ProcessIdle
    /\ command = Nothing <=> prompt \in {"starting", "ready"}
    /\ reply # "none" <=> prompt = "answered"

IInv ==
    /\ RegistryTypeOK /\ RegistryIsFilled /\ EngineIsFilled
    /\ DockerTypeOK /\ DockerCollects
    /\ ProcessTypeOK /\ HoldersAreSeen /\ StagesFit /\ BoundIsHeld
    /\ RowsAreTrue /\ WalksLeaveNoneOut
    /\ ConsoleTypeOK /\ AtRest

Init ==
    /\ prompt = "starting" /\ command = Nothing /\ reply = "none"
    /\ RegistryInit
    /\ DockerIdle
    /\ ProcessIdle

-----------------------------------------------------------------------------
\* The program is imported.
Discover ==
    /\ RegistryNext
    /\ prompt' = IF stage' = "ready" THEN "ready" ELSE prompt
    /\ UNCHANGED <<command, reply, dockerVars, processVars>>

Prints(what) ==
    /\ prompt' = "answered"
    /\ reply' = what

\* A command that is a method of the transformer and nothing else, or no
\* command at all.
SubmitHost ==
    /\ prompt = "ready"
    /\ command' \in Command
    /\ \/ command'[1] = "?" /\ Prints("parse error")
       \/ /\ command'[1] \in DOMAIN HostCommands
          /\ \E what \in Outcomes(command') : Prints(what)
    /\ UNCHANGED <<registryVars, dockerVars, processVars>>

\* The handler that is registered for a Docker command; if there is none, the
\* transformer calls docker_probe itself.
HandlerOf(key) ==
    IF key \in DOMAIN registry["commands"] THEN registry["commands"][key] ELSE Docker

\* A slip: without a handler there is no answer.
SubmitRegistered ==
    /\ prompt = "ready"
    /\ \E r \in Reports \ {"count"} :
          /\ command' = <<"docker", r>>
          /\ IF command' \in DOMAIN registry["commands"]
             THEN /\ registry["commands"][command'] = Docker
                  /\ prompt' = "running" /\ AskDocker(r) /\ UNCHANGED reply
             ELSE Prints("no handler") /\ UNCHANGED dockerVars
    /\ UNCHANGED <<registryVars, processVars>>

\* docker.*: another plugin's handler is not ours to say what it does.
SubmitDocker ==
    /\ prompt = "ready"
    /\ \E r \in Reports \ {"count"} :
          /\ command' = <<"docker", r>>
          /\ IF HandlerOf(command') = Docker
             THEN prompt' = "running" /\ AskDocker(r) /\ UNCHANGED reply
             ELSE Prints("handler") /\ UNCHANGED dockerVars
    /\ UNCHANGED <<registryVars, processVars>>

\* check: the engine fetches the metric of a rule, here the one about Docker,
\* wherever its own registry has it from; a rule on a metric that nobody has
\* cannot be read.
SubmitCheck ==
    /\ prompt = "ready"
    /\ "count" \in Reports
    /\ command' = <<"check", "count">>
    /\ IF DockerMetric \in DOMAIN metric /\ metric[DockerMetric] = Docker
       THEN prompt' = "running" /\ AskDocker("count") /\ UNCHANGED reply
       ELSE Prints("checked") /\ UNCHANGED dockerVars
    /\ UNCHANGED <<registryVars, processVars>>

\* The commands about processes.
SubmitWalk ==
    /\ prompt = "ready"
    /\ prompt' = "running"
    /\ \E w \in Walks, p \in Pid :
          /\ w \in Walk => p = 1
          /\ command' = <<"walk", w>>
          /\ AskProcesses(w, p)
    /\ UNCHANGED <<reply, registryVars, dockerVars>>

\* ec2.*: without a handler the transformer says so.
SubmitEc2 ==
    /\ prompt = "ready"
    /\ \E word \in Ec2 : command' = <<"ec2", word>>
    /\ Prints(IF command' \in DOMAIN registry["commands"] THEN "handler" ELSE "no handler")
    /\ UNCHANGED <<registryVars, dockerVars, processVars>>

\* A check comes to a reading, or to none; what a Docker command raises is
\* wrapped like everything else.
Answered ==
    /\ prompt = "running"
    /\ \/ dstage = "done" /\ Prints(IF command[1] = "check" THEN "checked"
                                    ELSE IF answer = "raised" THEN "parse error" ELSE "docker")
       \/ wstage = "done" /\ Prints("processes")
    /\ UNCHANGED <<command, registryVars, dockerVars, processVars>>

\* Back to the prompt, whatever the command came to.
Prompt ==
    /\ prompt = "answered"
    /\ prompt' = "ready" /\ command' = Nothing /\ reply' = "none"
    /\ DockerRests /\ ProcessRests
    /\ UNCHANGED registryVars

Submit == SubmitHost \/ SubmitDocker \/ SubmitCheck \/ SubmitWalk \/ SubmitEc2

-----------------------------------------------------------------------------
DockerStep == DockerNext /\ UNCHANGED <<consoleVars, registryVars, processVars>>
ProcessStep == ProcessNext /\ UNCHANGED <<consoleVars, registryVars, dockerVars>>

Next == Discover \/ Submit \/ DockerStep \/ ProcessStep \/ Answered \/ Prompt

\* The program runs on; nobody need type anything, and the machine need not
\* change.
Proceeds ==
    \/ Discover
    \/ ProbesDocker /\ UNCHANGED <<consoleVars, registryVars, processVars>>
    \/ ProbesProcesses /\ UNCHANGED <<consoleVars, registryVars, dockerVars>>
    \/ Answered \/ Prompt

Fairness == WF_vars(Proceeds)

Spec == Init /\ [][Next]_vars /\ Fairness

-----------------------------------------------------------------------------
(* Properties                                                              *)

\* What is reported of Docker and of processes was so while the command ran.
AnswersAreTrue == DockerIsTrue /\ ProcessesAreTrue

\* "The commands keep working even with a broken/absent plugin system": a
\* Docker command is answered by docker_probe unless a plugin that offers it
\* has taken it, and it is a parse error only if the logs asked for were no text;
\* an ec2 command is turned away only if every plugin that offers it has failed.
CommandsFindTheirWay ==
    /\ reply = "handler" => Offering("commands", command) \ {Docker} # {}
    /\ reply = "no handler" => Offering("commands", command) \subseteq broken
    /\ command[1] = "docker" /\ prompt = "answered" =>
          \/ reply \in {"docker", "handler"}
          \/ reply = "parse error" /\ command[2] = "logs" /\ answer = "raised"

\* Each step of the discovery and of a probe is one less to take, and nothing
\* that happens meanwhile adds to them.
EndsComeNearer ==
    [][/\ RegistryNext => DiscoveryLeft' < DiscoveryLeft
       /\ ProbesDocker => RequestsLeft' < RequestsLeft
       /\ ProbesProcesses => StepsLeft' < StepsLeft
       /\ prompt = "running" /\ prompt' = "running" =>
             RequestsLeft' <= RequestsLeft /\ StepsLeft' <= StepsLeft]_vars

\* Whatever is typed, and however often things change meanwhile, the prompt
\* comes back.
EveryCommandIsAnswered == prompt # "ready" ~> prompt = "ready"
=============================================================================
