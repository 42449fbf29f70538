------------------------------- MODULE Servers -------------------------------
(***************************************************************************)
(* Which process listens on which port.  Every program of nano-dsl imports *)
(* the package, which discovers the plugins, and registering the EC2       *)
(* plugin starts a metrics receiver on the default port if nobody has it   *)
(* (receiver.get_or_start_receiver).  Some programs then start a receiver  *)
(* of their own, and some a web dashboard on the first free port.          *)
(*                                                                         *)
(* The exception that nano_logic/__init__.py makes for the receiver, the   *)
(* agent and the CLI has no effect: the package is imported before         *)
(* __main__ has a name (python -m), or __main__ has none (a script).       *)
(***************************************************************************)
EXTENDS Naturals

CONSTANTS
    Process,       \* processes of nano-dsl
    Nobody,        \* the owner of a free port
    Other,         \* the owner of a port that another program uses
    Launch,        \* what users start: [program, receiver, web]
    ReceiverPort,  \* 8080
    MaxPort,       \* bound: ports
    MaxTries       \* _find_free_port's max_tries

Port == 1..MaxPort
NoPort == 0
NoLaunch == [program |-> "none", receiver |-> NoPort, web |-> NoPort]
Program == {"dashboard", "daemon", "cli", "web", "receiver", "agent"}

ASSUME OwnerAssumption == Nobody # Other /\ {Nobody, Other} \cap Process = {}
ASSUME PortAssumption == MaxPort \in Nat /\ ReceiverPort \in Port /\ MaxTries \in Nat

\* The port asked for a receiver and the port to start the search for the web
\* dashboard from; NoPort where there is none.
ASSUME LaunchAssumption ==
    /\ Launch \subseteq
          [program : Program, receiver : Port \cup {NoPort}, web : Port \cup {NoPort}]
    /\ \A l \in Launch :
          /\ l.program \in {"dashboard", "daemon", "agent"} => l.receiver = NoPort
          /\ l.program \in {"daemon", "agent", "receiver"} => l.web = NoPort
          /\ l.program = "receiver" => l.receiver # NoPort
          /\ l.program = "web" => l.web # NoPort /\ l.receiver \in {NoPort, ReceiverPort}

VARIABLES
    listener,  \* who has each port
    phase,     \* how far each process has come
    launch,    \* what it was started as
    active,    \* the port of its _ACTIVE_SERVER, while that is running
    hand,      \* the port of the receiver that receiver.main has made itself
    web,       \* the port of its web dashboard
    chosen,    \* the port that _find_free_port has returned to it
    \* the rest observes the behaviour
    outcome,   \* how it ended
    vacated    \* the default port was given back since it was last taken

servers == <<active, hand, web>>
vars == <<listener, phase, launch, servers, chosen, outcome, vacated>>

-----------------------------------------------------------------------------
Phases == {"gone", "importing", "receiver", "probing", "web", "binding", "up"}
Outcomes == {"none", "ended", "already active", "in use", "no port", "traceback"}

Free(port) == listener[port] = Nobody

TypeOK ==
    /\ listener \in [Port -> Process \cup {Nobody, Other}]
    /\ phase \in [Process -> Phases]
    /\ launch \in [Process -> Launch \cup {NoLaunch}]
    /\ active \in [Process -> Port \cup {NoPort}]
    /\ hand \in [Process -> Port \cup {NoPort}]
    /\ web \in [Process -> Port \cup {NoPort}]
    /\ chosen \in [Process -> Port \cup {NoPort}]
    /\ outcome \in [Process -> Outcomes]
    /\ vacated \in BOOLEAN

Init ==
    /\ listener = [x \in Port |-> Nobody]
    /\ phase = [p \in Process |-> "gone"]
    /\ launch = [p \in Process |-> NoLaunch]
    /\ active = [p \in Process |-> NoPort]
    /\ hand = [p \in Process |-> NoPort]
    /\ web = [p \in Process |-> NoPort]
    /\ chosen = [p \in Process |-> NoPort]
    /\ outcome = [p \in Process |-> "none"]
    /\ vacated = FALSE

-----------------------------------------------------------------------------
\* bind() and listen().
Bind(p, port) ==
    /\ Free(port)
    /\ listener' = [listener EXCEPT ![port] = p]
    /\ vacated' = IF port = ReceiverPort THEN FALSE ELSE vacated

\* The ports of a closed server, or of a process that ends, are free again.
Release(ports) ==
    /\ listener' = [x \in Port |-> IF x \in ports THEN Nobody ELSE listener[x]]
    /\ vacated' = (vacated \/ ReceiverPort \in ports)

Goes(p, from, to) ==
    /\ phase[p] = from
    /\ phase' = [phase EXCEPT ![p] = to]
    /\ UNCHANGED launch

\* The process is over, and with it its threads and its ports.
Ends(p, how) ==
    /\ Release({x \in Port : listener[x] = p})
    /\ phase' = [phase EXCEPT ![p] = "gone"]
    /\ launch' = [launch EXCEPT ![p] = NoLaunch]
    /\ active' = [active EXCEPT ![p] = NoPort]
    /\ hand' = [hand EXCEPT ![p] = NoPort]
    /\ web' = [web EXCEPT ![p] = NoPort]
    /\ chosen' = [chosen EXCEPT ![p] = NoPort]
    /\ outcome' = [outcome EXCEPT ![p] = how]

-----------------------------------------------------------------------------
(* Starting a process                                                      *)

Start(p) ==
    /\ phase[p] = "gone"
    /\ phase' = [phase EXCEPT ![p] = "importing"]
    /\ \E l \in Launch : launch' = [launch EXCEPT ![p] = l]
    /\ outcome' = [outcome EXCEPT ![p] = "none"]
    /\ UNCHANGED <<listener, servers, chosen, vacated>>

\* ReceiverServer(...) and start_background.
StartsReceiver(p, port) ==
    /\ Bind(p, port)
    /\ active' = [active EXCEPT ![p] = port]
    /\ UNCHANGED <<hand, web, chosen, outcome>>

Unserved == UNCHANGED <<listener, servers, chosen, outcome, vacated>>

\* A slip: the plugin starts the receiver on the port that main will ask for.
ImportForMain(p) ==
    /\ Goes(p, "importing", "receiver")
    /\ LET asked == launch[p].receiver
           port == IF asked = NoPort THEN ReceiverPort ELSE asked
       IN  IF Free(port) THEN StartsReceiver(p, port) ELSE Unserved

\* A slip: the plugin leaves the receiver to main.
ImportOnly(p) ==
    /\ Goes(p, "importing", "receiver")
    /\ Unserved

\* EC2Plugin.register, which swallows that the port is taken.
Import(p) ==
    /\ Goes(p, "importing", "receiver")
    /\ IF Free(ReceiverPort) THEN StartsReceiver(p, ReceiverPort) ELSE Unserved

\* Programs that do not ask for a receiver, and those that find the one that
\* was started by the import: get_or_start_receiver returns it, whatever its
\* port.
HasItsReceiver(p) ==
    /\ launch[p].program # "receiver"
    /\ launch[p].receiver = NoPort \/ active[p] # NoPort
    /\ Goes(p, "receiver", "web")
    /\ Unserved

GetsReceiver(p) ==
    /\ launch[p].program \in {"cli", "web"}
    /\ launch[p].receiver # NoPort /\ active[p] = NoPort
    /\ Goes(p, "receiver", "web")
    /\ StartsReceiver(p, launch[p].receiver)

\* The port is taken: the CLI looks by whom, the web dashboard ends.
GetsNoReceiver(p) ==
    /\ phase[p] = "receiver"
    /\ launch[p].receiver # NoPort /\ active[p] = NoPort
    /\ ~Free(launch[p].receiver)
    /\ \/ /\ launch[p].program = "cli"
          /\ Goes(p, "receiver", "probing")
          /\ Unserved
       \/ launch[p].program = "web" /\ Ends(p, "traceback")

\* receiver.main makes a server of its own.
RunsByHand(p) ==
    /\ launch[p].program = "receiver"
    /\ \/ /\ Goes(p, "receiver", "up")
          /\ Bind(p, launch[p].receiver)
          /\ hand' = [hand EXCEPT ![p] = launch[p].receiver]
          /\ UNCHANGED <<active, web, chosen, outcome>>
       \/ /\ ~Free(launch[p].receiver)
          /\ Goes(p, "receiver", "probing")
          /\ Unserved

\* Does /health answer?  Receivers and web dashboards do, other programs may.
Answers(port) ==
    CASE listener[port] \in Process -> {TRUE}
      [] listener[port] = Other     -> BOOLEAN
      [] listener[port] = Nobody    -> {FALSE}

Probe(p) ==
    /\ phase[p] = "probing"
    /\ \/ launch[p].program = "cli" /\ Goes(p, "probing", "web") /\ Unserved
       \/ /\ launch[p].program = "receiver"
          /\ \E answered \in Answers(launch[p].receiver) :
                Ends(p, IF answered THEN "already active" ELSE "in use")

-----------------------------------------------------------------------------
(* The web dashboard                                                       *)

Candidates(p) ==
    {x \in Port : x \in launch[p].web..(launch[p].web + MaxTries - 1) /\ Free(x)}

NoWeb(p) ==
    /\ launch[p].web = NoPort
    /\ Goes(p, "web", "up")
    /\ Unserved

\* _find_free_port binds the port it returns, and lets it go.
ChoosePort(p) ==
    /\ launch[p].web # NoPort
    /\ Goes(p, "web", "binding")
    /\ \E port \in Candidates(p) :
          /\ \A x \in Candidates(p) : port <= x
          /\ chosen' = [chosen EXCEPT ![p] = port]
    /\ UNCHANGED <<listener, servers, outcome, vacated>>

\* The dashboard and the CLI go on without a web dashboard, nano-web ends.
WebFails(p, from, how) ==
    IF launch[p].program = "web"
    THEN phase[p] = from /\ Ends(p, how)
    ELSE Goes(p, from, "up") /\ Unserved

\* A slip: the search goes on until a port is free.
NoPortLeftYet(p) ==
    /\ phase[p] = "web" /\ launch[p].web # NoPort
    /\ Candidates(p) = {}
    /\ UNCHANGED vars

NoPortLeft(p) ==
    /\ launch[p].web # NoPort
    /\ Candidates(p) = {}
    /\ WebFails(p, "web", "no port")

BindWeb(p) ==
    /\ phase[p] = "binding"
    /\ \/ /\ Goes(p, "binding", "up")
          /\ Bind(p, chosen[p])
          /\ web' = [web EXCEPT ![p] = chosen[p]]
          /\ UNCHANGED <<active, hand, chosen, outcome>>
       \/ ~Free(chosen[p]) /\ WebFails(p, "binding", "traceback")

-----------------------------------------------------------------------------
(* Afterwards                                                              *)

\* A slip: the server is closed and still counts as running.
Ec2ServerStopInPart(p) ==
    /\ phase[p] = "up"
    /\ launch[p].program \in {"dashboard", "cli"}
    /\ active[p] # NoPort
    /\ Release({active[p]})
    /\ UNCHANGED <<phase, launch, servers, chosen, outcome>>

\* ec2.server stop.
Ec2ServerStop(p) ==
    /\ phase[p] = "up"
    /\ launch[p].program \in {"dashboard", "cli"}
    /\ active[p] # NoPort
    /\ Release({active[p]})
    /\ active' = [active EXCEPT ![p] = NoPort]
    /\ UNCHANGED <<phase, launch, hand, web, chosen, outcome>>

\* ec2.server start; on a taken port an error is shown and nothing happens.
Ec2ServerStart(p) ==
    /\ phase[p] = "up"
    /\ launch[p].program \in {"dashboard", "cli"}
    /\ active[p] = NoPort
    /\ StartsReceiver(p, ReceiverPort)
    /\ UNCHANGED <<phase, launch>>

\* The user leaves the program, a second daemon is refused, an agent has pushed
\* once, or the process is killed.
Quit(p) == phase[p] # "gone" /\ Ends(p, "ended")

OtherTakes(port) ==
    /\ Bind(Other, port)
    /\ UNCHANGED <<phase, launch, servers, chosen, outcome>>

OtherLeaves(port) ==
    /\ listener[port] = Other
    /\ Release({port})
    /\ UNCHANGED <<phase, launch, servers, chosen, outcome>>

-----------------------------------------------------------------------------
StartUp(p) ==
    \/ Import(p) \/ HasItsReceiver(p) \/ GetsReceiver(p) \/ GetsNoReceiver(p)
    \/ RunsByHand(p) \/ Probe(p)
    \/ NoWeb(p) \/ ChoosePort(p) \/ NoPortLeft(p) \/ BindWeb(p)

Next ==
    \/ \E p \in Process :
          Start(p) \/ StartUp(p) \/ Ec2ServerStop(p) \/ Ec2ServerStart(p) \/ Quit(p)
    \/ \E port \in Port : OtherTakes(port) \/ OtherLeaves(port)

\* A program that was started goes on with its start-up.
Fairness == \A p \in Process : WF_vars(StartUp(p))

Spec == Init /\ [][Next]_vars /\ Fairness
-----------------------------------------------------------------------------
(* Properties                                                              *)

\* A server that a process knows as running has its port, and a port that a
\* process has belongs to a server it knows, and so can stop: no start, stop or
\* lost race leaves one behind.
ServersListen ==
    /\ \A p \in Process :
          \A x \in {active[p], hand[p], web[p]} \ {NoPort} : listener[x] = p
    /\ \A x \in Port, p \in Process : listener[x] = p => x \in {active[p], hand[p], web[p]}

\* The receiver is "auto-started when the EC2 plugin loads": once a program has
\* come past the import, the default port is idle only if it was given back.
FirstComerServes ==
    Free(ReceiverPort) /\ ~vacated =>
        \A p \in Process : phase[p] \in {"gone", "importing"}

\* What makes them inductive: no port is two servers', and a process has only
\* the servers that it has come to start.
ServersOf(p) ==
    /\ active[p] = NoPort \/ active[p] \notin {hand[p], web[p]}
    /\ hand[p] = NoPort \/ hand[p] # web[p]
    /\ phase[p] = "gone" <=> launch[p] = NoLaunch
    /\ phase[p] \in {"gone", "importing"} => active[p] = NoPort
    /\ phase[p] # "up" => hand[p] = NoPort /\ web[p] = NoPort
    /\ phase[p] = "binding" => chosen[p] # NoPort
    /\ launch[p].program = "receiver" => active[p] \in {NoPort, ReceiverPort}

IInv ==
    /\ TypeOK
    /\ ServersListen
    /\ FirstComerServes
    /\ \A p \in Process : ServersOf(p)

\* A receiver that was asked for another port than the default one says that
\* one is active there only if it is not its own.
AnotherIsActive ==
    [][\A p \in Process :
          outcome'[p] = "already active" /\ outcome[p] # "already active"
                /\ launch[p].receiver # ReceiverPort
              => listener[launch[p].receiver] # p]_vars

\* No program waits for a port: every start-up comes to an end.
StartUpEnds ==
    \A p \in Process : phase[p] \notin {"gone", "up"} ~> phase[p] \in {"gone", "up"}

\* The receiver is "auto-started when the EC2 plugin loads, or run by hand", and
\* one that is run by hand leaves its port alone only to one that goes on
\* running: main asks the server it finds there for its health.
RunByHandLeavesAReceiver ==
    [][\A p \in Process :
          outcome'[p] = "already active" /\ outcome[p] # "already active"
              => listener'[launch[p].receiver] # Nobody]_vars
=============================================================================
