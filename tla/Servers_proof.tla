---------------------------- MODULE Servers_proof ----------------------------
(***************************************************************************)
(* Proofs about Servers for any processes, ports and ways to be started:   *)
(* the ports are the known servers' ports, the first to come serves, and   *)
(* who is told of an active receiver elsewhere is told of another's.       *)
(***************************************************************************)
EXTENDS Servers, TLAPS

-----------------------------------------------------------------------------
\* NoPort is none of the ports.
LEMMA PortProperties == Port \subseteq Nat /\ NoPort \notin Port /\ ReceiverPort \in Port
BY PortAssumption DEF Port, NoPort

\* Only processes have ports besides Nobody and Other.
LEMMA OwnerProperties ==
    /\ Nobody # Other
    /\ \A p \in Process : p # Nobody /\ p # Other
BY OwnerAssumption

\* What is not started is not a way to be started.
LEMMA NoLaunchProperties ==
    /\ NoLaunch \notin Launch
    /\ NoLaunch.program = "none"
    /\ \A l \in Launch : /\ l.program \in Program
                         /\ l.receiver \in Port \cup {NoPort}
                         /\ l.web \in Port \cup {NoPort}
                         /\ l.program = "receiver" => l.receiver # NoPort
<1>1. NoLaunch.program = "none"
  BY DEF NoLaunch
<1>2. \A l \in Launch : /\ l.program \in Program
                        /\ l.receiver \in Port \cup {NoPort}
                        /\ l.web \in Port \cup {NoPort}
                        /\ l.program = "receiver" => l.receiver # NoPort
  BY LaunchAssumption
<1>3. "none" \notin Program
  BY DEF Program
<1> QED
  BY <1>1, <1>2, <1>3

LEMMA InitIInv == Init => IInv
<1> SUFFICES ASSUME Init PROVE IInv
  OBVIOUS
<1>1. TypeOK
  BY DEF Init, TypeOK, Phases, Outcomes
<1>2. ServersListen
  BY OwnerProperties DEF Init, ServersListen
<1>3. FirstComerServes
  BY DEF Init, FirstComerServes
<1>4. \A p \in Process : ServersOf(p)
  BY NoLaunchProperties DEF Init, ServersOf
<1> QED
  BY <1>1, <1>2, <1>3, <1>4 DEF IInv

-----------------------------------------------------------------------------
(* What the steps do to the invariant                                      *)

\* A step of the start-up that neither takes nor gives back a port.
LEMMA UnservedKeeps ==
    ASSUME IInv, NEW p \in Process, NEW from \in Phases, NEW to \in Phases,
           Goes(p, from, to), Unserved,
           from \notin {"gone", "up"}, to \notin {"gone", "importing", "binding"},
           from = "importing" => ~Free(ReceiverPort)
    PROVE  IInv'
<1> USE DEF IInv
<1>1. /\ UNCHANGED <<listener, launch, active, hand, web, chosen, outcome, vacated>>
      /\ phase[p] = from
      /\ phase' = [phase EXCEPT ![p] = to]
  BY DEF Goes, Unserved, servers
<1>2. phase \in [Process -> Phases] /\ phase' \in [Process -> Phases] /\ phase'[p] = to
  BY <1>1 DEF TypeOK
<1>3. TypeOK'
  BY <1>1, <1>2 DEF TypeOK
<1>4. ServersListen'
  BY <1>1 DEF ServersListen
<1>5. FirstComerServes'
  BY <1>1, <1>2 DEF FirstComerServes, Free
<1>6. ASSUME NEW q \in Process
      PROVE  ServersOf(q)'
  BY <1>1, <1>2 DEF ServersOf
<1> QED
  BY <1>3, <1>4, <1>5, <1>6

\* Taking a port: the listener, the mark of the default port.
LEMMA BindProperties ==
    ASSUME IInv, NEW p \in Process \cup {Other}, NEW port \in Port, Bind(p, port)
    PROVE  /\ listener' \in [Port -> Process \cup {Nobody, Other}]
           /\ vacated' \in BOOLEAN
           /\ \A x \in Port : listener'[x] = IF x = port THEN p ELSE listener[x]
           /\ FirstComerServes \/ vacated
           /\ Free(ReceiverPort)' /\ ~vacated' => Free(ReceiverPort) /\ ~vacated
           /\ \A q \in Process : port \notin {active[q], hand[q], web[q]}
<1> USE DEF IInv
<1>1. listener \in [Port -> Process \cup {Nobody, Other}] /\ vacated \in BOOLEAN
  BY DEF TypeOK
<1>2. /\ listener[port] = Nobody
      /\ listener' = [listener EXCEPT ![port] = p]
      /\ vacated' = IF port = ReceiverPort THEN FALSE ELSE vacated
  BY DEF Bind, Free
<1>3. \A x \in Port : listener'[x] = IF x = port THEN p ELSE listener[x]
  BY <1>1, <1>2
<1>4. Free(ReceiverPort)' /\ ~vacated' => Free(ReceiverPort) /\ ~vacated
  BY <1>2, <1>3, PortProperties, OwnerProperties DEF Free
<1>5. \A q \in Process : port \notin {active[q], hand[q], web[q]}
  BY <1>2, PortProperties, OwnerProperties DEF ServersListen
<1> QED
  BY <1>1, <1>2, <1>3, <1>4, <1>5

\* Giving ports back.
LEMMA ReleaseProperties ==
    ASSUME IInv, NEW ports \in SUBSET Port, Release(ports)
    PROVE  /\ listener' \in [Port -> Process \cup {Nobody, Other}]
           /\ vacated' \in BOOLEAN
           /\ \A x \in Port : listener'[x] = IF x \in ports THEN Nobody ELSE listener[x]
           /\ Free(ReceiverPort)' /\ ~vacated' => Free(ReceiverPort) /\ ~vacated
<1> USE DEF IInv
<1>1. listener \in [Port -> Process \cup {Nobody, Other}] /\ vacated \in BOOLEAN
  BY DEF TypeOK
<1>2. /\ listener' = [x \in Port |-> IF x \in ports THEN Nobody ELSE listener[x]]
      /\ vacated' = (vacated \/ ReceiverPort \in ports)
  BY DEF Release
<1> QED
  BY <1>1, <1>2, PortProperties DEF Free

\* A process that has none starts a receiver.
LEMMA StartsReceiverKeeps ==
    ASSUME IInv, NEW p \in Process, NEW port \in Port, NEW to \in Phases,
           StartsReceiver(p, port), active[p] = NoPort, phase[p] # "gone",
           phase' = [phase EXCEPT ![p] = to], launch' = launch,
           to \notin {"gone", "importing", "binding"},
           phase[p] = "up" => to = "up",
           launch[p].program = "receiver" => port = ReceiverPort,
           phase[p] = "importing" => port = ReceiverPort
    PROVE  IInv'
<1> USE DEF IInv
<1>1. /\ Bind(p, port)
      /\ active' = [active EXCEPT ![p] = port]
      /\ UNCHANGED <<hand, web, chosen, outcome>>
  BY DEF StartsReceiver
<1>2. /\ listener' \in [Port -> Process \cup {Nobody, Other}]
      /\ vacated' \in BOOLEAN
      /\ \A x \in Port : listener'[x] = IF x = port THEN p ELSE listener[x]
      /\ Free(ReceiverPort)' /\ ~vacated' => Free(ReceiverPort) /\ ~vacated
      /\ \A q \in Process : port \notin {active[q], hand[q], web[q]}
  BY <1>1, BindProperties
<1>3. /\ active \in [Process -> Port \cup {NoPort}] /\ phase \in [Process -> Phases]
      /\ \A q \in Process : active'[q] = IF q = p THEN port ELSE active[q]
      /\ \A q \in Process : phase'[q] = IF q = p THEN to ELSE phase[q]
  BY <1>1 DEF TypeOK
<1>4. TypeOK'
  BY <1>1, <1>2 DEF TypeOK
<1>5. ServersListen'
  BY <1>1, <1>2, <1>3, PortProperties DEF ServersListen, TypeOK
<1>6. FirstComerServes'
  <2>1. CASE port = ReceiverPort
    BY <1>2, <2>1, OwnerProperties DEF FirstComerServes, Free
  <2>2. CASE port # ReceiverPort
    BY <1>2, <1>3, <2>2 DEF FirstComerServes
  <2> QED
    BY <2>1, <2>2
<1>7. ASSUME NEW q \in Process
      PROVE  ServersOf(q)'
  BY <1>1, <1>2, <1>3, PortProperties DEF ServersOf
<1> QED
  BY <1>4, <1>5, <1>6, <1>7

\* A process ends.
LEMMA EndsKeeps ==
    ASSUME IInv, NEW p \in Process, NEW how \in Outcomes, Ends(p, how)
    PROVE  IInv'
<1> USE DEF IInv
<1> DEFINE ports == {x \in Port : listener[x] = p}
<1>1. /\ Release(ports)
      /\ phase' = [phase EXCEPT ![p] = "gone"]
      /\ launch' = [launch EXCEPT ![p] = NoLaunch]
      /\ active' = [active EXCEPT ![p] = NoPort]
      /\ hand' = [hand EXCEPT ![p] = NoPort]
      /\ web' = [web EXCEPT ![p] = NoPort]
      /\ chosen' = [chosen EXCEPT ![p] = NoPort]
      /\ outcome' = [outcome EXCEPT ![p] = how]
  BY DEF Ends
<1>2. /\ listener' \in [Port -> Process \cup {Nobody, Other}]
      /\ vacated' \in BOOLEAN
      /\ \A x \in Port : listener'[x] = IF listener[x] = p THEN Nobody ELSE listener[x]
      /\ Free(ReceiverPort)' /\ ~vacated' => Free(ReceiverPort) /\ ~vacated
  BY <1>1, ReleaseProperties
<1>3. \A q \in Process :
         /\ phase'[q] = IF q = p THEN "gone" ELSE phase[q]
         /\ launch'[q] = IF q = p THEN NoLaunch ELSE launch[q]
         /\ active'[q] = IF q = p THEN NoPort ELSE active[q]
         /\ hand'[q] = IF q = p THEN NoPort ELSE hand[q]
         /\ web'[q] = IF q = p THEN NoPort ELSE web[q]
         /\ chosen'[q] = IF q = p THEN NoPort ELSE chosen[q]
  BY <1>1 DEF TypeOK
<1>4. TypeOK'
  BY <1>1, <1>2 DEF TypeOK, Phases
<1>5. ServersListen'
  <2>1. ASSUME NEW q \in Process, NEW x \in {active'[q], hand'[q], web'[q]} \ {NoPort}
        PROVE  listener'[x] = q
    <3>1. q # p /\ x \in {active[q], hand[q], web[q]} \ {NoPort}
      BY <1>3, <2>1
    <3>2. listener[x] = q /\ x \in Port
      BY <3>1 DEF ServersListen, TypeOK
    <3> QED
      BY <1>2, <3>1, <3>2
  <2>2. ASSUME NEW x \in Port, NEW q \in Process, listener'[x] = q
        PROVE  x \in {active'[q], hand'[q], web'[q]}
    <3>1. listener[x] = q /\ q # p
      BY <1>2, <2>2, OwnerProperties
    <3> QED
      BY <1>3, <3>1 DEF ServersListen
  <2> QED
    BY <2>1, <2>2 DEF ServersListen
<1>6. FirstComerServes'
  BY <1>2, <1>3 DEF FirstComerServes
<1>7. ASSUME NEW q \in Process
      PROVE  ServersOf(q)'
  BY <1>3, NoLaunchProperties DEF ServersOf
<1> QED
  BY <1>4, <1>5, <1>6, <1>7

\* A process takes a port for a server that it makes itself: receiver.main's, or
\* a web dashboard's.
LEMMA ServesKeeps ==
    ASSUME IInv, NEW p \in Process, NEW port \in Port, Bind(p, port),
           phase[p] \notin {"gone", "importing", "up"},
           phase' = [phase EXCEPT ![p] = "up"], launch' = launch,
           UNCHANGED <<active, chosen, outcome>>,
           \/ hand' = [hand EXCEPT ![p] = port] /\ web' = web
           \/ web' = [web EXCEPT ![p] = port] /\ hand' = hand
    PROVE  IInv'
<1> USE DEF IInv
<1>1. /\ listener' \in [Port -> Process \cup {Nobody, Other}]
      /\ vacated' \in BOOLEAN
      /\ \A x \in Port : listener'[x] = IF x = port THEN p ELSE listener[x]
      /\ Free(ReceiverPort)' /\ ~vacated' => Free(ReceiverPort) /\ ~vacated
      /\ \A q \in Process : port \notin {active[q], hand[q], web[q]}
  BY BindProperties
<1>2. \A q \in Process : phase'[q] = IF q = p THEN "up" ELSE phase[q]
  BY DEF TypeOK
<1>3. TypeOK'
  BY <1>1 DEF TypeOK, Phases
<1>4. hand[p] = NoPort /\ web[p] = NoPort
  BY DEF ServersOf
<1>5. \/ /\ \A q \in Process : hand'[q] = IF q = p THEN port ELSE hand[q]
         /\ web' = web
      \/ /\ \A q \in Process : web'[q] = IF q = p THEN port ELSE web[q]
         /\ hand' = hand
  BY DEF TypeOK
<1>6. ServersListen'
  BY <1>1, <1>4, <1>5, PortProperties DEF ServersListen, TypeOK
<1>7. FirstComerServes'
  BY <1>1, <1>2 DEF FirstComerServes
<1>8. ASSUME NEW q \in Process
      PROVE  ServersOf(q)'
  BY <1>1, <1>2, <1>4, <1>5, PortProperties DEF ServersOf
<1> QED
  BY <1>3, <1>6, <1>7, <1>8

\* Each step of the start-up keeps the invariant.
LEMMA StartUpKeeps ==
    ASSUME IInv, NEW p \in Process, StartUp(p)
    PROVE  IInv'
<1> USE DEF IInv
<1>1. /\ launch[p] \in Launch \cup {NoLaunch}
      /\ phase[p] = "gone" <=> launch[p] = NoLaunch
  BY DEF TypeOK, ServersOf
<1>2. CASE Import(p)
  <2>1. CASE Free(ReceiverPort)
    <3>1. /\ StartsReceiver(p, ReceiverPort) /\ phase[p] = "importing"
          /\ phase' = [phase EXCEPT ![p] = "receiver"] /\ launch' = launch
      BY <1>2, <2>1 DEF Import, Goes
    <3>2. active[p] = NoPort
      BY <3>1 DEF ServersOf
    <3> QED
      BY <3>1, <3>2, PortProperties, StartsReceiverKeeps DEF Phases
  <2>2. CASE ~Free(ReceiverPort)
    BY <1>2, <2>2, UnservedKeeps DEF Import, Phases
  <2> QED
    BY <2>1, <2>2
<1>3. CASE HasItsReceiver(p)
  BY <1>3, UnservedKeeps DEF HasItsReceiver, Phases
<1>4. CASE GetsReceiver(p)
  <2>1. /\ StartsReceiver(p, launch[p].receiver) /\ phase[p] = "receiver"
        /\ phase' = [phase EXCEPT ![p] = "web"] /\ launch' = launch
        /\ active[p] = NoPort /\ launch[p].receiver # NoPort
        /\ launch[p].program # "receiver"
    BY <1>4 DEF GetsReceiver, Goes
  <2>2. launch[p].receiver \in Port
    BY <1>1, <2>1, NoLaunchProperties
  <2> QED
    BY <2>1, <2>2, StartsReceiverKeeps DEF Phases
<1>5. CASE GetsNoReceiver(p)
  BY <1>5, UnservedKeeps, EndsKeeps DEF GetsNoReceiver, Phases, Outcomes
<1>6. CASE RunsByHand(p)
  <2>1. CASE /\ Goes(p, "receiver", "up")
             /\ Bind(p, launch[p].receiver)
             /\ hand' = [hand EXCEPT ![p] = launch[p].receiver]
             /\ UNCHANGED <<active, web, chosen, outcome>>
    <3>1. /\ phase[p] = "receiver"
          /\ phase' = [phase EXCEPT ![p] = "up"] /\ launch' = launch
      BY <2>1 DEF Goes
    <3>2. launch[p].receiver \in Port
      BY <1>1, <1>6, <3>1, NoLaunchProperties DEF RunsByHand
    <3> QED
      BY <2>1, <3>1, <3>2, ServesKeeps
  <2>2. CASE Goes(p, "receiver", "probing") /\ Unserved
    BY <2>2, UnservedKeeps DEF Phases
  <2> QED
    BY <1>6, <2>1, <2>2 DEF RunsByHand
<1>7. CASE Probe(p)
  <2>1. \/ Goes(p, "probing", "web") /\ Unserved
        \/ \E how \in Outcomes : Ends(p, how)
    BY <1>7 DEF Probe, Outcomes
  <2> QED
    BY <2>1, UnservedKeeps, EndsKeeps DEF Phases
<1>8. CASE NoWeb(p)
  BY <1>8, UnservedKeeps DEF NoWeb, Phases
<1>9. CASE ChoosePort(p)
  <2>1. PICK port \in Port : chosen' = [chosen EXCEPT ![p] = port]
    BY <1>9 DEF ChoosePort, Candidates
  <2>2. /\ phase[p] = "web" /\ phase' = [phase EXCEPT ![p] = "binding"]
        /\ UNCHANGED <<launch, listener, active, hand, web, outcome, vacated>>
    BY <1>9 DEF ChoosePort, Goes, servers
  <2>3. \A q \in Process : /\ phase'[q] = IF q = p THEN "binding" ELSE phase[q]
                           /\ chosen'[q] = IF q = p THEN port ELSE chosen[q]
    BY <2>1, <2>2 DEF TypeOK
  <2>4. TypeOK'
    BY <2>1, <2>2 DEF TypeOK, Phases
  <2>5. ServersListen'
    BY <2>2 DEF ServersListen
  <2>6. FirstComerServes'
    BY <2>2, <2>3 DEF FirstComerServes, Free
  <2>7. ASSUME NEW q \in Process
        PROVE  ServersOf(q)'
    BY <2>2, <2>3, PortProperties DEF ServersOf
  <2> QED
    BY <2>4, <2>5, <2>6, <2>7
<1>10. CASE NoPortLeft(p)
  BY <1>10, UnservedKeeps, EndsKeeps DEF NoPortLeft, WebFails, Phases, Outcomes
<1>11. CASE BindWeb(p)
  <2>1. CASE /\ Goes(p, "binding", "up")
             /\ Bind(p, chosen[p])
             /\ web' = [web EXCEPT ![p] = chosen[p]]
             /\ UNCHANGED <<active, hand, chosen, outcome>>
    <3>1. /\ phase[p] = "binding"
          /\ phase' = [phase EXCEPT ![p] = "up"] /\ launch' = launch
      BY <2>1 DEF Goes
    <3>2. chosen[p] \in Port
      BY <3>1 DEF ServersOf, TypeOK
    <3> QED
      BY <2>1, <3>1, <3>2, ServesKeeps
  <2>2. CASE WebFails(p, "binding", "traceback")
    BY <2>2, UnservedKeeps, EndsKeeps DEF WebFails, Phases, Outcomes
  <2> QED
    BY <1>11, <2>1, <2>2 DEF BindWeb
<1> QED
  BY <1>2, <1>3, <1>4, <1>5, <1>6, <1>7, <1>8, <1>9, <1>10, <1>11 DEF StartUp

-----------------------------------------------------------------------------
\* Another program takes a free port.
LEMMA OtherTakesKeeps ==
    ASSUME IInv, NEW port \in Port, OtherTakes(port)
    PROVE  IInv'
<1> USE DEF IInv
<1>1. Bind(Other, port) /\ UNCHANGED <<phase, launch, active, hand, web, chosen, outcome>>
  BY DEF OtherTakes, servers
<1>2. /\ listener' \in [Port -> Process \cup {Nobody, Other}]
      /\ vacated' \in BOOLEAN
      /\ \A x \in Port : listener'[x] = IF x = port THEN Other ELSE listener[x]
      /\ Free(ReceiverPort)' /\ ~vacated' => Free(ReceiverPort) /\ ~vacated
      /\ \A q \in Process : port \notin {active[q], hand[q], web[q]}
  BY <1>1, BindProperties
<1>3. TypeOK'
  BY <1>1, <1>2 DEF TypeOK
<1>4. ServersListen'
  BY <1>1, <1>2, OwnerProperties DEF ServersListen, TypeOK
<1>5. FirstComerServes'
  BY <1>1, <1>2 DEF FirstComerServes
<1>6. \A q \in Process : ServersOf(q)'
  BY <1>1 DEF ServersOf
<1> QED
  BY <1>3, <1>4, <1>5, <1>6

\* A port is given back that no server of ours has any more.
LEMMA FreedKeeps ==
    ASSUME IInv, NEW port \in Port, Release({port}),
           UNCHANGED <<phase, launch, hand, web, chosen, outcome>>,
           active' \in [Process -> Port \cup {NoPort}],
           \A q \in Process : \/ active'[q] = active[q] /\ listener[port] # q
                             \/ /\ active[q] = port /\ active'[q] = NoPort
                                /\ listener[port] = q
    PROVE  IInv'
<1> USE DEF IInv
<1>1. /\ listener' \in [Port -> Process \cup {Nobody, Other}]
      /\ vacated' \in BOOLEAN
      /\ \A x \in Port : listener'[x] = IF x = port THEN Nobody ELSE listener[x]
      /\ Free(ReceiverPort)' /\ ~vacated' => Free(ReceiverPort) /\ ~vacated
  BY ReleaseProperties
<1>2. TypeOK'
  BY <1>1 DEF TypeOK
<1>3. ServersListen'
  <2>1. ASSUME NEW q \in Process, NEW x \in {active'[q], hand'[q], web'[q]} \ {NoPort}
        PROVE  listener'[x] = q
    <3>1. x \in {active[q], hand[q], web[q]} /\ x \in Port
      BY <2>1 DEF TypeOK
    <3>2. listener[x] = q
      BY <2>1, <3>1 DEF ServersListen
    <3>3. x # port
      BY <2>1, <3>2 DEF ServersOf
    <3> QED
      BY <1>1, <3>1, <3>2, <3>3
  <2>2. ASSUME NEW x \in Port, NEW q \in Process, listener'[x] = q
        PROVE  x \in {active'[q], hand'[q], web'[q]}
    <3>1. listener[x] = q /\ x # port
      BY <1>1, <2>2, OwnerProperties
    <3> QED
      BY <3>1 DEF ServersListen
  <2> QED
    BY <2>1, <2>2 DEF ServersListen
<1>4. FirstComerServes'
  BY <1>1 DEF FirstComerServes
<1>5. \A q \in Process : ServersOf(q)'
  BY DEF ServersOf
<1> QED
  BY <1>2, <1>3, <1>4, <1>5

LEMMA OtherLeavesKeeps ==
    ASSUME IInv, NEW port \in Port, OtherLeaves(port)
    PROVE  IInv'
<1>1. /\ Release({port}) /\ listener[port] = Other
      /\ UNCHANGED <<phase, launch, active, hand, web, chosen, outcome>>
  BY DEF OtherLeaves, servers
<1>2. active' \in [Process -> Port \cup {NoPort}]
  BY <1>1 DEF IInv, TypeOK
<1> QED
  BY <1>1, <1>2, FreedKeeps, OwnerProperties

LEMMA Ec2ServerStopKeeps ==
    ASSUME IInv, NEW p \in Process, Ec2ServerStop(p)
    PROVE  IInv'
<1>1. /\ Release({active[p]}) /\ active[p] # NoPort
      /\ active' = [active EXCEPT ![p] = NoPort]
      /\ UNCHANGED <<phase, launch, hand, web, chosen, outcome>>
  BY DEF Ec2ServerStop
<1>2. active \in [Process -> Port \cup {NoPort}] /\ active[p] \in Port
  BY <1>1 DEF IInv, TypeOK
<1>3. active' \in [Process -> Port \cup {NoPort}]
  BY <1>1, <1>2
<1>4. listener[active[p]] = p
  BY <1>1, <1>2 DEF IInv, ServersListen
<1>5. \A q \in Process : active'[q] = IF q = p THEN NoPort ELSE active[q]
  BY <1>1, <1>2
<1>6. \A q \in Process :
          \/ active'[q] = active[q] /\ listener[active[p]] # q
          \/ /\ active[q] = active[p] /\ active'[q] = NoPort
             /\ listener[active[p]] = q
  BY <1>4, <1>5
<1> QED
  BY <1>1, <1>2, <1>3, <1>6, FreedKeeps

\* A program is started.
LEMMA StartKeeps ==
    ASSUME IInv, NEW p \in Process, Start(p)
    PROVE  IInv'
<1> USE DEF IInv
<1>1. PICK l \in Launch : launch' = [launch EXCEPT ![p] = l]
  BY DEF Start
<1>2. /\ phase[p] = "gone" /\ phase' = [phase EXCEPT ![p] = "importing"]
      /\ outcome' = [outcome EXCEPT ![p] = "none"]
      /\ UNCHANGED <<listener, active, hand, web, chosen, vacated>>
  BY DEF Start, servers
<1>3. \A q \in Process : /\ phase'[q] = IF q = p THEN "importing" ELSE phase[q]
                         /\ launch'[q] = IF q = p THEN l ELSE launch[q]
  BY <1>1, <1>2 DEF TypeOK
<1>4. TypeOK'
  BY <1>1, <1>2 DEF TypeOK, Phases, Outcomes
<1>5. ServersListen'
  BY <1>2 DEF ServersListen
<1>6. FirstComerServes'
  BY <1>2, <1>3 DEF FirstComerServes, Free
<1>7. ASSUME NEW q \in Process
      PROVE  ServersOf(q)'
  BY <1>2, <1>3, NoLaunchProperties DEF ServersOf
<1> QED
  BY <1>4, <1>5, <1>6, <1>7

LEMMA NextKeeps == IInv /\ [Next]_vars => IInv'
<1> SUFFICES ASSUME IInv, [Next]_vars PROVE IInv'
  OBVIOUS
<1>1. CASE \E p \in Process : StartUp(p)
  BY <1>1, StartUpKeeps
<1>2. CASE \E p \in Process : Start(p)
  BY <1>2, StartKeeps
<1>3. CASE \E p \in Process : Ec2ServerStop(p)
  BY <1>3, Ec2ServerStopKeeps
<1>4. CASE \E p \in Process : Ec2ServerStart(p)
  <2>1. PICK p \in Process : Ec2ServerStart(p)
    BY <1>4
  <2>2. /\ StartsReceiver(p, ReceiverPort) /\ active[p] = NoPort
        /\ phase[p] = "up" /\ phase' = phase /\ launch' = launch
    BY <2>1 DEF Ec2ServerStart
  <2>3. phase \in [Process -> Phases]
    BY DEF IInv, TypeOK
  <2>4. phase' = [phase EXCEPT ![p] = "up"]
    BY <2>2, <2>3
  <2> QED
    BY <2>2, <2>4, PortProperties, StartsReceiverKeeps DEF Phases
<1>5. CASE \E p \in Process : Quit(p)
  BY <1>5, EndsKeeps DEF Quit, Outcomes
<1>6. CASE \E port \in Port : OtherTakes(port) \/ OtherLeaves(port)
  BY <1>6, OtherTakesKeeps, OtherLeavesKeeps
<1>7. CASE UNCHANGED vars
  BY <1>7 DEF vars, servers, IInv, TypeOK, ServersListen, FirstComerServes, ServersOf, Free
<1> QED
  BY <1>1, <1>2, <1>3, <1>4, <1>5, <1>6, <1>7 DEF Next

-----------------------------------------------------------------------------
\* The known servers have their ports, nobody has a port besides, and what each
\* process has is what it has come to start.
THEOREM Inductive == Spec => []IInv
BY InitIInv, NextKeeps, PTL DEF Spec

\* Every listening port belongs to a server that its process knows, and every
\* known server listens.
THEOREM PortsAreAccountedFor == Spec => []ServersListen
<1>1. IInv => ServersListen
  BY DEF IInv
<1> QED
  BY <1>1, Inductive, PTL

\* Once a program has come past the import, the default port is idle only if it
\* was given back.
THEOREM SomebodyServes == Spec => []FirstComerServes
<1>1. IInv => FirstComerServes
  BY DEF IInv
<1> QED
  BY <1>1, Inductive, PTL

\* A receiver for another port than the default one that is told of an active
\* one is not told of its own.
THEOREM AnotherAnswers == Spec => AnotherIsActive
<1> DEFINE Told ==
       \A p \in Process :
          outcome'[p] = "already active" /\ outcome[p] # "already active"
                /\ launch[p].receiver # ReceiverPort
              => listener[launch[p].receiver] # p
<1>1. ASSUME IInv, [Next]_vars, NEW p \in Process,
             outcome'[p] = "already active", outcome[p] # "already active",
             launch[p].receiver # ReceiverPort
      PROVE  listener[launch[p].receiver] # p
  <2> USE <1>1 DEF IInv
  <2>1. outcome \in [Process -> Outcomes]
    BY DEF TypeOK
  <2>2. ASSUME NEW q \in Process, NEW how, Ends(q, how), how # "already active"
        PROVE  FALSE
    BY <2>1, <2>2 DEF Ends
  <2>3. PICK q \in Process : Probe(q)
    <3>1. ASSUME NEW q \in Process, StartUp(q), ~Probe(q)
          PROVE  UNCHANGED outcome \/ Ends(q, "traceback") \/ Ends(q, "no port")
      BY <3>1 DEF StartUp, Import, HasItsReceiver, GetsReceiver, GetsNoReceiver, RunsByHand,
         NoWeb, ChoosePort, NoPortLeft, WebFails, BindWeb, Unserved, StartsReceiver
    <3>2. ASSUME NEW q \in Process, Start(q)
          PROVE  FALSE
      BY <2>1, <3>2 DEF Start
    <3>3. ASSUME NEW q \in Process, Quit(q)
          PROVE  FALSE
      BY <2>2, <3>3 DEF Quit
    <3>4. ASSUME NEW q \in Process, Ec2ServerStop(q) \/ Ec2ServerStart(q)
          PROVE  FALSE
      BY <3>4 DEF Ec2ServerStop, Ec2ServerStart, StartsReceiver
    <3>5. ASSUME NEW port \in Port, OtherTakes(port) \/ OtherLeaves(port)
          PROVE  FALSE
      BY <3>5 DEF OtherTakes, OtherLeaves
    <3>6. Next
      BY DEF vars
    <3> QED
      BY <2>2, <3>1, <3>2, <3>3, <3>4, <3>5, <3>6 DEF Next
  <2>4. /\ phase[q] = "probing" /\ launch[q].program = "receiver"
        /\ \E how \in Outcomes : Ends(q, how)
    BY <2>1, <2>3 DEF Probe, Unserved, Outcomes
  <2>5. q = p
    BY <2>1, <2>4 DEF Ends
  <2>6. hand[p] = NoPort /\ web[p] = NoPort /\ active[p] \in {NoPort, ReceiverPort}
    BY <2>4, <2>5 DEF ServersOf
  <2>7. launch[p] \in Launch /\ launch[p].receiver \in Port
    BY <2>4, <2>5, NoLaunchProperties DEF TypeOK, ServersOf
  <2>8. launch[p].receiver \notin {active[p], hand[p], web[p]}
    BY <2>6, <2>7, PortProperties
  <2> QED
    BY <2>7, <2>8 DEF ServersListen
<1>2. IInv /\ [Next]_vars => [Told]_vars
  BY <1>1
<1> QED
  BY <1>2, Inductive, PTL DEF Spec, AnotherIsActive
=============================================================================
