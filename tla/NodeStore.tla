------------------------------ MODULE NodeStore ------------------------------
(***************************************************************************)
(* What the processes of one machine know of the nodes whose agents push   *)
(* metrics to it.  The process that listens on the receiver's port (see    *)
(* Servers) ingests the pushes into its NodeStore.  The others, before     *)
(* they read their own store, ask it for a snapshot and write that over    *)
(* what they have (sync_from_receiver), whenever the answer comes.         *)
(*                                                                         *)
(* Time is relative: of every last_seen only the age is kept, up to one    *)
(* more than the age at which a node is online no more.                    *)
(***************************************************************************)
EXTENDS Naturals

CONSTANTS
    Process,          \* processes with a store
    Nobody,           \* no process
    Reader,           \* their threads that read it
    home,             \* the process of each
    Node,             \* nodes with an agent
    OnlineThreshold,  \* ONLINE_THRESHOLD
    Throttle,         \* seconds between two synchronisations
    Interval,         \* an agent's --interval
    PushTime          \* push_metrics's timeout

ASSUME ProcessAssumption == Nobody \notin Process /\ home \in [Reader -> Process]
ASSUME TimeAssumption ==
    /\ OnlineThreshold \in Nat /\ Throttle \in Nat /\ Interval \in Nat /\ PushTime \in Nat
    /\ 2 * (Interval + PushTime) <= OnlineThreshold

VARIABLES
    guarded,    \* NANO_AUTH_TOKEN is set
    owner,      \* the process whose receiver has the port
    byHand,     \* ... a receiver that get_active_server does not know
    store,      \* _nodes of each process
    sinceSync,  \* the age of its _last_sync_time
    phase,      \* how far each reader's synchronisation is
    answer,     \* the snapshot it has been sent
    agent,      \* what each agent does
    timer,      \* for how long it still sleeps, or waits for an answer at most
    \* the rest observes the behaviour
    heard,      \* the time since a receiver last ingested a push of the node
    taken,      \* the nodes that the present owner has ingested
    early,      \* readers that asked before their process became the owner
    spoilt,     \* nodes that an early reader has overwritten in the owner's store
    misses      \* pushes of each agent that failed since the last that did not

serving == <<guarded, owner, byHand, taken>>
readers == <<sinceSync, phase, answer, early>>
agents == <<agent, timer, misses>>
vars == <<serving, store, readers, agents, heard, spoilt>>

-----------------------------------------------------------------------------
\* An age above all ages that matter, and that of a node never heard of.
MaxAge == OnlineThreshold + 1
Never == MaxAge + 1
Age == 0..Never

\* newest: these are the metrics of the last push of the node that was ingested
\* by any receiver.
Entry == [age : Age, newest : BOOLEAN]
Absent == [age |-> Never, newest |-> FALSE]
Nodes == [Node -> Entry]
NoNodes == [n \in Node |-> Absent]

Older(age) == IF age < MaxAge THEN age + 1 ELSE age
Online(entry) == entry.age <= OnlineThreshold

TypeOK ==
    /\ guarded \in BOOLEAN /\ byHand \in BOOLEAN
    /\ owner \in Process \cup {Nobody}
    /\ store \in [Process -> Nodes]
    /\ sinceSync \in [Process -> 0..Throttle]
    /\ phase \in [Reader -> {"idle", "asked", "answered"}]
    /\ answer \in [Reader -> Nodes]
    /\ agent \in [Node -> {"off", "sleeping", "pushing"}]
    /\ timer \in [Node -> Nat]
    /\ heard \in [Node -> Age]
    /\ taken \in SUBSET Node /\ spoilt \in SUBSET Node
    /\ early \in SUBSET Reader
    /\ misses \in [Node -> 0..2]

Init ==
    /\ guarded \in BOOLEAN
    /\ owner = Nobody /\ byHand = FALSE
    /\ store = [p \in Process |-> NoNodes]
    /\ sinceSync = [p \in Process |-> Throttle]
    /\ phase = [r \in Reader |-> "idle"]
    /\ answer = [r \in Reader |-> NoNodes]
    /\ agent = [n \in Node |-> "off"]
    /\ timer = [n \in Node |-> 0]
    /\ heard = [n \in Node |-> Never]
    /\ taken = {} /\ spoilt = {} /\ early = {}
    /\ misses = [n \in Node |-> 2]

-----------------------------------------------------------------------------
(* The owner of the port                                                   *)

InFlight(p) == {r \in Reader : home[r] = p /\ phase[r] # "idle"}

\* get_or_start_receiver, or receiver.main in a process that has just begun.
StartServing(p) ==
    /\ owner = Nobody
    /\ owner' = p
    /\ byHand' \in {FALSE} \cup {store[p] = NoNodes /\ InFlight(p) = {}}
    /\ taken' = {} /\ spoilt' = {}
    /\ early' = early \cup InFlight(p)
    /\ UNCHANGED <<guarded, store, sinceSync, phase, answer, agents, heard>>

\* ec2.server stop.
StopServing(p) ==
    /\ owner = p /\ ~byHand
    /\ owner' = Nobody
    /\ taken' = {} /\ spoilt' = {}
    /\ early' = {r \in early : home[r] # p}
    /\ UNCHANGED <<guarded, byHand, store, sinceSync, phase, answer, agents, heard>>

\* A process ends, and with it its store and its threads; another may begin.
ProcessEnds(p) ==
    /\ store' = [store EXCEPT ![p] = NoNodes]
    /\ sinceSync' = [sinceSync EXCEPT ![p] = Throttle]
    /\ phase' = [r \in Reader |-> IF home[r] = p THEN "idle" ELSE phase[r]]
    /\ answer' = [r \in Reader |-> IF home[r] = p THEN NoNodes ELSE answer[r]]
    /\ early' = {r \in early : home[r] # p}
    /\ IF owner = p
       THEN owner' = Nobody /\ byHand' = FALSE /\ taken' = {} /\ spoilt' = {}
       ELSE UNCHANGED <<owner, byHand, taken, spoilt>>
    /\ UNCHANGED <<guarded, agents, heard>>

-----------------------------------------------------------------------------
(* Agents                                                                  *)

AgentStarts(n) ==
    /\ agent[n] = "off"
    /\ agent' = [agent EXCEPT ![n] = "sleeping"]
    /\ timer' = [timer EXCEPT ![n] = 0]
    /\ UNCHANGED <<serving, store, readers, misses, heard, spoilt>>

AgentStops(n) ==
    /\ agent[n] # "off"
    /\ agent' = [agent EXCEPT ![n] = "off"]
    /\ timer' = [timer EXCEPT ![n] = 0]
    /\ misses' = [misses EXCEPT ![n] = 2]
    /\ UNCHANGED <<serving, store, readers, heard, spoilt>>

BeginPush(n) ==
    /\ agent[n] = "sleeping" /\ timer[n] = 0
    /\ agent' = [agent EXCEPT ![n] = "pushing"]
    /\ timer' = [timer EXCEPT ![n] = PushTime]
    /\ UNCHANGED <<serving, store, readers, misses, heard, spoilt>>

Outdated(nodes, n) == [nodes EXCEPT ![n].newest = FALSE]

\* update_node in the owner's store.
UpdateNode(n) ==
    /\ owner # Nobody
    /\ store' = [p \in Process |->
                    IF p = owner THEN [store[p] EXCEPT ![n] = [age |-> 0, newest |-> TRUE]]
                    ELSE Outdated(store[p], n)]
    /\ answer' = [r \in Reader |-> Outdated(answer[r], n)]
    /\ heard' = [heard EXCEPT ![n] = 0]
    /\ taken' = taken \cup {n}
    /\ spoilt' = spoilt \ {n}

Sleeps(n, time) ==
    /\ agent[n] = "pushing"
    /\ agent' = [agent EXCEPT ![n] = "sleeping"]
    /\ timer' = [timer EXCEPT ![n] = time]

\* The receiver has answered with 200.
Push(n) ==
    /\ Sleeps(n, Interval)
    /\ UpdateNode(n)
    /\ misses' = [misses EXCEPT ![n] = 0]
    /\ UNCHANGED <<guarded, owner, byHand, sinceSync, phase, early>>

Missed(n) == misses' = [misses EXCEPT ![n] = IF @ = 0 THEN 1 ELSE 2]

\* A slip: the longer wait of an agent that backs off.
PushFailsAndWaits(n) ==
    /\ Sleeps(n, 2 * Interval)
    /\ Missed(n)
    /\ UNCHANGED <<serving, store, readers, heard, spoilt>>

\* Refused, lost, or too late.
PushFails(n) ==
    /\ Sleeps(n, Interval)
    /\ Missed(n)
    /\ UNCHANGED <<serving, store, readers, heard, spoilt>>

\* The push has been ingested, and its answer is lost.
AnswerLost(n) ==
    /\ Sleeps(n, Interval)
    /\ UpdateNode(n)
    /\ Missed(n)
    /\ UNCHANGED <<guarded, owner, byHand, sinceSync, phase, early>>

-----------------------------------------------------------------------------
(* sync_from_receiver                                                      *)

\* get_active_server finds one that is running.
Active(p) == owner = p /\ ~byHand

\* A slip: the owner synchronises like everybody else.
AskAnybody(r) ==
    /\ phase[r] = "idle"
    /\ phase' = [phase EXCEPT ![r] = "asked"]
    /\ sinceSync' = [sinceSync EXCEPT ![home[r]] = 0]
    /\ UNCHANGED <<serving, store, answer, early, agents, heard, spoilt>>

\* The time is stamped before the request is sent.
Ask(r) ==
    /\ phase[r] = "idle"
    /\ ~Active(home[r])
    /\ phase' = [phase EXCEPT ![r] = "asked"]
    /\ sinceSync' = [sinceSync EXCEPT ![home[r]] = 0]
    /\ UNCHANGED <<serving, store, answer, early, agents, heard, spoilt>>

\* Every read of the store.
AskUnlessRecent(r) == sinceSync[home[r]] >= Throttle /\ Ask(r)

\* ec2.list, ec2.metrics and ec2.info, with force.
AskAnyway(r) == sinceSync[home[r]] < Throttle /\ Ask(r)

\* do_GET of the owner, which with a token answers 401: the request has none.
Answer(r) ==
    /\ phase[r] = "asked"
    /\ owner # Nobody /\ ~guarded
    /\ phase' = [phase EXCEPT ![r] = "answered"]
    /\ answer' = [answer EXCEPT ![r] = store[owner]]
    /\ UNCHANGED <<serving, store, sinceSync, early, agents, heard, spoilt>>

EndsSync(r) ==
    /\ phase' = [phase EXCEPT ![r] = "idle"]
    /\ answer' = [answer EXCEPT ![r] = NoNodes]
    /\ early' = early \ {r}
    /\ UNCHANGED <<serving, sinceSync, agents, heard>>

Spoils(r) ==
    spoilt' = IF r \in early /\ owner = home[r]
              THEN spoilt \cup {n \in Node : answer[r][n] # Absent} ELSE spoilt

\* Each node that the new one has replaces the old one's, be it older or not.
Merged(old, new) == [n \in Node |-> IF new[n] = Absent THEN old[n] ELSE new[n]]

\* A slip: what is applied counts as seen now.
ApplyAsSeenNow(r) ==
    /\ phase[r] = "answered"
    /\ store' = [store EXCEPT ![home[r]] =
                    [n \in Node |-> [Merged(@, answer[r])[n] EXCEPT
                                        !.age = IF answer[r][n] = Absent THEN @ ELSE 0]]]
    /\ Spoils(r)
    /\ EndsSync(r)

\* A slip: only nodes that the store does not know are taken over.
ApplyNewNodes(r) ==
    /\ phase[r] = "answered"
    /\ store' = [store EXCEPT ![home[r]] = Merged(answer[r], @)]
    /\ Spoils(r)
    /\ EndsSync(r)

Apply(r) ==
    /\ phase[r] = "answered"
    /\ store' = [store EXCEPT ![home[r]] = Merged(@, answer[r])]
    /\ Spoils(r)
    /\ EndsSync(r)

\* Refused, too late, or not authorised.
SyncFails(r) ==
    /\ phase[r] # "idle"
    /\ EndsSync(r)
    /\ UNCHANGED <<store, spoilt>>

-----------------------------------------------------------------------------
\* A second passes.  An agent is not late: it pushes when it has slept, and
\* gives up when it has waited.
Tick ==
    /\ \A n \in Node : agent[n] # "off" => timer[n] > 0
    /\ timer' = [n \in Node |-> IF agent[n] = "off" THEN timer[n] ELSE timer[n] - 1]
    /\ store' = [p \in Process |->
                    [n \in Node |-> [store[p][n] EXCEPT !.age = Older(@)]]]
    /\ answer' = [r \in Reader |->
                    [n \in Node |-> [answer[r][n] EXCEPT !.age = Older(@)]]]
    /\ heard' = [n \in Node |-> Older(heard[n])]
    /\ sinceSync' = [p \in Process |->
                        IF sinceSync[p] < Throttle THEN sinceSync[p] + 1 ELSE Throttle]
    /\ UNCHANGED <<serving, phase, early, agent, misses, spoilt>>

ReaderProceeds(r) == AskUnlessRecent(r) \/ Apply(r) \/ SyncFails(r)
AgentProceeds(n) == BeginPush(n) \/ Push(n) \/ PushFails(n) \/ AnswerLost(n)

Next ==
    \/ \E p \in Process : StartServing(p) \/ StopServing(p) \/ ProcessEnds(p)
    \/ \E n \in Node : AgentStarts(n) \/ AgentStops(n) \/ AgentProceeds(n)
    \/ \E r \in Reader : AskAnyway(r) \/ Answer(r) \/ ReaderProceeds(r)
    \/ Tick

\* Time passes whatever is done, agents proceed, and every store is read again and again, as the
\* daemon does with a rule about a node and the web page with each of its polls.
\* A request that is answered again and again is now and then answered in time.
Fairness ==
    /\ SF_vars(Tick)
    /\ \A n \in Node : WF_vars(AgentProceeds(n))
    /\ \A r \in Reader :
          /\ WF_vars(ReaderProceeds(r))
          /\ SF_vars(Answer(r))
          /\ SF_vars(Apply(r))

Spec == Init /\ [][Next]_vars /\ Fairness

-----------------------------------------------------------------------------
(* Properties                                                              *)

\* Nobody shows a node as online, and no alert is judged by its metrics, unless
\* a receiver has heard from it within the threshold: whatever way a snapshot
\* takes, and however late it comes, nothing in it grows younger.
NoPhantomNodes ==
    \A p \in Process, n \in Node : Online(store[p][n]) => heard[n] <= OnlineThreshold

\* A push that was accepted stays what the receiver knows of the node until the
\* next one.  Excepted are receivers that get_active_server does not know, which
\* synchronise with themselves, and requests from before the process had the port.
AcceptedIsKept ==
    owner # Nobody /\ ~byHand => \A n \in taken \ spoilt : store[owner][n].newest

\* With the default interval and time-out, an agent that has missed one push is
\* still online: no node flickers for one failure.
HealthyNodesStayOnline ==
    owner # Nobody /\ ~byHand =>
        \A n \in taken \ spoilt : misses[n] <= 1 => Online(store[owner][n])

\* What makes them inductive.  No entry, stored or on its way, is younger than
\* the last push; one with the metrics of the last push is as old as that.
EntryIsTrue(entry, n) ==
    /\ heard[n] <= entry.age
    /\ entry.newest => entry.age = heard[n]

HeardInv ==
    \A n \in Node :
        /\ \A p \in Process : EntryIsTrue(store[p][n], n)
        /\ \A r \in Reader : EntryIsTrue(answer[r][n], n)

\* A process that has the port synchronises only where it has asked before.
FlightInv == \A r \in Reader : phase[r] # "idle" /\ Active(home[r]) => r \in early

\* The time since the last push, by how far the agent has come.
PunctualInv ==
    \A n \in Node :
        /\ agent[n] = "sleeping" => timer[n] <= Interval
        /\ agent[n] = "pushing" => timer[n] <= PushTime
        /\ agent[n] = "off" => misses[n] = 2
        /\ misses[n] <= 1 =>
              heard[n] + timer[n]
                <= (IF misses[n] = 0 THEN 0 ELSE Interval + PushTime)
                    + (IF agent[n] = "sleeping" THEN Interval ELSE Interval + PushTime)

IInv == TypeOK /\ HeardInv /\ FlightInv /\ PunctualInv /\ AcceptedIsKept

Settled(n) ==
    [][/\ ~Push(n) /\ ~AnswerLost(n)
       /\ \A p \in Process : ~StartServing(p) /\ ~StopServing(p) /\ ~ProcessEnds(p)]_vars

CaughtUp(n) ==
    owner # Nobody /\ store[owner][n].newest =>
        \A r \in Reader : store[home[r]][n].newest

\* Without a token, every process that is read comes to know the last push,
\* unless the receiver or its process changes: no late answer and no throttle
\* keeps it from it.
FollowersCatchUp == \A n \in Node : ~guarded /\ <>Settled(n) => <>[]CaughtUp(n)

\* NANO_AUTH_TOKEN is the "Optional auth token for push/pull": with one set, the
\* processes pull as they do without.
FollowersCatchUpWithToken == \A n \in Node : <>Settled(n) => <>[]CaughtUp(n)
=============================================================================
