--------------------------- MODULE NodeStore_proof ---------------------------
(***************************************************************************)
(* Proofs about NodeStore for any processes, threads, nodes and times:     *)
(* what is shown as online has been heard of, what was accepted is kept,   *)
(* and an agent that misses one push stays online.                         *)
(***************************************************************************)
EXTENDS NodeStore, TLAPS

-----------------------------------------------------------------------------
LEMMA AgeProperties ==
    /\ OnlineThreshold \in Nat /\ MaxAge \in Nat /\ Never \in Nat
    /\ MaxAge = OnlineThreshold + 1 /\ Never = OnlineThreshold + 2
    /\ \A x \in Age : x \in Nat /\ x <= Never
    /\ 0 \in Age /\ Never \in Age
BY TimeAssumption DEF MaxAge, Never, Age

\* What a second does to an age.
LEMMA OlderProperties ==
    /\ \A x \in Age : Older(x) \in Age /\ Older(x) <= x + 1
    /\ \A x, y \in Age : x <= y => Older(x) <= Older(y)
<1>1. ASSUME NEW x \in Age
      PROVE  Older(x) \in Age /\ Older(x) <= x + 1
  BY TimeAssumption DEF MaxAge, Never, Age, Older
<1>2. ASSUME NEW x \in Age, NEW y \in Age, x <= y
      PROVE  Older(x) <= Older(y)
  BY <1>2, TimeAssumption DEF MaxAge, Never, Age, Older
<1> QED
  BY <1>1, <1>2

LEMMA EntryProperties ==
    /\ Absent \in Entry /\ NoNodes \in Nodes
    /\ Absent.age = Never /\ Absent.newest = FALSE
    /\ \A n \in Node : NoNodes[n] = Absent
BY AgeProperties DEF Absent, Entry, NoNodes, Nodes

\* No entry is older than one that was never heard of.
LEMMA AbsentIsTrue ==
    ASSUME TypeOK, NEW n \in Node
    PROVE  EntryIsTrue(Absent, n)
BY EntryProperties, AgeProperties DEF TypeOK, EntryIsTrue

LEMMA InitIInv == Init => IInv
<1> SUFFICES ASSUME Init PROVE IInv
  OBVIOUS
<1>1. TypeOK
  <2>1. /\ store \in [Process -> Nodes] /\ answer \in [Reader -> Nodes]
        /\ heard \in [Node -> Age]
    BY EntryProperties, AgeProperties DEF Init
  <2>2. sinceSync \in [Process -> 0..Throttle] /\ timer \in [Node -> Nat]
    BY TimeAssumption DEF Init
  <2>3. /\ guarded \in BOOLEAN /\ byHand \in BOOLEAN /\ owner \in Process \cup {Nobody}
        /\ taken \in SUBSET Node /\ spoilt \in SUBSET Node /\ early \in SUBSET Reader
    BY DEF Init
  <2>4. /\ phase \in [Reader -> {"idle", "asked", "answered"}]
        /\ agent \in [Node -> {"off", "sleeping", "pushing"}]
        /\ misses \in [Node -> 0..2]
    BY DEF Init
  <2> QED
    BY <2>1, <2>2, <2>3, <2>4 DEF TypeOK
<1>2. HeardInv
  BY <1>1, EntryProperties, AbsentIsTrue DEF Init, HeardInv
<1>3. FlightInv
  BY DEF Init, FlightInv
<1>4. PunctualInv
  BY DEF Init, PunctualInv
<1>5. AcceptedIsKept
  BY DEF Init, AcceptedIsKept
<1> QED
  BY <1>1, <1>2, <1>3, <1>4, <1>5 DEF IInv

-----------------------------------------------------------------------------
(* The owner of the port                                                   *)

LEMMA StartServingKeeps ==
    ASSUME IInv, NEW p \in Process, StartServing(p)
    PROVE  IInv'
<1> USE DEF IInv
<1>1. /\ owner = Nobody /\ owner' = p /\ byHand' \in BOOLEAN
      /\ taken' = {} /\ spoilt' = {} /\ early' = early \cup InFlight(p)
      /\ UNCHANGED <<guarded, store, sinceSync, phase, answer, agent, timer, misses, heard>>
  BY DEF StartServing, agents
<1>2. TypeOK'
  BY <1>1 DEF TypeOK, InFlight
<1>3. HeardInv' /\ PunctualInv'
  BY <1>1 DEF HeardInv, EntryIsTrue, PunctualInv
<1>4. FlightInv'
  BY <1>1 DEF FlightInv, Active, InFlight
<1>5. AcceptedIsKept'
  BY <1>1 DEF AcceptedIsKept
<1> QED
  BY <1>2, <1>3, <1>4, <1>5

LEMMA StopServingKeeps ==
    ASSUME IInv, NEW p \in Process, StopServing(p)
    PROVE  IInv'
<1> USE DEF IInv
<1>1. /\ owner' = Nobody /\ taken' = {} /\ spoilt' = {} /\ early' \in SUBSET Reader
      /\ UNCHANGED <<guarded, byHand, store, sinceSync, phase, answer, agent, timer, misses, heard>>
  BY DEF StopServing, agents, TypeOK
<1>2. TypeOK'
  BY <1>1 DEF TypeOK
<1>3. HeardInv' /\ PunctualInv'
  BY <1>1 DEF HeardInv, EntryIsTrue, PunctualInv
<1>4. FlightInv'
  BY <1>1, ProcessAssumption DEF FlightInv, Active
<1>5. AcceptedIsKept'
  BY <1>1 DEF AcceptedIsKept
<1> QED
  BY <1>2, <1>3, <1>4, <1>5

LEMMA ProcessEndsKeeps ==
    ASSUME IInv, NEW p \in Process, ProcessEnds(p)
    PROVE  IInv'
<1> USE DEF IInv
<1>1. /\ store' = [store EXCEPT ![p] = NoNodes]
      /\ sinceSync' = [sinceSync EXCEPT ![p] = Throttle]
      /\ phase' = [r \in Reader |-> IF home[r] = p THEN "idle" ELSE phase[r]]
      /\ answer' = [r \in Reader |-> IF home[r] = p THEN NoNodes ELSE answer[r]]
      /\ early' = {r \in early : home[r] # p}
      /\ UNCHANGED <<guarded, agent, timer, misses, heard>>
      /\ \/ owner' = Nobody /\ byHand' = FALSE /\ taken' = {} /\ spoilt' = {}
         \/ owner # p /\ UNCHANGED <<owner, byHand, taken, spoilt>>
  BY DEF ProcessEnds, agents
<1>2. TypeOK'
  <2>1. /\ store' \in [Process -> Nodes] /\ answer' \in [Reader -> Nodes]
        /\ phase' \in [Reader -> {"idle", "asked", "answered"}]
    BY <1>1, EntryProperties DEF TypeOK
  <2>2. sinceSync' \in [Process -> 0..Throttle]
    BY <1>1, TimeAssumption DEF TypeOK
  <2> QED
    BY <1>1, <2>1, <2>2 DEF TypeOK
<1>3. \A q \in Process : store'[q] = IF q = p THEN NoNodes ELSE store[q]
  BY <1>1 DEF TypeOK
<1>4. \A n \in Node : EntryIsTrue(Absent, n)
  BY AbsentIsTrue
<1>5. HeardInv'
  BY <1>1, <1>3, <1>4, EntryProperties DEF HeardInv, EntryIsTrue
<1>6. FlightInv'
  BY <1>1, ProcessAssumption DEF FlightInv, Active
<1>7. PunctualInv'
  BY <1>1 DEF PunctualInv
<1>8. AcceptedIsKept'
  BY <1>1, <1>3 DEF AcceptedIsKept, TypeOK
<1> QED
  BY <1>2, <1>5, <1>6, <1>7, <1>8

-----------------------------------------------------------------------------
(* Agents                                                                  *)

\* A push is ingested.
LEMMA UpdateNodeKeeps ==
    ASSUME IInv, NEW n \in Node, UpdateNode(n),
           UNCHANGED <<guarded, owner, byHand, sinceSync, phase, early>>
    PROVE  /\ store' \in [Process -> Nodes] /\ answer' \in [Reader -> Nodes]
           /\ heard' \in [Node -> Age] /\ \A m \in Node : heard'[m] = IF m = n THEN 0 ELSE heard[m]
           /\ taken' \in SUBSET Node /\ spoilt' \in SUBSET Node
           /\ HeardInv' /\ FlightInv' /\ AcceptedIsKept'
<1> USE DEF IInv
<1> DEFINE pushed == [age |-> 0, newest |-> TRUE]
<1>1. /\ owner # Nobody /\ owner \in Process
      /\ store' = [p \in Process |->
                      IF p = owner THEN [store[p] EXCEPT ![n] = pushed] ELSE Outdated(store[p], n)]
      /\ answer' = [r \in Reader |-> Outdated(answer[r], n)]
      /\ heard' = [heard EXCEPT ![n] = 0]
      /\ taken' = taken \cup {n} /\ spoilt' = spoilt \ {n}
  BY DEF UpdateNode, TypeOK
<1>2. pushed \in Entry /\ pushed.age = 0
  BY AgeProperties DEF Entry
<1>3. ASSUME NEW nodes \in Nodes
      PROVE  /\ Outdated(nodes, n) \in Nodes
             /\ [nodes EXCEPT ![n] = pushed] \in Nodes
             /\ \A m \in Node : m # n => /\ Outdated(nodes, n)[m] = nodes[m]
                                         /\ [nodes EXCEPT ![n] = pushed][m] = nodes[m]
             /\ Outdated(nodes, n)[n].newest = FALSE
             /\ Outdated(nodes, n)[n].age \in Age
             /\ [nodes EXCEPT ![n] = pushed][n] = pushed
  BY <1>2 DEF Outdated, Nodes, Entry
<1>4. /\ store' \in [Process -> Nodes] /\ answer' \in [Reader -> Nodes]
      /\ heard' \in [Node -> Age] /\ \A m \in Node : heard'[m] = IF m = n THEN 0 ELSE heard[m]
  BY <1>1, <1>3, AgeProperties DEF TypeOK
<1>5. ASSUME NEW nodes \in Nodes, NEW m \in Node, EntryIsTrue(nodes[m], m)
      PROVE  /\ EntryIsTrue(Outdated(nodes, n)[m], m)'
             /\ EntryIsTrue([nodes EXCEPT ![n] = pushed][m], m)'
  <2>1. CASE m = n
    <3>1. heard'[m] = 0 /\ Outdated(nodes, n)[m].newest = FALSE
      BY <1>3, <1>4, <2>1
    <3>2. Outdated(nodes, n)[m].age \in Nat /\ [nodes EXCEPT ![n] = pushed][m].age = 0
      BY <1>2, <1>3, <2>1, AgeProperties
    <3> QED
      BY <3>1, <3>2 DEF EntryIsTrue
  <2>2. CASE m # n
    <3>1. /\ heard'[m] = heard[m] /\ Outdated(nodes, n)[m] = nodes[m]
          /\ [nodes EXCEPT ![n] = pushed][m] = nodes[m]
      BY <1>3, <1>4, <2>2
    <3> QED
      BY <1>5, <3>1 DEF EntryIsTrue
  <2> QED
    BY <2>1, <2>2
<1>6. HeardInv'
  BY <1>1, <1>5 DEF HeardInv, EntryIsTrue, TypeOK
<1>7. FlightInv'
  BY DEF FlightInv, Active
<1>8. \A m \in Node : /\ m = n => store'[owner][m].newest
                      /\ m # n => store'[owner][m] = store[owner][m]
  <2>1. store'[owner] = [store[owner] EXCEPT ![n] = pushed] /\ store[owner] \in Nodes
    BY <1>1 DEF TypeOK
  <2>2. pushed.newest
    OBVIOUS
  <2>3. /\ store'[owner][n] = pushed
        /\ \A m \in Node : m # n => store'[owner][m] = store[owner][m]
    BY <1>3, <2>1
  <2> QED
    BY <2>2, <2>3
<1>9. AcceptedIsKept'
  BY <1>1, <1>8 DEF AcceptedIsKept
<1> QED
  BY <1>1, <1>4, <1>6, <1>7, <1>9 DEF TypeOK

\* What agents do besides.
LEMMA AgentKeeps ==
    ASSUME IInv, NEW n \in Node,
           \/ AgentStarts(n) \/ AgentStops(n) \/ BeginPush(n) \/ PushFails(n)
    PROVE  IInv'
<1> USE DEF IInv
<1>1. UNCHANGED <<guarded, owner, byHand, taken, store, sinceSync, phase, answer, early, heard, spoilt>>
  BY DEF AgentStarts, AgentStops, BeginPush, PushFails, serving, readers
<1>2. \A m \in Node : m # n => UNCHANGED <<agent[m], timer[m], misses[m]>>
  BY DEF AgentStarts, AgentStops, BeginPush, PushFails, Sleeps, Missed, TypeOK
<1>3. /\ agent' \in [Node -> {"off", "sleeping", "pushing"}] /\ timer' \in [Node -> Nat]
      /\ misses' \in [Node -> 0..2]
  BY TimeAssumption DEF AgentStarts, AgentStops, BeginPush, PushFails, Sleeps, Missed, TypeOK
<1>4. \/ /\ agent[n] = "off" /\ agent'[n] = "sleeping" /\ timer'[n] = 0 /\ misses'[n] = misses[n]
      \/ agent'[n] = "off" /\ misses'[n] = 2
      \/ /\ agent[n] = "sleeping" /\ timer[n] = 0 /\ agent'[n] = "pushing"
         /\ timer'[n] = PushTime /\ misses'[n] = misses[n]
      \/ /\ agent[n] = "pushing" /\ agent'[n] = "sleeping" /\ timer'[n] = Interval
         /\ misses'[n] = IF misses[n] = 0 THEN 1 ELSE 2
  BY DEF AgentStarts, AgentStops, BeginPush, PushFails, Sleeps, Missed, TypeOK
<1>5. TypeOK'
  BY <1>1, <1>3 DEF TypeOK
<1>6. HeardInv' /\ FlightInv' /\ AcceptedIsKept'
  BY <1>1 DEF HeardInv, EntryIsTrue, FlightInv, Active, AcceptedIsKept
<1>7. PunctualInv'
  <2> SUFFICES ASSUME NEW m \in Node
               PROVE  /\ agent'[m] = "sleeping" => timer'[m] <= Interval
                      /\ agent'[m] = "pushing" => timer'[m] <= PushTime
                      /\ agent'[m] = "off" => misses'[m] = 2
                      /\ misses'[m] <= 1 =>
                            heard'[m] + timer'[m]
                              <= (IF misses'[m] = 0 THEN 0 ELSE Interval + PushTime)
                                  + (IF agent'[m] = "sleeping" THEN Interval ELSE Interval + PushTime)
    BY DEF PunctualInv
  <2>1. CASE m # n
    BY <1>1, <1>2, <2>1 DEF PunctualInv
  <2>2. CASE m = n
    <3>1. /\ heard[n] \in Nat /\ timer[n] \in Nat /\ misses[n] \in 0..2
          /\ Interval \in Nat /\ PushTime \in Nat /\ heard'[n] = heard[n]
      BY <1>1, AgeProperties, TimeAssumption DEF TypeOK
    <3> QED
      BY <1>4, <2>2, <3>1 DEF PunctualInv
  <2> QED
    BY <2>1, <2>2
<1> QED
  BY <1>5, <1>6, <1>7

LEMMA PushKeeps ==
    ASSUME IInv, NEW n \in Node, Push(n) \/ AnswerLost(n)
    PROVE  IInv'
<1> USE DEF IInv
<1>1. /\ UpdateNode(n) /\ UNCHANGED <<guarded, owner, byHand, sinceSync, phase, early>>
      /\ agent' = [agent EXCEPT ![n] = "sleeping"] /\ timer' = [timer EXCEPT ![n] = Interval]
      /\ \E k \in 0..2 : misses' = [misses EXCEPT ![n] = k]
  BY DEF Push, AnswerLost, Sleeps, Missed
<1>2. /\ store' \in [Process -> Nodes] /\ answer' \in [Reader -> Nodes]
      /\ heard' \in [Node -> Age] /\ \A m \in Node : heard'[m] = IF m = n THEN 0 ELSE heard[m]
      /\ taken' \in SUBSET Node /\ spoilt' \in SUBSET Node
      /\ HeardInv' /\ FlightInv' /\ AcceptedIsKept'
  BY <1>1, UpdateNodeKeeps
<1>3. TypeOK'
  BY <1>1, <1>2, TimeAssumption DEF TypeOK
<1>4. PunctualInv'
  <2>1. \A m \in Node : /\ agent'[m] = IF m = n THEN "sleeping" ELSE agent[m]
                        /\ timer'[m] = IF m = n THEN Interval ELSE timer[m]
                        /\ m # n => misses'[m] = misses[m]
                        /\ misses'[m] \in 0..2
    BY <1>1 DEF TypeOK
  <2> QED
    BY <1>2, <2>1, TimeAssumption DEF PunctualInv
<1> QED
  BY <1>2, <1>3, <1>4

-----------------------------------------------------------------------------
(* Synchronisation                                                         *)

LEMMA AskKeeps ==
    ASSUME IInv, NEW r \in Reader, Ask(r)
    PROVE  IInv'
<1> USE DEF IInv
<1>1. /\ phase' = [phase EXCEPT ![r] = "asked"] /\ ~Active(home[r])
      /\ sinceSync' = [sinceSync EXCEPT ![home[r]] = 0]
      /\ UNCHANGED <<guarded, owner, byHand, taken, store, answer, early, agent, timer, misses, heard, spoilt>>
  BY DEF Ask, serving, agents
<1>2. TypeOK'
  <2>1. sinceSync' \in [Process -> 0..Throttle]
    <3>1. 0 \in 0..Throttle
      BY TimeAssumption
    <3>2. sinceSync \in [Process -> 0..Throttle]
      BY DEF TypeOK
    <3> QED
      BY <1>1, <3>1, <3>2
  <2>2. phase' \in [Reader -> {"idle", "asked", "answered"}]
    BY <1>1 DEF TypeOK
  <2> QED
    BY <1>1, <2>1, <2>2 DEF TypeOK
<1>3. HeardInv' /\ PunctualInv' /\ AcceptedIsKept'
  BY <1>1 DEF HeardInv, EntryIsTrue, PunctualInv, AcceptedIsKept
<1>4. FlightInv'
  BY <1>1 DEF FlightInv, Active, TypeOK
<1> QED
  BY <1>2, <1>3, <1>4

LEMMA AnswerKeeps ==
    ASSUME IInv, NEW r \in Reader, Answer(r)
    PROVE  IInv'
<1> USE DEF IInv
<1>1. /\ phase[r] = "asked" /\ owner \in Process
      /\ phase' = [phase EXCEPT ![r] = "answered"]
      /\ answer' = [answer EXCEPT ![r] = store[owner]]
      /\ UNCHANGED <<guarded, owner, byHand, taken, store, sinceSync, early, agent, timer, misses, heard, spoilt>>
  BY DEF Answer, serving, agents, TypeOK
<1>2. \A q \in Reader : /\ answer'[q] = IF q = r THEN store[owner] ELSE answer[q]
                        /\ phase'[q] # "idle" => phase[q] # "idle"
  BY <1>1 DEF TypeOK
<1>3. TypeOK'
  BY <1>1 DEF TypeOK
<1>4. HeardInv'
  BY <1>1, <1>2 DEF HeardInv, EntryIsTrue
<1>5. FlightInv' /\ PunctualInv' /\ AcceptedIsKept'
  BY <1>1, <1>2 DEF FlightInv, Active, PunctualInv, AcceptedIsKept
<1> QED
  BY <1>3, <1>4, <1>5

\* The end of a synchronisation, whatever it has done to the stores.
LEMMA EndsSyncKeeps ==
    ASSUME IInv, NEW r \in Reader, EndsSync(r),
           store' \in [Process -> Nodes], spoilt' \in SUBSET Node,
           \A p \in Process, n \in Node : EntryIsTrue(store'[p][n], n),
           AcceptedIsKept'
    PROVE  IInv'
<1> USE DEF IInv
<1>1. /\ phase' = [phase EXCEPT ![r] = "idle"] /\ answer' = [answer EXCEPT ![r] = NoNodes]
      /\ early' = early \ {r}
      /\ UNCHANGED <<guarded, owner, byHand, taken, sinceSync, agent, timer, misses, heard>>
  BY DEF EndsSync, serving, agents
<1>2. \A q \in Reader : /\ answer'[q] = IF q = r THEN NoNodes ELSE answer[q]
                        /\ phase'[q] = IF q = r THEN "idle" ELSE phase[q]
  BY <1>1 DEF TypeOK
<1>3. TypeOK'
  BY <1>1, EntryProperties DEF TypeOK
<1>4. \A n \in Node : EntryIsTrue(Absent, n)
  BY AbsentIsTrue
<1>5. HeardInv'
  BY <1>1, <1>2, <1>4, EntryProperties DEF HeardInv, EntryIsTrue
<1>6. FlightInv'
  BY <1>1, <1>2 DEF FlightInv, Active
<1>7. PunctualInv'
  BY <1>1 DEF PunctualInv
<1> QED
  BY <1>3, <1>5, <1>6, <1>7

LEMMA ApplyKeeps ==
    ASSUME IInv, NEW r \in Reader, Apply(r)
    PROVE  IInv'
<1> USE DEF IInv
<1> DEFINE p == home[r]
<1>1. /\ phase[r] = "answered" /\ store' = [store EXCEPT ![p] = Merged(@, answer[r])]
      /\ Spoils(r) /\ EndsSync(r) /\ UNCHANGED <<owner, byHand, taken, heard>>
  BY DEF Apply, EndsSync, serving
<1>2. /\ p \in Process /\ answer[r] \in Nodes /\ store[p] \in Nodes
  BY ProcessAssumption DEF TypeOK
<1>3. /\ Merged(store[p], answer[r]) \in Nodes
      /\ \A n \in Node : Merged(store[p], answer[r])[n]
                            = IF answer[r][n] = Absent THEN store[p][n] ELSE answer[r][n]
  BY <1>2 DEF Merged, Nodes
<1>4. \A q \in Process :
          store'[q] = IF q = p THEN Merged(store[p], answer[r]) ELSE store[q]
  BY <1>1 DEF TypeOK
<1>5. store' \in [Process -> Nodes]
  BY <1>1, <1>3 DEF TypeOK
<1>6. \A q \in Process, n \in Node : EntryIsTrue(store'[q][n], n)
  BY <1>3, <1>4 DEF HeardInv
<1>7. spoilt' \in SUBSET Node
  BY <1>1 DEF Spoils, TypeOK
<1>8. AcceptedIsKept'
  <2> SUFFICES ASSUME owner # Nobody, ~byHand, NEW n \in taken \ spoilt'
               PROVE  store'[owner][n].newest
    BY <1>1 DEF AcceptedIsKept
  <2>1. n \in Node /\ n \notin spoilt /\ owner \in Process
    BY <1>1 DEF Spoils, TypeOK
  <2>2. store[owner][n].newest
    BY <2>1 DEF AcceptedIsKept
  <2>3. CASE owner # p
    BY <1>4, <2>1, <2>2, <2>3
  <2>4. CASE owner = p
    <3>1. r \in early
      BY <1>1, <2>4 DEF FlightInv, Active
    <3>2. answer[r][n] = Absent
      BY <1>1, <2>1, <2>4, <3>1 DEF Spoils
    <3> QED
      BY <1>3, <1>4, <2>1, <2>2, <2>4, <3>2
  <2> QED
    BY <2>3, <2>4
<1> QED
  BY <1>1, <1>5, <1>6, <1>7, <1>8, EndsSyncKeeps

LEMMA SyncFailsKeeps ==
    ASSUME IInv, NEW r \in Reader, SyncFails(r)
    PROVE  IInv'
<1> USE DEF IInv
<1>1. /\ EndsSync(r) /\ UNCHANGED <<store, spoilt, owner, byHand, taken>>
  BY DEF SyncFails, EndsSync, serving
<1>2. AcceptedIsKept'
  BY <1>1 DEF AcceptedIsKept
<1>3. /\ store' \in [Process -> Nodes] /\ spoilt' \in SUBSET Node
      /\ \A p \in Process, n \in Node : EntryIsTrue(store'[p][n], n)
  BY <1>1 DEF TypeOK, HeardInv
<1> QED
  BY <1>1, <1>2, <1>3, EndsSyncKeeps

-----------------------------------------------------------------------------
\* A second passes.
LEMMA TickKeeps ==
    ASSUME IInv, Tick
    PROVE  IInv'
<1> USE DEF IInv
<1>1. /\ \A n \in Node : agent[n] # "off" => timer[n] > 0
      /\ timer' = [n \in Node |-> IF agent[n] = "off" THEN timer[n] ELSE timer[n] - 1]
      /\ heard' = [n \in Node |-> Older(heard[n])]
      /\ UNCHANGED <<guarded, owner, byHand, taken, phase, early, agent, misses, spoilt>>
  BY DEF Tick, serving
<1>2. ASSUME NEW nodes \in Nodes
      PROVE  /\ [n \in Node |-> [nodes[n] EXCEPT !.age = Older(@)]] \in Nodes
             /\ \A n \in Node :
                   /\ [nodes[n] EXCEPT !.age = Older(@)].age = Older(nodes[n].age)
                   /\ [nodes[n] EXCEPT !.age = Older(@)].newest = nodes[n].newest
                   /\ nodes[n].age \in Age
  BY OlderProperties DEF Nodes, Entry
<1>3. /\ store' = [p \in Process |-> [n \in Node |-> [store[p][n] EXCEPT !.age = Older(@)]]]
      /\ answer' = [r \in Reader |-> [n \in Node |-> [answer[r][n] EXCEPT !.age = Older(@)]]]
  BY DEF Tick
<1>4. store' \in [Process -> Nodes] /\ answer' \in [Reader -> Nodes]
  BY <1>2, <1>3 DEF TypeOK
<1>5. sinceSync' \in [Process -> 0..Throttle]
  BY TimeAssumption DEF Tick, TypeOK
<1>6. timer' \in [Node -> Nat] /\ heard' \in [Node -> Age]
  BY <1>1, OlderProperties DEF TypeOK
<1>7. TypeOK'
  BY <1>1, <1>4, <1>5, <1>6 DEF TypeOK
<1>8. HeardInv'
  <2>1. ASSUME NEW nodes \in Nodes, NEW n \in Node, EntryIsTrue(nodes[n], n)
        PROVE  EntryIsTrue([nodes[n] EXCEPT !.age = Older(@)], n)'
    <3>1. heard'[n] = Older(heard[n]) /\ heard[n] \in Age /\ nodes[n].age \in Age
      BY <1>1, <1>2 DEF TypeOK
    <3>2. /\ [nodes[n] EXCEPT !.age = Older(@)].age = Older(nodes[n].age)
          /\ [nodes[n] EXCEPT !.age = Older(@)].newest = nodes[n].newest
      BY <1>2
    <3>3. Older(heard[n]) <= Older(nodes[n].age)
      BY <2>1, <3>1, OlderProperties DEF EntryIsTrue
    <3> QED
      BY <2>1, <3>1, <3>2, <3>3 DEF EntryIsTrue
  <2>2. ASSUME NEW p \in Process, NEW n \in Node
        PROVE  EntryIsTrue(store[p][n], n)'
    BY <1>3, <2>1 DEF HeardInv, TypeOK, EntryIsTrue
  <2>3. ASSUME NEW r \in Reader, NEW n \in Node
        PROVE  EntryIsTrue(answer[r][n], n)'
    BY <1>3, <2>1 DEF HeardInv, TypeOK, EntryIsTrue
  <2> QED
    BY <2>2, <2>3 DEF HeardInv
<1>9. FlightInv'
  BY <1>1 DEF FlightInv, Active
<1>10. PunctualInv'
  <2>1. \A n \in Node :
           /\ timer'[n] = IF agent[n] = "off" THEN timer[n] ELSE timer[n] - 1
           /\ timer[n] \in Nat /\ heard[n] \in Nat /\ misses[n] \in 0..2
           /\ heard'[n] \in Nat /\ heard'[n] <= heard[n] + 1
    BY <1>1, AgeProperties, OlderProperties DEF TypeOK
  <2> QED
    BY <1>1, <2>1, TimeAssumption DEF PunctualInv
<1>11. AcceptedIsKept'
  BY <1>1, <1>2, <1>3 DEF AcceptedIsKept, TypeOK
<1> QED
  BY <1>7, <1>8, <1>9, <1>10, <1>11

LEMMA NextKeeps == IInv /\ [Next]_vars => IInv'
<1> SUFFICES ASSUME IInv, [Next]_vars PROVE IInv'
  OBVIOUS
<1>1. CASE \E p \in Process : StartServing(p) \/ StopServing(p) \/ ProcessEnds(p)
  BY <1>1, StartServingKeeps, StopServingKeeps, ProcessEndsKeeps
<1>2. CASE \E n \in Node : AgentStarts(n) \/ AgentStops(n) \/ AgentProceeds(n)
  BY <1>2, AgentKeeps, PushKeeps DEF AgentProceeds
<1>3. CASE \E r \in Reader : AskAnyway(r) \/ Answer(r) \/ ReaderProceeds(r)
  BY <1>3, AskKeeps, AnswerKeeps, ApplyKeeps, SyncFailsKeeps
     DEF AskAnyway, AskUnlessRecent, ReaderProceeds
<1>4. CASE Tick
  BY <1>4, TickKeeps
<1>5. CASE UNCHANGED vars
  BY <1>5 DEF vars, serving, readers, agents, IInv, TypeOK, HeardInv, EntryIsTrue, FlightInv,
     Active, PunctualInv, AcceptedIsKept
<1> QED
  BY <1>1, <1>2, <1>3, <1>4, <1>5 DEF Next

-----------------------------------------------------------------------------
\* The ages, the requests in flight, the agents' times and what the owner has
\* ingested are together inductive.
THEOREM Inductive == Spec => []IInv
BY InitIInv, NextKeeps, PTL DEF Spec

\* What a process shows as online, a receiver has heard of within the threshold.
THEOREM OnlineIsHeard == Spec => []NoPhantomNodes
<1>1. IInv => NoPhantomNodes
  <2> SUFFICES ASSUME IInv, NEW p \in Process, NEW n \in Node, Online(store[p][n])
               PROVE  heard[n] <= OnlineThreshold
    BY DEF NoPhantomNodes
  <2>1. heard[n] \in Age /\ store[p][n].age \in Age /\ heard[n] <= store[p][n].age
    BY DEF IInv, TypeOK, HeardInv, EntryIsTrue, Nodes, Entry
  <2>2. heard[n] \in Nat /\ store[p][n].age \in Nat
    BY <2>1, AgeProperties
  <2>3. store[p][n].age <= OnlineThreshold
    BY DEF Online
  <2> QED
    BY <2>1, <2>2, <2>3, TimeAssumption
<1> QED
  BY <1>1, Inductive, PTL

\* A push that the owner has accepted is what it knows until the next one.
THEOREM PushesAreKept == Spec => []AcceptedIsKept
<1>1. IInv => AcceptedIsKept
  BY DEF IInv
<1> QED
  BY <1>1, Inductive, PTL

\* A node whose agent has missed no more than one push is online at the owner.
THEOREM OneMissIsTolerated == Spec => []HealthyNodesStayOnline
<1>1. IInv => HealthyNodesStayOnline
  <2> SUFFICES ASSUME IInv, owner # Nobody, ~byHand, NEW n \in taken \ spoilt, misses[n] <= 1
               PROVE  Online(store[owner][n])
    BY DEF HealthyNodesStayOnline
  <2>1. n \in Node /\ owner \in Process
    BY DEF IInv, TypeOK
  <2>2. store[owner][n].age = heard[n]
    BY <2>1 DEF IInv, AcceptedIsKept, HeardInv, EntryIsTrue
  <2>3. heard[n] \in Nat /\ timer[n] \in Nat
    BY <2>1, AgeProperties DEF IInv, TypeOK
  <2>4. heard[n] <= 2 * (Interval + PushTime)
    BY <2>1, <2>3, TimeAssumption DEF IInv, PunctualInv
  <2> QED
    BY <2>2, <2>3, <2>4, TimeAssumption DEF Online
<1> QED
  BY <1>1, Inductive, PTL
=============================================================================
