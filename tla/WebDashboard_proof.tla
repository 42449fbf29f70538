-------------------------- MODULE WebDashboard_proof --------------------------
(***************************************************************************)
(* Proofs about WebDashboard for any threads, contents of rules.json and   *)
(* times: no answer about the rules is older than the loads it met, a load *)
(* that meets no other is exact whatever happened to the list before, no   *)
(* thread has two readers of the sensors, and what a page that stays open  *)
(* shows of them is not older than an interval, a poll and two reads.      *)
(***************************************************************************)
EXTENDS WebDashboard, TLAPS, SequenceTheorems

\* What concerns the rules, and what concerns the sensors.
RulesInv ==
    /\ RequestTypeOK
    /\ LoadsAreRecent /\ RequestsBeginAfresh /\ NoFileNoRules /\ LonelyLoadsAreExact

SensorInv == SensorTypeOK /\ ReadersAreFew

OutIsRecent ==
    \A t \in Thread : Loading(t) /\ read[t] =>
        \A i \in DOMAIN out[t] : out[t][i].version >= oldest[t]

-----------------------------------------------------------------------------
LEMMA VersionProperties ==
    /\ Version \subseteq Nat /\ 1 \in Version
    /\ \A v \in Version : Files[v] \in Seq(Nat)
BY WebAssumption, ElementOfSeq, EmptySeq, LenProperties DEF Version

\* A version of the file as a list of rules.
LEMMA ItemsProperties ==
    ASSUME NEW v \in Version
    PROVE  /\ Items(v) \in Seq(Item)
           /\ \A i \in DOMAIN Items(v) : Items(v)[i].version = v
<1>1. Files[v] \in Seq(Nat) /\ Len(Files[v]) \in Nat
  BY VersionProperties, LenProperties
<1>2. \A i \in 1..Len(Files[v]) : Files[v][i] \in Nat
  BY <1>1
<1>3. Items(v) \in [1..Len(Files[v]) -> Item]
  BY <1>2 DEF Items, Item
<1>4. Items(v) \in Seq(Item)
  BY <1>1, <1>3
<1> QED
  BY <1>4 DEF Items

LEMMA NoItems == Items(1) = <<>>
<1>1. Files[1] = <<>>
  BY WebAssumption
<1>2. Items(1) \in Seq(Item) /\ Len(Items(1)) = 0
  <2>1. Items(1) \in Seq(Item)
    BY VersionProperties, ItemsProperties
  <2>2. DOMAIN Items(1) = 1..0
    BY <1>1 DEF Items
  <2> QED
    BY <2>1, <2>2, LenProperties
<1> QED
  BY <1>2, EmptySeq

LEMMA InitInv == Init => RulesInv /\ SensorInv /\ SensorsAreTimely /\ OutIsRecent
<1> SUFFICES ASSUME Init PROVE RulesInv /\ SensorInv /\ SensorsAreTimely /\ OutIsRecent
  OBVIOUS
<1>1. RequestTypeOK
  BY VersionProperties DEF Init, RequestTypeOK, Kind, Stage
<1>2. SensorInv
  BY SensorAssumption DEF Init, SensorInit, SensorInv, SensorTypeOK, ReadersAreFew, NoReader,
                          Running, Staleness
<1>3. SensorsAreTimely
  BY SensorAssumption DEF Init, SensorInit, SensorsAreTimely, NoReader, Running, Bounded, Due
<1> QED
  BY <1>1, <1>2, <1>3 DEF Init, RulesInv, LoadsAreRecent, RequestsBeginAfresh, NoFileNoRules,
                    LonelyLoadsAreExact, OutIsRecent, Loading

-----------------------------------------------------------------------------
(* The rules                                                               *)

Unread == {"idle", "look", "debounce"}
LeadsElsewhere(t, s) ==
    \/ s \notin {"load", "clear", "extend", "each"} \cup Unread
    \/ s \in Unread /\ at[t] \in Unread

\* A thread that comes to a stage where it has nothing to do with the list.
LEMMA GoesElsewhere ==
    ASSUME RulesInv, OutIsRecent, NEW t \in Thread, NEW s \in Stage, Goes(t, s),
           UNCHANGED <<file, active, parsed, index, out, read, workload>>,
           kind' \in [Thread -> Kind], LeadsElsewhere(t, s)
    PROVE  RulesInv' /\ OutIsRecent'
<1> USE DEF RulesInv
<1>1. /\ at' = [at EXCEPT ![t] = s] /\ UNCHANGED <<oldest, alone>>
      /\ \A u \in Thread : at'[u] = IF u = t THEN s ELSE at[u]
      /\ \A u \in Thread : Loading(u)' => Loading(u) /\ u # t
  BY DEF Goes, RequestTypeOK, Loading, Unread, LeadsElsewhere
<1>2. RequestTypeOK'
  BY <1>1 DEF RequestTypeOK
<1>3. LoadsAreRecent' /\ OutIsRecent'
  BY <1>1 DEF LoadsAreRecent, OutIsRecent, Unread, LeadsElsewhere
<1>4. RequestsBeginAfresh' /\ NoFileNoRules'
  BY <1>1 DEF RequestsBeginAfresh, NoFileNoRules, Unread, LeadsElsewhere
<1>5. LonelyLoadsAreExact'
  BY <1>1 DEF LonelyLoadsAreExact, Unread, LeadsElsewhere
<1> QED
  BY <1>2, <1>3, <1>4, <1>5

\* A thread that comes to its load.
LEMMA GoesToLoad ==
    ASSUME RulesInv, OutIsRecent, NEW t \in Thread, Goes(t, "load"),
           UNCHANGED <<file, active, parsed, index, out, read, workload>>,
           kind' \in [Thread -> Kind],
           at[t] \in Unread
    PROVE  RulesInv' /\ OutIsRecent'
<1> USE DEF RulesInv
<1>1. PICK v \in Version : MayDeliver(t, v) /\ oldest' = [oldest EXCEPT ![t] = v]
  BY DEF Goes
<1>2. /\ at' = [at EXCEPT ![t] = "load"]
      /\ alone' = [u \in Thread |->
                      u = t /\ file.state # "cut" /\ \A o \in Thread \ {t} : ~Loading(o)]
  BY DEF Goes
<1>3. /\ \A u \in Thread : at'[u] = IF u = t THEN "load" ELSE at[u]
      /\ \A u \in Thread : oldest'[u] = IF u = t THEN v ELSE oldest[u]
      /\ \A u \in Thread : u # t => (Loading(u)' <=> Loading(u))
      /\ ~Loading(t)
      /\ out[t] = <<>> /\ index[t] = 1 /\ ~read[t]
  BY <1>1, <1>2 DEF RequestTypeOK, Loading, RequestsBeginAfresh, Unread
<1>4. RequestTypeOK'
  BY <1>1, <1>2, VersionProperties DEF RequestTypeOK, Stage
<1>5. LoadsAreRecent'
  <2>1. ASSUME NEW u \in Thread, at[u] \in {"clear", "extend"}
        PROVE  u # t /\ parsed[u] >= v
    <3>1. u # t /\ Loading(u) /\ v <= oldest[u] /\ parsed[u] >= oldest[u]
      BY <1>1, <2>1 DEF MayDeliver, LoadsAreRecent, Loading, Unread
    <3>2. parsed[u] \in Nat /\ oldest[u] \in Nat /\ v \in Nat
      BY VersionProperties DEF RequestTypeOK
    <3> QED
      BY <3>1, <3>2
  <2>2. v <= file.version
    BY <1>1 DEF MayDeliver
  <2> QED
    BY <1>3, <2>1, <2>2 DEF LoadsAreRecent
<1>6. OutIsRecent'
  BY <1>3 DEF OutIsRecent
<1>7. RequestsBeginAfresh' /\ NoFileNoRules'
  BY <1>3 DEF RequestsBeginAfresh, NoFileNoRules
<1>8. LonelyLoadsAreExact'
  <2>1. ASSUME NEW u \in Thread, alone'[u]
        PROVE  u = t /\ file.state # "cut" /\ \A o \in Thread \ {t} : ~Loading(o)
    BY <1>2, <2>1
  <2> QED
    BY <1>3, <2>1 DEF LonelyLoadsAreExact
<1> QED
  BY <1>4, <1>5, <1>6, <1>7, <1>8

\* A load that finds no rules it can parse; one that does; the walk.
LEMMA LoadStep ==
    ASSUME RulesInv, OutIsRecent, NEW t \in Thread, Load(t)
    PROVE  RulesInv' /\ OutIsRecent'
<1> USE DEF RulesInv
<1>1. /\ at[t] = "load" /\ UNCHANGED <<oldest, alone, file, active, index, out, kind, workload>>
      /\ out[t] = <<>> /\ index[t] = 1 /\ ~read[t]
      /\ \A u \in Thread : u # t => at'[u] = at[u] /\ parsed'[u] = parsed[u] /\ read'[u] = read[u]
      /\ \A u \in Thread : Loading(u)' <=> Loading(u)
  BY DEF Load, Goes, RequestTypeOK, RequestsBeginAfresh, Loading
<1>2. CASE file.state = "whole"
  <2>1. /\ parsed' = [parsed EXCEPT ![t] = file.version]
        /\ read' = [read EXCEPT ![t] = TRUE] /\ at' = [at EXCEPT ![t] = "clear"]
    BY <1>2 DEF Load, Goes
  <2>2. RequestTypeOK'
    BY <1>1, <2>1 DEF RequestTypeOK, Stage
  <2>3. /\ at'[t] = "clear" /\ parsed'[t] = file.version /\ read'[t]
    BY <2>1 DEF RequestTypeOK
  <2>4. LoadsAreRecent'
    BY <1>1, <2>3 DEF LoadsAreRecent
  <2>5. OutIsRecent'
    BY <1>1, <2>3 DEF OutIsRecent
  <2>6. RequestsBeginAfresh' /\ NoFileNoRules'
    BY <1>1, <1>2, <2>3 DEF RequestsBeginAfresh, NoFileNoRules
  <2>7. LonelyLoadsAreExact'
    BY <1>1, <2>3 DEF LonelyLoadsAreExact
  <2> QED
    BY <2>2, <2>4, <2>5, <2>6, <2>7
<1>3. CASE file.state # "whole"
  <2>1. at' = [at EXCEPT ![t] = "each"] /\ UNCHANGED <<parsed, read>>
    BY <1>3 DEF Load, Goes
  <2>2. RequestTypeOK'
    BY <1>1, <2>1 DEF RequestTypeOK, Stage
  <2>3. at'[t] = "each"
    BY <2>1 DEF RequestTypeOK
  <2>4. LoadsAreRecent' /\ OutIsRecent'
    BY <1>1, <2>1, <2>3 DEF LoadsAreRecent, OutIsRecent
  <2>5. RequestsBeginAfresh' /\ NoFileNoRules'
    BY <1>1, <2>1, <2>3 DEF RequestsBeginAfresh, NoFileNoRules
  <2>6. ASSUME alone[t]
        PROVE  active = Items(file.version)
    <3>1. file.state = "absent"
      BY <1>3, <2>6 DEF LonelyLoadsAreExact, RequestTypeOK
    <3> QED
      BY <3>1, NoItems DEF NoFileNoRules
  <2>7. LonelyLoadsAreExact'
    <3>1. Len(out[t]) = 0 /\ DOMAIN out[t] = {} /\ Len(active) \in Nat
      BY <1>1 DEF RequestTypeOK
    <3> QED
      BY <1>1, <2>1, <2>3, <2>6, <3>1 DEF LonelyLoadsAreExact
  <2> QED
    BY <2>2, <2>4, <2>5, <2>7
<1> QED
  BY <1>2, <1>3

LEMMA ClearStep ==
    ASSUME RulesInv, OutIsRecent, NEW t \in Thread, Clear(t)
    PROVE  RulesInv' /\ OutIsRecent'
<1> USE DEF RulesInv
<1>1. /\ at[t] = "clear" /\ at' = [at EXCEPT ![t] = "extend"] /\ active' = <<>>
      /\ UNCHANGED <<oldest, alone, file, parsed, index, out, read, kind, workload>>
  BY DEF Clear, Goes
<1>2. /\ at'[t] = "extend"
      /\ \A u \in Thread : u # t => at'[u] = at[u]
      /\ \A u \in Thread : Loading(u)' <=> Loading(u)
  BY <1>1 DEF RequestTypeOK, Loading
<1>3. RequestTypeOK'
  BY <1>1 DEF RequestTypeOK, Stage
<1>4. LoadsAreRecent' /\ OutIsRecent'
  BY <1>1, <1>2 DEF LoadsAreRecent, OutIsRecent
<1>5. RequestsBeginAfresh' /\ NoFileNoRules'
  BY <1>1, <1>2 DEF RequestsBeginAfresh, NoFileNoRules
<1>6. LonelyLoadsAreExact'
  <2>1. \A u \in Thread : alone[u] /\ u # t => at[u] # "each"
    BY <1>1 DEF LonelyLoadsAreExact, Loading
  <2> QED
    BY <1>1, <1>2, <2>1 DEF LonelyLoadsAreExact, Loading
<1> QED
  BY <1>3, <1>4, <1>5, <1>6

LEMMA ExtendStep ==
    ASSUME RulesInv, OutIsRecent, NEW t \in Thread, Extend(t)
    PROVE  RulesInv' /\ OutIsRecent'
<1> USE DEF RulesInv
<1> DEFINE new == Items(parsed[t])
<1>1. /\ at[t] = "extend" /\ at' = [at EXCEPT ![t] = "each"] /\ active' = active \o new
      /\ UNCHANGED <<oldest, alone, file, parsed, index, out, read, kind, workload>>
  BY DEF Extend, Goes
<1>2. /\ at'[t] = "each"
      /\ \A u \in Thread : u # t => at'[u] = at[u]
      /\ \A u \in Thread : Loading(u)' <=> Loading(u)
  BY <1>1 DEF RequestTypeOK, Loading
<1>3. /\ active \in Seq(Item) /\ new \in Seq(Item) /\ parsed[t] \in Version
      /\ \A i \in 1..Len(new) : new[i].version = parsed[t]
  <2>1. parsed[t] \in Version /\ active \in Seq(Item)
    BY DEF RequestTypeOK
  <2> QED
    BY <2>1, ItemsProperties, LenProperties
<1>4. /\ active' \in Seq(Item) /\ Len(active') = Len(active) + Len(new)
      /\ \A i \in 1..Len(active) + Len(new) :
            active'[i] = IF i <= Len(active) THEN active[i] ELSE new[i - Len(active)]
  BY <1>1, <1>3, ConcatProperties
<1>5. RequestTypeOK'
  BY <1>1, <1>4 DEF RequestTypeOK, Stage
<1>6. ASSUME NEW u \in Thread, at[u] \in {"extend", "each"}, read[u], NEW i \in DOMAIN active'
      PROVE  active'[i].version >= oldest[u]
  <2>1. Loading(u) /\ parsed[t] >= oldest[u]
    BY <1>1, <1>6 DEF LoadsAreRecent, Loading
  <2>2. \A j \in 1..Len(active) : active[j].version >= oldest[u]
    BY <1>3, <1>6, <2>1, LenProperties DEF LoadsAreRecent
  <2>3. i \in 1..Len(active) + Len(new) /\ Len(active) \in Nat /\ Len(new) \in Nat /\ i \in Nat
    BY <1>3, <1>4, <1>6, LenProperties
  <2>4. CASE i <= Len(active)
    BY <1>4, <2>2, <2>3, <2>4
  <2>5. CASE ~(i <= Len(active))
    <3>1. active'[i] = new[i - Len(active)] /\ i - Len(active) \in 1..Len(new)
      BY <1>4, <2>3, <2>5
    <3> QED
      BY <3>1, <1>3, <2>1
  <2> QED
    BY <2>4, <2>5
<1>7. LoadsAreRecent' /\ OutIsRecent'
  BY <1>1, <1>2, <1>6 DEF LoadsAreRecent, OutIsRecent
<1>8. RequestsBeginAfresh' /\ NoFileNoRules'
  BY <1>1, <1>2 DEF RequestsBeginAfresh, NoFileNoRules
<1>9. LonelyLoadsAreExact'
  <2>1. \A u \in Thread : alone[u] /\ u # t => at[u] # "each"
    BY <1>1 DEF LonelyLoadsAreExact, Loading
  <2>2. ASSUME alone[t]
        PROVE  active' = Items(file.version) /\ out[t] = <<>> /\ index[t] = 1
    <3>1. active = <<>> /\ parsed[t] = file.version /\ out[t] = <<>> /\ index[t] = 1
      BY <1>1, <2>2 DEF LonelyLoadsAreExact, RequestsBeginAfresh
    <3> QED
      BY <3>1, <1>1, <1>3, ConcatEmptySeq
  <2>3. Len(active') \in Nat /\ Len(<<>>) = 0 /\ DOMAIN <<>> = {}
    BY <1>4, LenProperties
  <2> QED
    BY <1>1, <1>2, <2>1, <2>2, <2>3 DEF LonelyLoadsAreExact, Loading
<1> QED
  BY <1>5, <1>7, <1>8, <1>9

LEMMA EachRuleStep ==
    ASSUME RulesInv, OutIsRecent, NEW t \in Thread, EachRule(t)
    PROVE  RulesInv' /\ OutIsRecent'
<1> USE DEF RulesInv
<1> DEFINE rule == active[index[t]]
<1>1. /\ at[t] = "each" /\ index[t] <= Len(active)
      /\ out' = [out EXCEPT ![t] = Append(@, rule)]
      /\ index' = [index EXCEPT ![t] = @ + 1]
      /\ UNCHANGED <<at, oldest, alone, file, active, parsed, read, kind, workload>>
  BY DEF EachRule, threadVars
<1>2. /\ active \in Seq(Item) /\ out[t] \in Seq(Item) /\ Len(active) \in Nat
      /\ index[t] \in DOMAIN active /\ rule \in Item
  <2>1. active \in Seq(Item) /\ out[t] \in Seq(Item) /\ index[t] \in Nat \ {0}
    BY DEF RequestTypeOK
  <2>2. Len(active) \in Nat /\ DOMAIN active = 1..Len(active)
    BY <2>1, LenProperties
  <2>3. index[t] \in 1..Len(active)
    BY <1>1, <2>1, <2>2
  <2> QED
    BY <2>1, <2>2, <2>3, ElementOfSeq
<1>3. /\ out'[t] \in Seq(Item) /\ Len(out'[t]) = Len(out[t]) + 1
      /\ DOMAIN out'[t] = 1..Len(out[t]) + 1 /\ DOMAIN out[t] = 1..Len(out[t])
      /\ Len(out[t]) \in Nat
      /\ \A i \in 1..Len(out[t]) : out'[t][i] = out[t][i]
      /\ out'[t][Len(out[t]) + 1] = rule
  <2>1. out'[t] = Append(out[t], rule)
    BY <1>1 DEF RequestTypeOK
  <2> QED
    BY <2>1, <1>2, AppendProperties, LenProperties
<1>4. /\ index'[t] = index[t] + 1 /\ index[t] \in Nat
      /\ \A u \in Thread : u # t => out'[u] = out[u] /\ index'[u] = index[u]
      /\ \A u \in Thread : Loading(u)' <=> Loading(u)
  BY <1>1 DEF RequestTypeOK, Loading
<1>5. RequestTypeOK'
  <2>1. out' \in [Thread -> Seq(Item)]
    BY <1>1, <1>2, <1>3 DEF RequestTypeOK
  <2>2. index' \in [Thread -> Nat \ {0}]
    BY <1>1, <1>4 DEF RequestTypeOK
  <2> QED
    BY <1>1, <2>1, <2>2 DEF RequestTypeOK
<1>6. LoadsAreRecent'
  BY <1>1, <1>4 DEF LoadsAreRecent
<1>7. OutIsRecent'
  <2>1. ASSUME read[t], NEW i \in DOMAIN out'[t]
        PROVE  out'[t][i].version >= oldest[t]
    <3>1. rule.version >= oldest[t] /\ Loading(t)
      BY <1>1, <1>2, <2>1 DEF LoadsAreRecent, Loading
    <3>2. CASE i = Len(out[t]) + 1
      BY <1>3, <3>1, <3>2
    <3>3. CASE i # Len(out[t]) + 1
      <4>1. i \in DOMAIN out[t] /\ out'[t][i] = out[t][i]
        BY <1>3, <2>1, <3>3
      <4> QED
        BY <4>1, <3>1, <2>1 DEF OutIsRecent
    <3> QED
      BY <3>2, <3>3
  <2> QED
    BY <1>1, <1>4, <2>1 DEF OutIsRecent
<1>8. RequestsBeginAfresh' /\ NoFileNoRules'
  BY <1>1, <1>4 DEF RequestsBeginAfresh, NoFileNoRules
<1>9. LonelyLoadsAreExact'
  <2>1. ASSUME alone[t]
        PROVE  /\ Len(out'[t]) + 1 = index'[t] /\ Len(out'[t]) <= Len(active)
               /\ \A i \in DOMAIN out'[t] : out'[t][i] = active[i]
    <3>1. /\ Len(out[t]) + 1 = index[t]
          /\ \A i \in DOMAIN out[t] : out[t][i] = active[i]
      BY <1>1, <2>1 DEF LonelyLoadsAreExact
    <3> QED
      BY <3>1, <1>1, <1>2, <1>3, <1>4
  <2> QED
    BY <1>1, <1>4, <2>1 DEF LonelyLoadsAreExact
<1> QED
  BY <1>5, <1>6, <1>7, <1>8, <1>9

LEMMA ReplyStep ==
    ASSUME RulesInv, OutIsRecent, NEW t \in Thread, Reply(t)
    PROVE  RulesInv' /\ OutIsRecent'
<1> USE DEF RulesInv
<1>1. /\ at[t] = "reply" /\ at' = [at EXCEPT ![t] = "idle"]
      /\ kind' = [kind EXCEPT ![t] = "file"] /\ parsed' = [parsed EXCEPT ![t] = 1]
      /\ index' = [index EXCEPT ![t] = 1] /\ out' = [out EXCEPT ![t] = <<>>]
      /\ read' = [read EXCEPT ![t] = FALSE]
      /\ UNCHANGED <<oldest, alone, file, active, workload>>
  BY DEF Reply, Goes
<1>2. /\ at'[t] = "idle" /\ ~read'[t] /\ out'[t] = <<>> /\ index'[t] = 1
      /\ \A u \in Thread : u # t => /\ at'[u] = at[u] /\ parsed'[u] = parsed[u]
                                   /\ index'[u] = index[u] /\ out'[u] = out[u]
                                   /\ read'[u] = read[u]
      /\ \A u \in Thread : Loading(u)' <=> Loading(u)
  BY <1>1 DEF RequestTypeOK, Loading
<1>3. RequestTypeOK'
  <2>1. out' \in [Thread -> Seq(Item)]
    BY <1>1, EmptySeq DEF RequestTypeOK
  <2> QED
    BY <1>1, <2>1, VersionProperties DEF RequestTypeOK, Stage, Kind
<1>4. LoadsAreRecent' /\ OutIsRecent'
  BY <1>1, <1>2 DEF LoadsAreRecent, OutIsRecent, Loading
<1>5. RequestsBeginAfresh' /\ NoFileNoRules'
  BY <1>1, <1>2 DEF RequestsBeginAfresh, NoFileNoRules
<1>6. LonelyLoadsAreExact'
  BY <1>1, <1>2 DEF LonelyLoadsAreExact
<1> QED
  BY <1>3, <1>4, <1>5, <1>6

\* The other programs.
LEMMA FileStep ==
    ASSUME RulesInv, OutIsRecent, CutsFile \/ WritesFile
    PROVE  RulesInv' /\ OutIsRecent'
<1> USE DEF RulesInv
<1>1. /\ UNCHANGED <<active, kind, at, parsed, index, out, oldest, read, workload>>
      /\ \A u \in Thread : Loading(u)' <=> Loading(u)
  BY DEF CutsFile, WritesFile, threadVars, Loading
<1>2. /\ file' \in [version : Version, state : {"absent", "cut", "whole"}]
      /\ alone' \in [Thread -> BOOLEAN]
      /\ file'.version >= file.version /\ file'.state # "absent"
      /\ \A u \in Thread : ~alone'[u]
  <2>1. CASE CutsFile
    <3>1. /\ file.version \in Version /\ file.version < workload.edits /\ workload.edits \in Version
          /\ file' = [version |-> file.version + 1, state |-> "cut"]
          /\ alone' = [u \in Thread |-> FALSE]
      BY <2>1, WebAssumption DEF CutsFile, RequestTypeOK
    <3>2. file.version + 1 \in Version /\ file.version \in Nat
      BY <3>1, LenProperties, WebAssumption DEF Version
    <3> QED
      BY <3>1, <3>2
  <2>2. CASE WritesFile
    <3>1. /\ file.state = "cut" /\ file' = [file EXCEPT !.state = "whole"] /\ alone' = alone
          /\ file.version \in Nat
      BY <2>2, VersionProperties DEF WritesFile, RequestTypeOK
    <3>2. /\ file' \in [version : Version, state : {"absent", "cut", "whole"}]
          /\ file'.version = file.version /\ file'.state = "whole"
      BY <3>1 DEF RequestTypeOK
    <3>3. alone \in [Thread -> BOOLEAN] /\ \A u \in Thread : ~alone[u]
      BY <3>1 DEF RequestTypeOK, LonelyLoadsAreExact
    <3> QED
      BY <3>1, <3>2, <3>3
  <2> QED
    BY <2>1, <2>2
<1>3. RequestTypeOK'
  BY <1>1, <1>2 DEF RequestTypeOK
<1>4. LoadsAreRecent'
  <2>1. \A u \in Thread : oldest[u] \in Nat /\ file.version \in Nat /\ file'.version \in Nat
    BY <1>2, VersionProperties DEF RequestTypeOK
  <2> QED
    BY <1>1, <1>2, <2>1 DEF LoadsAreRecent
<1>5. OutIsRecent' /\ RequestsBeginAfresh' /\ NoFileNoRules' /\ LonelyLoadsAreExact'
  BY <1>1, <1>2 DEF OutIsRecent, RequestsBeginAfresh, NoFileNoRules, LonelyLoadsAreExact
<1> QED
  BY <1>3, <1>4, <1>5

\* Steps that leave the rules and the threads alone.
LEMMA ElsewhereStep ==
    ASSUME RulesInv, OutIsRecent, UNCHANGED <<rulesVars, threadVars, workload>>
    PROVE  RulesInv' /\ OutIsRecent'
BY DEF rulesVars, threadVars, RulesInv, RequestTypeOK, LoadsAreRecent, RequestsBeginAfresh,
       NoFileNoRules, LonelyLoadsAreExact, OutIsRecent, Loading

LEMMA RulesNext ==
    ASSUME RulesInv, OutIsRecent, [Next]_vars
    PROVE  RulesInv' /\ OutIsRecent'
<1>1. CASE CutsFile \/ WritesFile
  BY <1>1, FileStep
<1>2. CASE Tick \/ ReadSensors \/ UNCHANGED vars
  BY <1>2, ElsewhereStep DEF Tick, ReadSensors, vars
<1>3. ASSUME NEW t \in Thread, Get(t) \/ Serve(t)
      PROVE  RulesInv' /\ OutIsRecent'
  <2>1. CASE Get(t)
    <3>1. PICK k \in Kind : kind' = [kind EXCEPT ![t] = k] /\ Goes(t, FirstStage[k])
      BY <2>1, WebAssumption DEF Get, RulesInv, RequestTypeOK
    <3>2. /\ at[t] = "idle" /\ UNCHANGED <<file, active, parsed, index, out, read, workload>>
          /\ kind' \in [Thread -> Kind]
      BY <2>1, <3>1 DEF Get, RulesInv, RequestTypeOK
    <3>3. CASE k = "rules"
      BY <3>1, <3>2, <3>3, GoesToLoad DEF FirstStage, Unread
    <3>4. CASE k # "rules"
      <4>1. FirstStage[k] \in {"look", "docker", "nodes", "file"}
        BY <3>1, <3>4 DEF FirstStage, Kind
      <4> HIDE DEF FirstStage
      <4> DEFINE s == FirstStage[k]
      <4>2. s \in Stage /\ LeadsElsewhere(t, s)
        BY <3>2, <4>1 DEF Unread, Stage, LeadsElsewhere
      <4> QED
        BY <3>1, <3>2, <4>2, GoesElsewhere
    <3> QED
      BY <3>3, <3>4
  <2>2. CASE Reply(t)
    BY <2>2, ReplyStep
  <2>3. CASE Load(t) \/ Clear(t) \/ Extend(t) \/ EachRule(t)
    BY <2>3, LoadStep, ClearStep, ExtendStep, EachRuleStep
  <2>4. CASE Look(t) \/ Debounce(t)
    <3>1. /\ at[t] \in Unread /\ UNCHANGED <<file, active, parsed, index, out, read, kind, workload>>
          /\ kind' \in [Thread -> Kind]
          /\ \E s \in {"load", "reply", "debounce"} : Goes(t, s)
      BY <2>4 DEF Look, Debounce, AfterMetrics, Unread, RulesInv, RequestTypeOK
    <3>2. CASE Goes(t, "load")
      BY <3>1, <3>2, GoesToLoad
    <3>3. ASSUME NEW s \in {"reply", "debounce"}, Goes(t, s)
          PROVE  RulesInv' /\ OutIsRecent'
      <4>1. s \in Stage /\ LeadsElsewhere(t, s)
        BY <3>1 DEF Unread, Stage, LeadsElsewhere
      <4> QED
        BY <3>1, <3>3, <4>1, GoesElsewhere
    <3> QED
      BY <3>1, <3>2, <3>3
  <2>5. CASE SendFile(t) \/ MetricsRaise(t) \/ RulesDone(t) \/ AskDocker(t) \/ GatherDocker(t)
             \/ ReportNodes(t)
    <3>1. /\ UNCHANGED <<file, active, parsed, index, out, read, kind, workload>>
          /\ kind' \in [Thread -> Kind]
          /\ \E s \in {"reply", "docker", "gather", "nodes"} : Goes(t, s)
      BY <2>5 DEF SendFile, MetricsRaise, RulesDone, AskDocker, GatherDocker, ReportNodes,
                  AfterRules, AfterDocker, RulesInv, RequestTypeOK
    <3>2. ASSUME NEW s \in {"reply", "docker", "gather", "nodes"}, Goes(t, s)
          PROVE  RulesInv' /\ OutIsRecent'
      <4>1. s \in Stage /\ LeadsElsewhere(t, s)
        BY DEF Unread, Stage, LeadsElsewhere
      <4>2. UNCHANGED <<file, active, parsed, index, out, read, workload>>
        BY <3>1
      <4> QED
        BY <3>1, <3>2, <4>1, <4>2, GoesElsewhere
    <3> QED
      BY <3>1, <3>2
  <2> QED
    BY <1>3, <2>1, <2>2, <2>3, <2>4, <2>5 DEF Serve
<1> QED
  BY <1>1, <1>2, <1>3 DEF Next

-----------------------------------------------------------------------------
(* The sensors                                                             *)

\* A look, which begins no reader; one that finds the read due finds no reader
\* of any thread running.
LEMMA LookSensors ==
    ASSUME SensorInv, RequestTypeOK, NEW t \in Thread, Look(t)
    PROVE  SensorInv'
<1>1. /\ UNCHANGED <<cached, lastRead, reader, good>> /\ gap' = 0
      /\ \/ Due /\ at' = [at EXCEPT ![t] = "debounce"]
         \/ at' = [at EXCEPT ![t] = "load"] \/ at' = [at EXCEPT ![t] = "reply"]
  BY DEF Look, LooksFresh, LooksDue, AfterMetrics, Goes
<1>2. SensorTypeOK'
  BY <1>1, SensorAssumption DEF SensorInv, SensorTypeOK
<1>3. ASSUME Due
      PROVE  ~Running(t)
  BY <1>3, SensorAssumption DEF SensorInv, SensorTypeOK, ReadersAreFew, Due
<1>4. ReadersAreFew'
  BY <1>1, <1>3 DEF SensorInv, ReadersAreFew, Running, RequestTypeOK
<1> QED
  BY <1>2, <1>4 DEF SensorInv

LEMMA DebounceSensors ==
    ASSUME SensorInv, RequestTypeOK, NEW t \in Thread, Debounce(t)
    PROVE  SensorInv'
<1>1. /\ UNCHANGED <<cached, gap, good>> /\ lastRead' = 0
      /\ reader' = [reader EXCEPT ![t] = [at |-> "sense", ran |-> 0, age |-> 0]]
      /\ \E s \in {"load", "reply"} : at' = [at EXCEPT ![t] = s]
  BY DEF Debounce, StartsReader, AfterMetrics, Goes
<1>2. SensorTypeOK'
  BY <1>1, SensorAssumption DEF SensorInv, SensorTypeOK
<1>3. ASSUME NEW u \in Thread
      PROVE  /\ at'[u] = "debounce" => u # t /\ at[u] = "debounce"
             /\ u = t => reader'[u] = [at |-> "sense", ran |-> 0, age |-> 0]
             /\ u # t => reader'[u] = reader[u]
             /\ reader[u].ran \in Nat
  BY <1>1, SensorAssumption DEF SensorInv, SensorTypeOK, RequestTypeOK
<1>4. ReadersAreFew'
  BY <1>1, <1>3 DEF SensorInv, ReadersAreFew, Running
<1> QED
  BY <1>2, <1>4 DEF SensorInv

\* A step of a thread that does not come to its debounce.
LEMMA OtherSensors ==
    ASSUME SensorInv, RequestTypeOK, NEW t \in Thread, NEW s \in Stage \ {"debounce"},
           at' = [at EXCEPT ![t] = s], UNCHANGED sensorVars
    PROVE  SensorInv'
BY DEF SensorInv, SensorTypeOK, ReadersAreFew, Running, sensorVars, RequestTypeOK

LEMMA ReaderSensors ==
    ASSUME SensorInv, ReaderNext, UNCHANGED at
    PROVE  SensorInv'
<1> USE DEF SensorInv
<1>1. PICK t \in Thread : Sense(t) \/ SenseFails(t) \/ Store(t) \/ Stamp(t)
  BY DEF ReaderNext
<1>2. /\ Running(t) /\ gap' = gap /\ good' \in {good, 0}
      /\ cached' \in {cached, reader[t].age} /\ lastRead' \in {lastRead, 0}
      /\ \E r \in {[reader[t] EXCEPT !.at = "store"], [reader[t] EXCEPT !.at = "stamp"],
                   [reader[t] EXCEPT !.at = "stamp", !.age = 0], NoReader} :
            reader' = [reader EXCEPT ![t] = r]
  BY <1>1 DEF Sense, SenseFails, Store, Stamp, Running, SensorTypeOK
<1>3. /\ reader[t] \in [at : {"none", "sense", "store", "stamp"}, ran : 0..ReadTime, age : 0..ReadTime]
      /\ ReadTime \in Nat /\ Staleness \in Nat /\ ReadTime <= Staleness
      /\ lastRead \in Nat
      /\ lastRead <= reader[t].ran /\ reader[t].age <= reader[t].ran
  BY <1>2, SensorAssumption DEF SensorTypeOK, Staleness, ReadersAreFew
<1>4. PICK r : /\ reader' = [reader EXCEPT ![t] = r]
               /\ r \in [at : {"none", "sense", "store", "stamp"}, ran : 0..ReadTime, age : 0..ReadTime]
               /\ r.at # "none" => r.ran = reader[t].ran /\ r.age <= r.ran
  <2>1. PICK r \in {[reader[t] EXCEPT !.at = "store"], [reader[t] EXCEPT !.at = "stamp"],
                   [reader[t] EXCEPT !.at = "stamp", !.age = 0], NoReader} :
            reader' = [reader EXCEPT ![t] = r]
    BY <1>2
  <2>2. 0 \in 0..ReadTime /\ reader[t].ran \in Nat
    BY <1>3
  <2> DEFINE Fits == /\ r \in [at : {"none", "sense", "store", "stamp"}, ran : 0..ReadTime,
                              age : 0..ReadTime]
                     /\ r.at # "none" => r.ran = reader[t].ran /\ r.age <= r.ran
  <2>3. CASE r \in {[reader[t] EXCEPT !.at = "store"], [reader[t] EXCEPT !.at = "stamp"]}
    <3>1. Fits
      BY <1>3, <2>3
    <3> QED
      BY <2>1, <3>1
  <2>4. CASE r = [reader[t] EXCEPT !.at = "stamp", !.age = 0]
    <3>1. r = [at |-> "stamp", ran |-> reader[t].ran, age |-> 0]
      BY <1>3, <2>4
    <3>2. Fits
      BY <1>3, <2>2, <3>1
    <3> QED
      BY <2>1, <3>2
  <2>5. CASE r = NoReader
    <3>1. Fits
      BY <2>2, <2>5 DEF NoReader
    <3> QED
      BY <2>1, <3>1
  <2> QED
    BY <2>1, <2>3, <2>4, <2>5
<1>5. SensorTypeOK'
  BY <1>2, <1>3, <1>4, SensorAssumption DEF SensorTypeOK
<1>6. ReadersAreFew'
  <2>1. ASSUME NEW u \in Thread, u # t
        PROVE  reader'[u] = reader[u] /\ reader[u].ran \in Nat
    BY <1>4, <2>1, SensorAssumption DEF SensorTypeOK
  <2>2. reader'[t] = r /\ r.ran \in Nat
    BY <1>3, <1>4 DEF SensorTypeOK
  <2> QED
    BY <1>2, <1>3, <1>4, <2>1, <2>2 DEF ReadersAreFew, Running
<1> QED
  BY <1>5, <1>6

LEMMA TickSensors ==
    ASSUME SensorInv, Tick
    PROVE  SensorInv'
<1> USE DEF SensorInv
<1>1. /\ \A t \in Thread : Running(t) => reader[t].ran < ReadTime
      /\ cached' = Older(cached, Staleness + 1) /\ lastRead' = Older(lastRead, Interval + 1)
      /\ gap' = Older(gap, PollGap + 1) /\ good' \in {0, Older(good, Staleness)}
      /\ reader' = [t \in Thread |->
                      IF ~Running(t) THEN NoReader
                      ELSE [reader[t] EXCEPT !.ran = @ + 1,
                                             !.age = IF reader[t].at = "store" THEN @ + 1 ELSE @]]
      /\ at' = at
  BY DEF Tick, SensorTick, threadVars
<1>2. Staleness \in Nat
  BY SensorAssumption DEF Staleness
<1>3. /\ cached' \in 0..Staleness + 1 /\ lastRead' \in 0..Interval + 1 /\ lastRead' <= lastRead + 1
      /\ gap' \in 0..PollGap + 1 /\ good' \in 0..Staleness /\ lastRead \in Nat
  <2>1. \A n \in Nat : \A x \in 0..n : Older(x, n) \in 0..n /\ Older(x, n) <= x + 1
    BY DEF Older
  <2>2. /\ cached \in 0..Staleness + 1 /\ lastRead \in 0..Interval + 1
        /\ gap \in 0..PollGap + 1 /\ good \in 0..Staleness
    BY DEF SensorTypeOK
  <2>3. Staleness + 1 \in Nat /\ Interval + 1 \in Nat /\ PollGap + 1 \in Nat /\ lastRead \in Nat
    BY <1>2, <2>2, SensorAssumption
  <2>4. Older(good, Staleness) \in 0..Staleness
    BY <1>2, <2>1, <2>2
  <2>5. 0 \in 0..Staleness
    BY <1>2
  <2> QED
    BY <1>1, <2>1, <2>2, <2>3, <2>4, <2>5
<1>4. ASSUME NEW t \in Thread
      PROVE  /\ reader'[t] \in [at : {"none", "sense", "store", "stamp"}, ran : 0..ReadTime,
                                age : 0..ReadTime]
             /\ Running(t)' <=> Running(t)
             /\ Running(t) => lastRead' <= reader'[t].ran /\ reader'[t].age <= reader'[t].ran
  <2>1. /\ reader[t] \in [at : {"none", "sense", "store", "stamp"}, ran : 0..ReadTime,
                          age : 0..ReadTime]
    BY DEF SensorTypeOK
  <2>2. CASE ~Running(t)
    <3>1. reader'[t] = NoReader
      BY <1>1, <2>2
    <3>2. 0 \in 0..ReadTime
      BY SensorAssumption
    <3> QED
      BY <2>2, <3>1, <3>2 DEF NoReader, Running
  <2>3. CASE Running(t)
    <3>1. /\ lastRead <= reader[t].ran /\ reader[t].age <= reader[t].ran /\ reader[t].ran < ReadTime
      BY <1>1, <2>3 DEF ReadersAreFew
    <3>2. PICK a : /\ a \in {reader[t].age, reader[t].age + 1}
                   /\ reader'[t] = [reader[t] EXCEPT !.ran = @ + 1, !.age = a]
      BY <1>1, <2>3
    <3>3. /\ reader'[t].ran = reader[t].ran + 1 /\ reader'[t].age = a /\ reader'[t].at = reader[t].at
          /\ reader'[t] = [at |-> reader[t].at, ran |-> reader[t].ran + 1, age |-> a]
      BY <2>1, <3>2
    <3>4. reader[t].ran \in 0..ReadTime /\ reader[t].age \in 0..ReadTime
      BY <2>1
    <3>5. reader[t].ran + 1 \in 0..ReadTime /\ a \in 0..ReadTime /\ a <= reader[t].ran + 1
      BY <3>1, <3>2, <3>4, SensorAssumption
    <3>6. lastRead' <= reader[t].ran + 1
      BY <1>3, <3>1, <3>4, SensorAssumption
    <3>7. Running(t)'
      BY <2>3, <3>3 DEF Running
    <3> QED
      BY <2>1, <2>3, <3>3, <3>5, <3>6, <3>7
  <2> QED
    BY <2>2, <2>3
<1>5. SensorTypeOK'
  <2>1. reader' \in [Thread -> [at : {"none", "sense", "store", "stamp"}, ran : 0..ReadTime,
                                age : 0..ReadTime]]
    BY <1>1, <1>4
  <2> QED
    BY <1>2, <1>3, <2>1 DEF SensorTypeOK, Staleness
<1>6. ReadersAreFew'
  BY <1>1, <1>4 DEF ReadersAreFew
<1> QED
  BY <1>5, <1>6

LEMMA SensorsNext ==
    ASSUME SensorInv, RulesInv, [Next]_vars
    PROVE  SensorInv'
<1>1. RequestTypeOK
  BY DEF RulesInv
<1>2. CASE CutsFile \/ WritesFile \/ UNCHANGED vars
  BY <1>2 DEF CutsFile, WritesFile, vars, threadVars, sensorVars, SensorInv, SensorTypeOK,
              ReadersAreFew, Running
<1>3. CASE Tick
  BY <1>3, TickSensors
<1>4. CASE ReadSensors
  BY <1>4, ReaderSensors DEF ReadSensors, threadVars
<1>5. ASSUME NEW t \in Thread, Get(t) \/ Serve(t)
      PROVE  SensorInv'
  <2>1. CASE Look(t)
    BY <1>1, <2>1, LookSensors
  <2>2. CASE Debounce(t)
    BY <1>1, <2>2, DebounceSensors
  <2>3. CASE Get(t)
    <3>1. PICK k \in Kind : Goes(t, FirstStage[k])
      BY <1>1, <2>3, WebAssumption DEF Get, RequestTypeOK
    <3>2. FirstStage[k] \in Stage \ {"debounce"}
      BY <3>1 DEF FirstStage, Kind, Stage
    <3> QED
      BY <1>1, <2>3, <3>1, <3>2, OtherSensors DEF Get, Goes
  <2>4. CASE EachRule(t)
    BY <2>4 DEF EachRule, threadVars, sensorVars, SensorInv, SensorTypeOK, ReadersAreFew, Running
  <2>5. CASE \/ Reply(t) \/ SendFile(t) \/ MetricsRaise(t) \/ Load(t) \/ Clear(t) \/ Extend(t)
             \/ RulesDone(t) \/ AskDocker(t) \/ GatherDocker(t) \/ ReportNodes(t)
    <3>1. /\ UNCHANGED sensorVars
          /\ \E s \in Stage \ {"debounce"} : at' = [at EXCEPT ![t] = s]
      BY <2>5 DEF Reply, SendFile, MetricsRaise, Load, Clear, Extend, RulesDone, AskDocker,
                  GatherDocker, ReportNodes, Goes, Stage, AfterRules, AfterDocker
    <3> QED
      BY <1>1, <3>1, OtherSensors
  <2> QED
    BY <1>5, <2>1, <2>2, <2>3, <2>4, <2>5 DEF Serve
<1> QED
  BY <1>2, <1>3, <1>4, <1>5 DEF Next

-----------------------------------------------------------------------------
(* How old the temperatures are                                            *)

\* The ages and times are numbers.
LEMMA Ages ==
    ASSUME SensorInv
    PROVE  /\ ReadTime \in Nat /\ Interval \in Nat /\ PollGap \in Nat /\ ReadTime < Interval
           /\ cached \in Nat /\ lastRead \in Nat /\ gap \in Nat /\ good \in Nat
           /\ \A t \in Thread : reader[t].ran \in 0..ReadTime /\ reader[t].age \in 0..ReadTime
BY SensorAssumption DEF SensorInv, SensorTypeOK, Staleness

\* A step that leaves alone what the invariant speaks of, but for where a thread
\* is that neither comes to its debounce nor leaves it.
LEMMA OtherTimely ==
    ASSUME SensorsAreTimely, UNCHANGED sensorVars,
           \A u \in Thread : at'[u] = "debounce" <=> at[u] = "debounce"
    PROVE  SensorsAreTimely'
BY DEF SensorsAreTimely, Bounded, Running, Due, sensorVars

LEMMA LookTimely ==
    ASSUME SensorInv, SensorsAreTimely, RequestTypeOK, NEW t \in Thread, Look(t)
    PROVE  SensorsAreTimely'
<1>1. /\ UNCHANGED <<cached, lastRead, reader, good>> /\ gap' = 0 /\ at[t] = "look"
      /\ \/ Due /\ at' = [at EXCEPT ![t] = "debounce"]
         \/ ~Due /\ (at' = [at EXCEPT ![t] = "load"] \/ at' = [at EXCEPT ![t] = "reply"])
  BY DEF Look, LooksFresh, LooksDue, AfterMetrics, Goes
<1>2. \A u \in Thread : u # t => at'[u] = at[u]
  BY <1>1 DEF RequestTypeOK
<1>3. CASE ~Due
  <2>1. at'[t] \in {"load", "reply"}
    BY <1>1, <1>3 DEF RequestTypeOK
  <2> QED
    BY <1>1, <1>2, <1>3, <2>1, Ages DEF SensorsAreTimely, Bounded, Running, Due
<1>4. CASE Due
  <2>1. at'[t] = "debounce"
    BY <1>1, <1>4 DEF RequestTypeOK
  <2>2. ASSUME NEW u \in Thread
        PROVE  ~Running(u)
    BY <1>4, Ages DEF SensorInv, ReadersAreFew, Due
  <2>3. Bounded(ReadTime + Interval + PollGap)
    BY <1>4, <2>2, Ages DEF SensorsAreTimely, Bounded
  <2>4. \A u \in Thread : ~Running(u)' /\ reader'[u].at = "none"
    BY <1>1, <2>2 DEF Running
  <2> QED
    BY <1>1, <1>4, <2>1, <2>3, <2>4, Ages DEF SensorsAreTimely, Bounded, Due
<1> QED
  BY <1>3, <1>4

\* A reader begins, in the tick of the look.
LEMMA DebounceTimely ==
    ASSUME SensorInv, SensorsAreTimely, RequestTypeOK, NEW t \in Thread, Debounce(t)
    PROVE  SensorsAreTimely'
<1>1. /\ UNCHANGED <<cached, gap, good>> /\ lastRead' = 0 /\ at[t] = "debounce"
      /\ reader' = [reader EXCEPT ![t] = [at |-> "sense", ran |-> 0, age |-> 0]]
      /\ \E s \in {"load", "reply"} : at' = [at EXCEPT ![t] = s]
  BY DEF Debounce, StartsReader, AfterMetrics, Goes
<1>2. /\ reader'[t].at = "sense" /\ reader'[t].ran = 0 /\ Running(t)'
      /\ \A u \in Thread : u # t => reader'[u] = reader[u]
      /\ \A u \in Thread : at'[u] = "debounce" => at[u] = "debounce"
  BY <1>1 DEF SensorInv, SensorTypeOK, RequestTypeOK, Running
<1>3. \A u \in Thread : Running(u) => reader[u].ran = 0
  BY <1>1 DEF SensorsAreTimely
<1>4. \A u \in Thread : Running(u)' => reader'[u].ran = 0
  BY <1>2, <1>3 DEF Running
<1>5. Bounded(ReadTime + Interval + PollGap)
  <2>1. ASSUME NEW u \in Thread, Running(u)
        PROVE  Bounded(ReadTime + Interval + PollGap)
    <3>1. reader[u].ran = 0 /\ Bounded(ReadTime + Interval + PollGap + reader[u].ran)
      BY <1>3, <2>1 DEF SensorsAreTimely
    <3>2. ReadTime + Interval + PollGap + 0 = ReadTime + Interval + PollGap
      BY Ages
    <3> QED
      BY <3>1, <3>2
  <2>2. CASE \A u \in Thread : ~Running(u)
    <3>1. \/ Bounded(ReadTime + Interval + PollGap)
          \/ ~Due /\ Bounded(ReadTime + lastRead)
      BY <1>1, <2>2 DEF SensorsAreTimely
    <3> QED
      BY <3>1, Ages DEF Bounded, Due
  <2> QED
    BY <2>1, <2>2
<1>6. \A u \in Thread : Running(u)' =>
          Bounded(ReadTime + Interval + PollGap + reader[u].ran)'
  BY <1>1, <1>4, <1>5, Ages DEF Bounded
<1>7. \A u \in Thread : reader'[u].at = "stamp" => Bounded(reader[u].ran)'
  BY <1>1, <1>2 DEF SensorsAreTimely, Bounded
<1> QED
  BY <1>1, <1>2, <1>4, <1>6, <1>7 DEF SensorsAreTimely

\* A step of a reader; the one that is done leaves a temperature that was read
\* when the readers began.
LEMMA ReaderTimely ==
    ASSUME SensorInv, SensorsAreTimely, ReaderNext, UNCHANGED at
    PROVE  SensorsAreTimely'
<1>1. PICK t \in Thread : Sense(t) \/ SenseFails(t) \/ Store(t) \/ Stamp(t)
  BY DEF ReaderNext
<1>2. /\ Running(t) /\ gap' = gap
      /\ lastRead <= reader[t].ran /\ reader[t].age <= reader[t].ran
  BY <1>1 DEF Sense, SenseFails, Store, Stamp, Running, SensorInv, ReadersAreFew
<1>3. /\ \A u \in Thread : u # t => reader'[u] = reader[u]
      /\ reader'[t].at # "none" => Running(t)' /\ reader'[t].ran = reader[t].ran
  <2>1. /\ reader \in [Thread -> [at : {"none", "sense", "store", "stamp"},
                                  ran : 0..ReadTime, age : 0..ReadTime]]
    BY DEF SensorInv, SensorTypeOK
  <2>2. CASE Sense(t) \/ SenseFails(t)
    BY <2>1, <2>2 DEF Sense, SenseFails, Running
  <2>3. CASE Store(t)
    BY <2>1, <2>3 DEF Store, Running
  <2>4. CASE Stamp(t)
    BY <2>1, <2>4 DEF Stamp, NoReader
  <2> QED
    BY <1>1, <2>2, <2>3, <2>4
<1>4. \A u \in Thread : Running(u)' => Running(u) /\ reader'[u].ran = reader[u].ran
  BY <1>2, <1>3 DEF Running
<1>5. \A u \in Thread : Running(u) => reader[u].ran = reader[t].ran
  BY <1>2 DEF SensorsAreTimely
<1>6. CASE Sense(t) \/ SenseFails(t)
  <2>1. /\ UNCHANGED <<cached, lastRead>>
        /\ \/ good' = good /\ reader'[t].at = "store"
           \/ good' = 0 /\ reader'[t].at = "stamp"
    BY <1>6 DEF Sense, SenseFails, SensorInv, SensorTypeOK
  <2>2. Running(t)'
    BY <2>1 DEF Running
  <2> QED
    BY <1>2, <1>3, <1>4, <2>1, <2>2, Ages DEF SensorsAreTimely, Bounded
<1>7. CASE Store(t)
  <2>1. /\ cached' = reader[t].age /\ UNCHANGED <<lastRead, good>> /\ reader'[t].at = "stamp"
    BY <1>7 DEF Store, SensorInv, SensorTypeOK
  <2>2. Running(t)'
    BY <2>1 DEF Running
  <2>3. cached' <= reader[t].ran /\ reader[t].ran \in Nat /\ cached' \in Nat
    BY <1>2, <2>1, Ages
  <2>4. \A u \in Thread : Running(u)' => reader'[u].ran = reader[t].ran
    BY <1>4, <1>5
  <2>5. \A u \in Thread : Running(u)' =>
            Bounded(reader[u].ran)' /\ Bounded(ReadTime + Interval + PollGap + reader[u].ran)'
    BY <2>3, <2>4, Ages DEF Bounded
  <2>6. \A u \in Thread : reader'[u].at = "stamp" => Running(u)'
    BY DEF Running
  <2>7. \A u, v \in Thread : at'[u] = "debounce" /\ Running(v)' => reader'[v].ran = 0
    BY <1>4 DEF SensorsAreTimely
  <2> QED
    BY <1>2, <2>1, <2>2, <2>4, <2>5, <2>6, <2>7 DEF SensorsAreTimely
<1>8. CASE Stamp(t)
  <2>1. /\ lastRead' = 0 /\ UNCHANGED <<cached, good>> /\ ~Running(t)' /\ reader[t].at = "stamp"
    BY <1>8 DEF Stamp, NoReader, Running, SensorInv, SensorTypeOK
  <2>2. Bounded(ReadTime + lastRead)' /\ ~Due'
    BY <2>1, Ages DEF SensorsAreTimely, Bounded, Due
  <2>3. \A u \in Thread : reader'[u].at = "stamp" => Bounded(reader[u].ran)'
    BY <1>3, <2>1 DEF SensorsAreTimely, Bounded, Running
  <2>4. \A u \in Thread : Running(u)' => Bounded(ReadTime + Interval + PollGap + reader[u].ran)'
    BY <1>4, <2>1 DEF SensorsAreTimely, Bounded
  <2> QED
    BY <1>2, <1>4, <2>1, <2>2, <2>3, <2>4 DEF SensorsAreTimely
<1> QED
  BY <1>1, <1>6, <1>7, <1>8

\* Within a tick every age grows by one, and with it what bounds it.
LEMMA TickTimely ==
    ASSUME SensorInv, SensorsAreTimely, Tick
    PROVE  SensorsAreTimely'
<1>1. /\ cached' = Older(cached, Staleness + 1) /\ lastRead' = Older(lastRead, Interval + 1)
      /\ gap' = Older(gap, PollGap + 1)
      /\ good' = IF gap' > PollGap THEN 0 ELSE Older(good, Staleness)
      /\ at' = at /\ \A t \in Thread : at[t] # "debounce"
  BY DEF Tick, SensorTick, threadVars
<1>2. /\ cached' \in Nat /\ good' \in Nat /\ cached' <= cached + 1 /\ good' <= good + 1
      /\ lastRead' = lastRead + 1 \/ (lastRead > Interval /\ lastRead' = lastRead)
      /\ gap' = gap + 1 \/ (gap > PollGap /\ gap' = gap)
  <2>1. Staleness \in Nat
    BY SensorAssumption DEF Staleness
  <2>2. \A x, n \in Nat : Older(x, n) \in Nat /\ Older(x, n) <= x + 1
    BY DEF Older
  <2>3. cached' \in Nat /\ cached' <= cached + 1
    <3>1. cached \in Nat /\ Staleness + 1 \in Nat
      BY <2>1, Ages
    <3> QED
      BY <1>1, <2>2, <3>1
  <2>4. good' \in Nat /\ good' <= good + 1
    <3>1. good \in Nat
      BY Ages
    <3>2. good' = 0 \/ good' = Older(good, Staleness)
      BY <1>1
    <3>3. Older(good, Staleness) \in Nat /\ Older(good, Staleness) <= good + 1
      BY <2>1, <2>2, <3>1
    <3> QED
      BY <3>1, <3>2, <3>3
  <2>5. \A x, n \in Nat : Older(x, n + 1) = x + 1 \/ (x > n /\ Older(x, n + 1) = x)
    BY DEF Older
  <2>6. lastRead' = lastRead + 1 \/ (lastRead > Interval /\ lastRead' = lastRead)
    <3>1. lastRead \in Nat /\ Interval \in Nat
      BY Ages
    <3> QED
      BY <1>1, <2>5, <3>1
  <2>7. gap' = gap + 1 \/ (gap > PollGap /\ gap' = gap)
    <3>1. gap \in Nat /\ PollGap \in Nat
      BY Ages
    <3> QED
      BY <1>1, <2>5, <3>1
  <2> QED
    BY <2>3, <2>4, <2>6, <2>7
<1>3. ASSUME NEW b \in Nat, Bounded(b)
      PROVE  cached' <= b + 1 \/ good' <= b + 1
  BY <1>2, <1>3, Ages DEF Bounded
<1>4. ASSUME NEW t \in Thread
      PROVE  /\ Running(t)' <=> Running(t)
             /\ Running(t) => reader'[t].at = reader[t].at /\ reader'[t].ran = reader[t].ran + 1
             /\ ~Running(t) => reader'[t].at = "none"
  <2>1. reader'[t] = IF ~Running(t) THEN NoReader
                     ELSE [reader[t] EXCEPT !.ran = @ + 1,
                                            !.age = IF reader[t].at = "store" THEN @ + 1 ELSE @]
    BY DEF Tick, SensorTick
  <2>2. reader[t] \in [at : {"none", "sense", "store", "stamp"}, ran : 0..ReadTime, age : 0..ReadTime]
    BY DEF SensorInv, SensorTypeOK
  <2> QED
    BY <2>1, <2>2 DEF Running, NoReader
<1>5. gap' > PollGap => good' = 0
  BY <1>1
<1>6. \A t \in Thread : reader'[t].at = "stamp" => Bounded(reader[t].ran)'
  <2>1. SUFFICES ASSUME NEW t \in Thread, reader'[t].at = "stamp"
                 PROVE  Bounded(reader[t].ran)'
    OBVIOUS
  <2>2. reader[t].at = "stamp" /\ reader'[t].ran = reader[t].ran + 1
    BY <1>4, <2>1
  <2>3. Bounded(reader[t].ran) /\ reader[t].ran \in Nat
    BY <2>2, Ages DEF SensorsAreTimely
  <2> QED
    BY <1>3, <2>2, <2>3 DEF Bounded
<1>7. \A t \in Thread : Running(t)' => Bounded(ReadTime + Interval + PollGap + reader[t].ran)'
  <2>1. SUFFICES ASSUME NEW t \in Thread, Running(t)
                 PROVE  Bounded(ReadTime + Interval + PollGap + reader[t].ran)'
    BY <1>4
  <2>2. reader'[t].ran = reader[t].ran + 1 /\ reader[t].ran \in Nat
    BY <1>4, <2>1, Ages
  <2>3. Bounded(ReadTime + Interval + PollGap + reader[t].ran)
    BY <2>1 DEF SensorsAreTimely
  <2>4. ReadTime + Interval + PollGap + reader[t].ran \in Nat
    BY <2>2, Ages
  <2>5. \/ cached' <= (ReadTime + Interval + PollGap + reader[t].ran) + 1
        \/ good' <= (ReadTime + Interval + PollGap + reader[t].ran) + 1
    BY <1>3, <2>3, <2>4
  <2> QED
    BY <1>2, <2>2, <2>5, Ages DEF Bounded
<1>8. ASSUME \A t \in Thread : ~Running(t)
      PROVE  \/ ~Due' /\ Bounded(ReadTime + lastRead)'
             \/ Due' /\ Bounded(ReadTime + Interval + gap)'
  <2>1. CASE ~Due
    <3>1. Bounded(ReadTime + lastRead) /\ ReadTime + lastRead \in Nat /\ lastRead <= Interval
      BY <1>8, <2>1, Ages DEF SensorsAreTimely, Due
    <3>2. cached' <= ReadTime + lastRead + 1 \/ good' <= ReadTime + lastRead + 1
      BY <1>3, <3>1
    <3>3. lastRead' = lastRead + 1 /\ gap' \in Nat /\ gap' >= 1
      BY <1>2, <3>1, Ages
    <3>4. ReadTime + lastRead + 1 <= ReadTime + Interval + gap'
      BY <3>1, <3>3, Ages
    <3>5. CASE lastRead' <= Interval
      BY <3>2, <3>3, <3>5, Ages DEF Bounded, Due
    <3>6. CASE ~(lastRead' <= Interval)
      BY <1>2, <3>1, <3>2, <3>3, <3>4, <3>6, Ages DEF Bounded, Due
    <3> QED
      BY <3>5, <3>6
  <2>2. CASE Due
    <3>1. Bounded(ReadTime + Interval + gap) /\ ReadTime + Interval + gap \in Nat
      <4>1. Bounded(ReadTime + Interval + gap)
        BY <1>1, <1>8, <2>2 DEF SensorsAreTimely
      <4> QED
        BY <4>1, Ages
    <3>2. \/ cached' <= ReadTime + Interval + gap + 1
          \/ good' <= ReadTime + Interval + gap + 1
      BY <1>3, <3>1
    <3>3. Due'
      BY <1>2, <2>2, Ages DEF Due
    <3>4. CASE gap' = gap + 1
      BY <1>2, <3>2, <3>3, <3>4, Ages DEF Bounded
    <3>5. CASE gap > PollGap /\ gap' = gap
      BY <1>5, <3>3, <3>5, Ages DEF Bounded
    <3> QED
      BY <1>2, <3>4, <3>5
  <2> QED
    BY <2>1, <2>2
<1>9. \A t, u \in Thread : Running(t)' /\ Running(u)' => reader'[t].ran = reader'[u].ran
  BY <1>4 DEF SensorsAreTimely
<1> QED
  BY <1>1, <1>4, <1>5, <1>6, <1>7, <1>8, <1>9 DEF SensorsAreTimely

LEMMA TimelyNext ==
    ASSUME SensorInv, SensorsAreTimely, RulesInv, [Next]_vars
    PROVE  SensorsAreTimely'
<1>1. RequestTypeOK
  BY DEF RulesInv
<1>2. CASE CutsFile \/ WritesFile \/ UNCHANGED vars
  BY <1>2, OtherTimely DEF CutsFile, WritesFile, vars, threadVars
<1>3. CASE Tick
  BY <1>3, TickTimely
<1>4. CASE ReadSensors
  BY <1>4, ReaderTimely DEF ReadSensors, threadVars
<1>5. ASSUME NEW t \in Thread, Get(t) \/ Serve(t)
      PROVE  SensorsAreTimely'
  <2>1. CASE Look(t)
    BY <1>1, <2>1, LookTimely
  <2>2. CASE Debounce(t)
    BY <1>1, <2>2, DebounceTimely
  <2>3. CASE EachRule(t)
    BY <2>3, OtherTimely DEF EachRule, threadVars
  <2>4. CASE \/ Get(t) \/ Reply(t) \/ SendFile(t) \/ MetricsRaise(t) \/ Load(t) \/ Clear(t)
             \/ Extend(t) \/ RulesDone(t) \/ AskDocker(t) \/ GatherDocker(t) \/ ReportNodes(t)
    <3>1. /\ UNCHANGED sensorVars /\ at[t] # "debounce"
          /\ \E s \in Stage \ {"debounce"} : at' = [at EXCEPT ![t] = s]
      <4>1. CASE Get(t)
        <5>1. PICK k \in Kind : Goes(t, FirstStage[k])
          BY <1>1, <4>1, WebAssumption DEF Get, RequestTypeOK
        <5>2. FirstStage[k] \in Stage \ {"debounce"}
          BY <5>1 DEF FirstStage, Kind, Stage
        <5> QED
          BY <4>1, <5>1, <5>2 DEF Get, Goes
      <4>2. CASE ~Get(t)
        BY <2>4, <4>2 DEF Reply, SendFile, MetricsRaise, Load, Clear, Extend, RulesDone,
                          AskDocker, GatherDocker, ReportNodes, Goes, Stage, AfterRules,
                          AfterDocker
      <4> QED
        BY <4>1, <4>2
    <3>2. \A u \in Thread : at'[u] = "debounce" <=> at[u] = "debounce"
      BY <1>1, <3>1 DEF RequestTypeOK
    <3> QED
      BY <3>1, <3>2, OtherTimely
  <2> QED
    BY <1>5, <2>1, <2>2, <2>3, <2>4 DEF Serve
<1> QED
  BY <1>2, <1>3, <1>4, <1>5 DEF Next

\* However far the invariant lets the cache lag behind, it is less than Staleness.
LEMMA TimelyIsRecent ==
    ASSUME SensorInv, SensorsAreTimely
    PROVE  SensorsAreRecent
<1> SUFFICES ASSUME good = Staleness PROVE cached < Staleness
  BY DEF SensorsAreRecent
<1>1. good = 2 * ReadTime + Interval + PollGap + 1
  BY DEF Staleness
<1>2. gap <= PollGap
  BY <1>1, Ages DEF SensorsAreTimely
<1>3. CASE \E t \in Thread : Running(t)
  BY <1>1, <1>3, Ages DEF SensorsAreTimely, Bounded
<1>4. CASE \A t \in Thread : ~Running(t)
  BY <1>1, <1>2, <1>4, Ages DEF SensorsAreTimely, Bounded, Due
<1> QED
  BY <1>3, <1>4

-----------------------------------------------------------------------------
LEMMA InvIsIInv == RulesInv /\ SensorInv /\ SensorsAreTimely <=> IInv
BY DEF RulesInv, SensorInv, IInv, TypeOK

LEMMA ExactWhenDone ==
    ASSUME RulesInv, OutIsRecent
    PROVE  RulesAreTheFiles
<1>1. ASSUME NEW t \in Thread, at[t] = "each", alone[t], index[t] > Len(active)
      PROVE  out[t] = Items(file.version)
  <2>1. /\ active = Items(file.version) /\ Len(out[t]) + 1 = index[t] /\ Len(out[t]) <= Len(active)
        /\ \A i \in DOMAIN out[t] : out[t][i] = active[i]
    BY <1>1 DEF RulesInv, LonelyLoadsAreExact
  <2>2. active \in Seq(Item) /\ out[t] \in Seq(Item) /\ index[t] \in Nat
    BY DEF RulesInv, RequestTypeOK
  <2>3. /\ Len(out[t]) \in Nat /\ Len(active) \in Nat /\ DOMAIN out[t] = 1..Len(out[t])
    BY <2>2, LenProperties
  <2>4. Len(out[t]) = Len(active)
    BY <1>1, <2>1, <2>2, <2>3
  <2> QED
    BY <2>1, <2>2, <2>3, <2>4, SeqEqual
<1> QED
  BY <1>1 DEF RulesAreTheFiles, OutIsRecent

\* The types, the readers, and what the loads have made of the list, in every
\* reachable state.
THEOREM IInvHolds == Spec => []IInv
<1> DEFINE Inv == RulesInv /\ SensorInv /\ SensorsAreTimely /\ OutIsRecent
<1>1. Init => Inv
  BY InitInv
<1>2. Inv /\ [Next]_vars => Inv'
  BY RulesNext, SensorsNext, TimelyNext
<1>3. Inv => IInv
  BY InvIsIInv
<1> QED
  BY <1>1, <1>2, <1>3, PTL DEF Spec

\* get_rules_payload answers with nothing older than the loads it met, and with
\* the file itself if it met none.
THEOREM RulesAreTheFilesHolds == Spec => []RulesAreTheFiles
<1> DEFINE Inv == RulesInv /\ SensorInv /\ SensorsAreTimely /\ OutIsRecent
<1>1. Init => Inv
  BY InitInv
<1>2. Inv /\ [Next]_vars => Inv'
  BY RulesNext, SensorsNext, TimelyNext
<1>3. Inv => RulesAreTheFiles
  BY ExactWhenDone
<1> QED
  BY <1>1, <1>2, <1>3, PTL DEF Spec

\* While a page is open and the sensors can be read, _get_cached_temperatures
\* answers with nothing older than an interval, a poll and two reads.
THEOREM SensorsAreRecentHolds == Spec => []SensorsAreRecent
<1> DEFINE Inv == RulesInv /\ SensorInv /\ SensorsAreTimely /\ OutIsRecent
<1>1. Init => Inv
  BY InitInv
<1>2. Inv /\ [Next]_vars => Inv'
  BY RulesNext, SensorsNext, TimelyNext
<1>3. Inv => SensorsAreRecent
  BY TimelyIsRecent
<1> QED
  BY <1>1, <1>2, <1>3, PTL DEF Spec
=============================================================================
