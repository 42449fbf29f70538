-------------------------- MODULE AlertEngine_proof --------------------------
(***************************************************************************)
(* Proofs about AlertEngine for any metrics, readings, conditions, cooldown *)
(* and bounds: its inductive invariant and the safety properties that      *)
(* follow from it.                                                         *)
(***************************************************************************)
EXTENDS AlertEngine, TLAPS, SequenceTheorems

-----------------------------------------------------------------------------
(* What Python's operations on lists do                                    *)

\* list.pop, written with RemoveAt, shortens the list and moves up what
\* came after the element.
LEMMA RemoveAtProperties ==
    ASSUME NEW S, NEW s \in Seq(S), NEW i \in 1..Len(s)
    PROVE  /\ RemoveAt(s, i) \in Seq(S)
           /\ Len(RemoveAt(s, i)) = Len(s) - 1
           /\ \A j \in 1..(Len(s) - 1) :
                 RemoveAt(s, i)[j] = IF j < i THEN s[j] ELSE s[j + 1]
<1> DEFINE front == SubSeq(s, 1, i - 1)
           back == SubSeq(s, i + 1, Len(s))
<1>1. /\ front \in Seq(S) /\ Len(front) = i - 1 /\ \A j \in 1..i - 1 : front[j] = s[j]
  OBVIOUS
<1>2. /\ back \in Seq(S) /\ Len(back) = Len(s) - i /\ \A j \in 1..Len(s) - i : back[j] = s[i + j]
  OBVIOUS
<1>3. RemoveAt(s, i) = front \o back
  BY DEF RemoveAt
<1> HIDE DEF front, back
<1>4. front \o back \in Seq(S) /\ Len(front \o back) = Len(s) - 1
  BY <1>1, <1>2, ConcatProperties, LenProperties
<1>5. \A j \in 1..Len(s) - 1 : (front \o back)[j] = IF j < i THEN s[j] ELSE s[j + 1]
  BY <1>1, <1>2
<1> QED
  BY <1>3, <1>4, <1>5

\* The elements of a list have its type.
LEMMA ToSetProperties ==
    ASSUME NEW S, NEW s \in Seq(S)
    PROVE  /\ ToSet(s) \subseteq S
           /\ \A i \in 1..Len(s) : s[i] \in ToSet(s)
BY LenProperties, ElementOfSeq DEF ToSet

\* Appending adds one element, at the end.
LEMMA AppendToSet ==
    ASSUME NEW S, NEW s \in Seq(S), NEW e \in S
    PROVE  /\ Append(s, e) \in Seq(S)
           /\ Len(Append(s, e)) = Len(s) + 1
           /\ Last(Append(s, e)) = e
           /\ ToSet(Append(s, e)) = ToSet(s) \cup {e}
<1>1. /\ Append(s, e) \in Seq(S)
      /\ Len(Append(s, e)) = Len(s) + 1
      /\ \A i \in 1..Len(s) : Append(s, e)[i] = s[i]
      /\ Append(s, e)[Len(s) + 1] = e
  BY AppendProperties
<1>2. /\ Len(s) \in Nat /\ DOMAIN s = 1..Len(s)
      /\ DOMAIN Append(s, e) = 1..(Len(s) + 1)
  BY <1>1, LenProperties
<1>3. Last(Append(s, e)) = e
  BY <1>1 DEF Last
<1>4. ToSet(Append(s, e)) = ToSet(s) \cup {e}
  BY <1>1, <1>2 DEF ToSet
<1> QED
  BY <1>1, <1>3, <1>4

\* Taking the first element adds none.
LEMMA TailToSet ==
    ASSUME NEW S, NEW s \in Seq(S), s # <<>>
    PROVE  /\ Tail(s) \in Seq(S)
           /\ Len(Tail(s)) = Len(s) - 1
           /\ ToSet(Tail(s)) \subseteq ToSet(s)
<1>1. /\ Tail(s) \in Seq(S)
      /\ Len(Tail(s)) = Len(s) - 1
      /\ \A i \in 1..Len(Tail(s)) : Tail(s)[i] = s[i + 1]
  BY HeadTailProperties
<1>2. /\ Len(s) \in Nat /\ DOMAIN s = 1..Len(s)
      /\ DOMAIN Tail(s) = 1..(Len(s) - 1)
  BY <1>1, LenProperties
<1> QED
  BY <1>1, <1>2 DEF ToSet

-----------------------------------------------------------------------------
(* Rules, ages and times                                                   *)

\* What a rule is made of.
LEMMA RuleProperties ==
    /\ \A r \in Rule : r.id \in Id /\ r.condition \in Condition
                       /\ r.condition.metric \in Metric
    /\ \A i \in Id, c \in Condition :
          LET r == [id |-> i, condition |-> c] IN r \in Rule /\ r.id = i
<1>1. ASSUME NEW r \in Rule
      PROVE  r.id \in Id /\ r.condition \in Condition /\ r.condition.metric \in Metric
  <2>1. PICK i \in Id, c \in Condition : r = [id |-> i, condition |-> c]
    BY DEF Rule
  <2>2. c.metric \in Metric
    BY ConditionAssumption
  <2> QED
    BY <2>1, <2>2
<1>2. ASSUME NEW i \in Id, NEW c \in Condition
      PROVE  [id |-> i, condition |-> c] \in Rule
  BY DEF Rule
<1> QED
  BY <1>1, <1>2

\* An age grows with the time, up to the cooldown; what is absent stays so.
LEMMA OlderProperties ==
    ASSUME NEW age \in 0..Cooldown \cup {Absent}, NEW s \in Nat
    PROVE  /\ Older(age, s) \in 0..Cooldown \cup {Absent}
           /\ Older(age, s) = Absent <=> age = Absent
           /\ age # Absent =>
                 /\ Older(age, s) \in 0..Cooldown
                 /\ Older(age, s) = Cooldown \/ Older(age, s) = age + s
                 /\ Older(age, s) <= Cooldown /\ Older(age, s) <= age + s
BY CooldownAssumption DEF Older, Absent

\* What the rules of a round may take, all of them and each.
RuleTime == MaxFetchTime + MaxActionTime

LEMMA Times ==
    /\ MaxFetchTime \in Nat /\ MaxActionTime \in Nat /\ RuleTime \in Nat
    /\ MaxFetchTime <= RuleTime
    /\ MaxLag \in Nat /\ MaxLag = MaxRules * RuleTime
BY BoundAssumption, TimeAssumption DEF MaxLag, RuleTime

\* Time for one rule more is time for all of them at most.
LEMMA RoundTime ==
    ASSUME NEW n \in 1..MaxRules
    PROVE  /\ (n - 1) * RuleTime \in Nat
           /\ ((n + 1) - 1) * RuleTime = (n - 1) * RuleTime + RuleTime
           /\ ((n + 1) - 1) * RuleTime <= MaxLag
<1>1. /\ MaxRules \in Nat /\ RuleTime \in Nat
      /\ n \in Nat /\ n - 1 \in Nat /\ n <= MaxRules
  BY BoundAssumption, Times
<1>2. ASSUME NEW a \in Nat, NEW b \in Nat
      PROVE  a * b \in Nat /\ (a + 1) * b = a * b + b
  OBVIOUS
<1>3. ASSUME NEW a \in Nat, NEW b \in Nat, NEW c \in Nat, a <= c
      PROVE  a * b <= c * b
  <2>1. (c - a) \in Nat /\ c = a + (c - a)
    BY <1>3
  <2>2. (c - a) * b \in Nat
    BY <2>1, <1>2
  <2>3. c * b = a * b + (c - a) * b
    BY <1>3
  <2> QED
    BY <2>2, <2>3, <1>2
<1>4. (n - 1) + 1 = n /\ (n + 1) - 1 = n
  BY <1>1
<1>5. n * RuleTime <= MaxRules * RuleTime
  BY <1>1, <1>3
<1> QED
  BY <1>1, <1>2, <1>4, <1>5, Times

-----------------------------------------------------------------------------
(* Reading one metric and judging one rule                                 *)

\* The place of the rule whose turn it is.
LEMMA NextPlace ==
    ASSUME TypeOK, next <= Len(rules)
    PROVE  /\ next \in 1..MaxRules /\ rules[next] \in ToSet(rules)
           /\ rules[next] \in Rule /\ DueMetric \in Metric
<1>1. /\ next \in 1..(MaxRules + 1) /\ Len(rules) <= MaxRules
      /\ Len(rules) \in Nat /\ MaxRules \in Nat /\ rules \in Seq(Rule)
  BY BoundAssumption, LenProperties DEF TypeOK
<1>2. next \in 1..MaxRules /\ next \in 1..Len(rules)
  BY <1>1
<1>3. rules[next] \in ToSet(rules) /\ rules[next] \in Rule
  BY <1>1, <1>2, ToSetProperties
<1> QED
  BY <1>2, <1>3, RuleProperties DEF DueMetric

\* The metric that was due has a reading then, the others keep theirs, and the
\* notifications are as much older as the round is longer.
LEMMA FetchProperties ==
    ASSUME TypeOK, Fetch
    PROVE  /\ DOMAIN metricValues' \subseteq Metric
           /\ \A m \in DOMAIN metricValues' : metricValues'[m] \in Value \cup {NoValue}
           /\ \A m \in DOMAIN metricValues :
                 m \in DOMAIN metricValues' /\ metricValues'[m] = metricValues[m]
           /\ next \in 1..MaxRules /\ next <= Len(rules)
           /\ ~IsFetched /\ IsFetched'
           /\ \E d \in 0..MaxFetchTime :
                 lag' = lag + d /\ heard' = [i \in Id |-> Older(heard[i], d)]
<1>1. next \in 1..MaxRules /\ DueMetric \in Metric /\ next <= Len(rules) /\ ~IsFetched
  BY NextPlace DEF Fetch
<1>2. DueMetric \notin DOMAIN metricValues
  BY <1>1 DEF IsFetched
<1>3. /\ DOMAIN metricValues \subseteq Metric
      /\ \A m \in DOMAIN metricValues : metricValues[m] \in Value \cup {NoValue}
  BY DEF TypeOK
<1>4. PICK v \in Value \cup {NoValue} :
         metricValues' = [m \in DOMAIN metricValues \cup {DueMetric} |->
                             IF m = DueMetric THEN v ELSE metricValues[m]]
  BY DEF Fetch, Reads
<1>5. /\ DOMAIN metricValues' = DOMAIN metricValues \cup {DueMetric}
      /\ metricValues'[DueMetric] = v
      /\ \A m \in DOMAIN metricValues : metricValues'[m] = metricValues[m]
  BY <1>2, <1>4
<1>6. IsFetched'
  <2>1. next' = next /\ rules' = rules
    BY DEF Fetch, Reads
  <2> QED
    BY <1>1, <1>5, <2>1 DEF IsFetched, DueMetric
<1>7. \E d \in 0..MaxFetchTime : lag' = lag + d /\ heard' = [i \in Id |-> Older(heard[i], d)]
  BY DEF Fetch, Reads, FetchTime
<1> QED
  BY <1>1, <1>3, <1>5, <1>6, <1>7

\* The rule is one of the daemon's, and it is judged by the value that its metric
\* has in this round.
LEMMA JudgingProperties ==
    ASSUME TypeOK, NEW rule, NEW v, Judging(rule, v)
    PROVE  /\ rule \in Rule /\ rule.id \in Id
           /\ rule.condition.metric \in DOMAIN metricValues
           /\ metricValues[rule.condition.metric] = v
           /\ metricValues' = metricValues
           /\ next \in 1..MaxRules /\ next' = next + 1 /\ next' <= Len(rules) + 1
<1>1. next <= Len(rules) /\ IsFetched /\ rule = rules[next] /\ v = metricValues[DueMetric]
  BY DEF Judging, IsFetched
<1>2. next \in 1..MaxRules /\ rule \in Rule /\ rule.id \in Id
  BY <1>1, NextPlace, RuleProperties
<1>3. next' = next + 1 /\ metricValues' = metricValues
  BY DEF Judging
<1>4. next' <= Len(rules) + 1
  BY <1>1, <1>2, <1>3, BoundAssumption, LenProperties DEF TypeOK
<1> QED
  BY <1>1, <1>2, <1>3, <1>4 DEF IsFetched, DueMetric

-----------------------------------------------------------------------------
(* The invariant at the start                                              *)

LEMMA InitIInv == Init => IInv
<1> SUFFICES ASSUME Init PROVE IInv
  OBVIOUS
<1>1. <<>> \in Seq(Rule) /\ Len(<<>>) = 0 /\ ToSet(<<>>) = {}
  BY DEF ToSet
<1>2. TypeOK
  <2>1. since \in [Id -> 0..Cooldown \cup {Absent}] /\ heard \in [Id -> 0..Cooldown \cup {Absent}]
    BY DEF Init
  <2>2. /\ DOMAIN metricValues \subseteq Metric
        /\ \A m \in DOMAIN metricValues : metricValues[m] \in Value \cup {NoValue}
    BY DEF Init
  <2>3. lag \in 0..MaxLag /\ adds \in 0..MaxAdds /\ next \in 1..(MaxRules + 1)
    BY Times, BoundAssumption DEF Init
  <2>4. /\ file \in Seq(Rule) /\ Len(file) <= MaxRules
        /\ rules \in Seq(Rule) /\ Len(rules) <= MaxRules
        /\ triggered \in Seq(Rule)
    BY <1>1, BoundAssumption DEF Init
  <2>5. newer \in BOOLEAN /\ daemon \in {"off", "awake", "judging", "logging"}
    BY DEF Init
  <2>6. fired \subseteq Rule /\ unheard \subseteq Rule /\ seenIds \subseteq Id /\ recycled \subseteq Id
    BY DEF Init
  <2> QED
    BY <2>1, <2>2, <2>3, <2>4, <2>5, <2>6 DEF TypeOK
<1>3. LagInv
  BY <1>1, Times DEF Init, LagInv, IsFetched, RuleTime
<1>4. StampInv
  BY DEF Init, StampInv
<1>5. TriggeredInv
  BY <1>1 DEF Init, TriggeredInv
<1>6. IdsInv /\ OneRuleInv /\ FreshRulesFire
  <2>1. IdsOf(<<>>) = {}
    BY DEF IdsOf
  <2> QED
    BY <1>1, <2>1 DEF Init, IdsInv, OneRuleInv, FreshRulesFire
<1> QED
  BY <1>2, <1>3, <1>4, <1>5, <1>6 DEF IInv
-----------------------------------------------------------------------------
(* LagInv: how long a round has taken                                      *)

\* LagInv, with the time of a rule by its name.
LEMMA LagBound ==
    LagInv <=>
       /\ daemon \in {"off", "awake"} => lag = 0
       /\ lag <= (next - 1) * RuleTime + (IF IsFetched THEN MaxFetchTime ELSE 0)
       /\ next <= Len(rules) + 1
BY DEF LagInv, RuleTime

LEMMA LagBoundNext ==
    LagInv' <=>
       /\ daemon' \in {"off", "awake"} => lag' = 0
       /\ lag' <= (next' - 1) * RuleTime + (IF IsFetched' THEN MaxFetchTime ELSE 0)
       /\ next' <= Len(rules') + 1
BY DEF LagInv, RuleTime

\* Whatever has been read for the next rule, its reading is the last that counts.
LEMMA LagIsBounded ==
    ASSUME IInv, next \in 1..MaxRules
    PROVE  lag <= (next - 1) * RuleTime + MaxFetchTime
<1>1. /\ lag \in Nat /\ MaxFetchTime \in Nat
      /\ (next - 1) * RuleTime \in Nat
  BY RoundTime, Times DEF IInv, TypeOK
<1>2. lag <= (next - 1) * RuleTime + (IF IsFetched THEN MaxFetchTime ELSE 0)
  BY LagBound DEF IInv
<1>3. CASE IsFetched
  BY <1>2, <1>3
<1>4. CASE ~IsFetched
  BY <1>1, <1>2, <1>4
<1> QED
  BY <1>3, <1>4

\* As long as a round lasts no longer and its place is the same, so is the bound.
LEMMA LagStays ==
    ASSUME IInv, lag' = lag \/ lag' = 0,
           UNCHANGED <<next, rules, metricValues>>,
           daemon' \in {"off", "awake"} => lag' = 0
    PROVE  LagInv'
<1>1. IsFetched' <=> IsFetched
  BY DEF IsFetched, DueMetric
<1>2. (next - 1) * RuleTime \in Nat
  <2>1. next - 1 \in Nat /\ RuleTime \in Nat
    BY Times, BoundAssumption DEF IInv, TypeOK
  <2>2. \A a, b \in Nat : a * b \in Nat
    OBVIOUS
  <2> QED
    BY <2>1, <2>2
<1>3. 0 <= (next - 1) * RuleTime + (IF IsFetched THEN MaxFetchTime ELSE 0)
  BY <1>2, Times
<1> QED
  BY <1>1, <1>3, LagBound, LagBoundNext DEF IInv

\* A round that has not begun to judge has taken no time.
LEMMA LagNone ==
    ASSUME lag' = 0, next' = 1, Len(rules') \in Nat
    PROVE  LagInv'
<1>1. (next' - 1) * RuleTime = 0
  <2>1. \A b \in Nat : (1 - 1) * b = 0
    OBVIOUS
  <2> QED
    BY <2>1, Times
<1> QED
  BY <1>1, Times, LagBoundNext

LEMMA LagStep ==
    ASSUME IInv, [Next]_vars
    PROVE  LagInv'
<1> USE DEF IInv
<1>1. Len(rules) \in Nat /\ Len(file) \in Nat /\ lag \in Nat
  BY LenProperties, Times DEF TypeOK
<1>2. CASE AddRule \/ StopRule
  BY <1>2, LagStays DEF AddRule, StopRule, DaemonUntouched, LagInv
<1>3. CASE StartDaemon
  BY <1>3, LagStays DEF StartDaemon, LagInv
<1>4. CASE BeginRound
  <2>1. lag' = 0 /\ next' = 1 /\ Len(rules') \in Nat
    BY <1>1, <1>4 DEF BeginRound, LagInv
  <2> QED
    BY <2>1, LagNone
<1>5. CASE Fetch
  <2>1. /\ next \in 1..MaxRules /\ next <= Len(rules)
        /\ ~IsFetched /\ IsFetched'
        /\ \E d \in 0..MaxFetchTime : lag' = lag + d
    BY <1>5, FetchProperties
  <2>2. daemon' = "judging" /\ next' = next /\ rules' = rules
    BY <1>5 DEF Fetch, Reads
  <2>3. (next - 1) * RuleTime \in Nat
    BY <2>1, RoundTime
  <2>4. lag <= (next - 1) * RuleTime
    BY <2>1, <2>3, LagBound
  <2>5. lag' <= (next - 1) * RuleTime + MaxFetchTime
    BY <1>1, <2>1, <2>3, <2>4, Times
  <2> QED
    BY <1>1, <2>1, <2>2, <2>5, LagBoundNext
<1>6. CASE JudgeRule
  <2>1. PICK rule \in ToSet(rules) :
           \/ Unreadable(rule)
           \/ \E v \in Value : Clears(rule, v) \/ Suppressed(rule, v) \/ Fires(rule, v)
    BY <1>6 DEF JudgeRule
  <2>2. PICK v : Judging(rule, v)
    BY <2>1 DEF Unreadable, Clears, Suppressed, Fires
  <2>3. next \in 1..MaxRules /\ next' = next + 1 /\ next' <= Len(rules) + 1
    BY <2>2, JudgingProperties
  <2>4. daemon' = "judging" /\ rules' = rules
    BY <2>2 DEF Judging
  <2>5. /\ (next - 1) * RuleTime \in Nat
        /\ (next' - 1) * RuleTime = (next - 1) * RuleTime + RuleTime
    BY <2>3, RoundTime
  <2>6. lag <= (next - 1) * RuleTime + MaxFetchTime
    BY <2>3, LagIsBounded
  <2>7. lag' = lag \/ \E d \in ActionTime : lag' = lag + d
    BY <2>1 DEF Unreadable, Clears, Suppressed, Fires
  <2>8. lag' <= (next' - 1) * RuleTime
    BY <1>1, <2>5, <2>6, <2>7, TimeAssumption DEF ActionTime, RuleTime
  <2>9. lag' <= (next' - 1) * RuleTime + (IF IsFetched' THEN MaxFetchTime ELSE 0)
    <3>1. lag' \in Nat /\ (next' - 1) * RuleTime \in Nat
      BY <1>1, <2>5, <2>7, TimeAssumption, Times DEF ActionTime
    <3> QED
      BY <2>8, <3>1, Times
  <2> QED
    BY <2>3, <2>4, <2>9, LagBoundNext
<1>7. CASE EndJudging \/ LogAlert
  BY <1>7, LagStays DEF EndJudging, LogAlert, LagInv
<1>8. CASE Sleep
  BY <1>8, LagStays DEF Sleep
<1>9. CASE DaemonDies
  <2>1. lag' = 0 /\ next' = 1 /\ Len(rules') \in Nat
    BY <1>9 DEF DaemonDies
  <2> QED
    BY <2>1, LagNone
<1>10. CASE UNCHANGED vars
  BY <1>10, LagStays DEF vars, LagInv
<1> QED
  BY <1>2, <1>3, <1>4, <1>5, <1>6, <1>7, <1>8, <1>9, <1>10 DEF Next, DaemonProceeds

-----------------------------------------------------------------------------
(* TypeOK                                                                  *)

\* What an edit of the file does to the types.
LEMMA EditType ==
    ASSUME TypeOK, AddRule \/ StopRule
    PROVE  TypeOK'
<1>1. UNCHANGED <<daemon, rules, next, metricValues, triggered, since, lag, heard>>
  BY DEF AddRule, StopRule, DaemonUntouched
<1>2. /\ file' \in Seq(Rule) /\ Len(file') <= MaxRules
      /\ fired' \subseteq Rule /\ unheard' \subseteq Rule
      /\ seenIds' \subseteq Id /\ recycled' \subseteq Id
      /\ newer' = TRUE
  <2>1. CASE AddRule
    <3>1. PICK c \in Condition, i \in Id :
             /\ file' = Append(file, [id |-> i, condition |-> c])
             /\ recycled' = recycled \cup ({i} \cap seenIds)
             /\ seenIds' = seenIds \cup {i}
      BY <2>1 DEF AddRule
    <3>2. [id |-> i, condition |-> c] \in Rule
      BY RuleProperties
    <3>3. file' \in Seq(Rule) /\ Len(file') = Len(file) + 1
      BY <3>1, <3>2, AppendProperties DEF TypeOK
    <3>4. Len(file) \in Nat /\ Len(file) < MaxRules
      BY <2>1, LenProperties DEF AddRule, TypeOK
    <3>5. Len(file') <= MaxRules
      BY <3>3, <3>4, BoundAssumption
    <3>6. fired' = fired /\ unheard' = unheard /\ newer' = TRUE
      BY <2>1 DEF AddRule
    <3> QED
      BY <3>1, <3>3, <3>5, <3>6 DEF TypeOK
  <2>2. CASE StopRule
    <3>1. PICK k \in DOMAIN file :
             /\ file' = RemoveAt(file, k)
             /\ fired' = fired \ {file[k]}
             /\ unheard' = unheard \ {file[k]}
      BY <2>2 DEF StopRule
    <3>2. k \in 1..Len(file) /\ Len(file) \in Nat /\ Len(file) <= MaxRules
      BY LenProperties DEF TypeOK
    <3>3. file' \in Seq(Rule) /\ Len(file') = Len(file) - 1
      BY <3>1, <3>2, RemoveAtProperties DEF TypeOK
    <3>4. Len(file') <= MaxRules
      BY <3>2, <3>3, BoundAssumption
    <3>5. seenIds' = seenIds /\ recycled' = recycled /\ newer' = TRUE
      BY <2>2 DEF StopRule
    <3> QED
      BY <3>1, <3>3, <3>4, <3>5 DEF TypeOK
  <2> QED
    BY <2>1, <2>2
<1>3. adds' \in 0..MaxAdds
  <2>1. adds \in 0..MaxAdds /\ MaxAdds \in Nat
    BY BoundAssumption DEF TypeOK
  <2>2. adds' = adds \/ (adds < MaxAdds /\ adds' = adds + 1)
    BY DEF AddRule, StopRule
  <2> QED
    BY <2>1, <2>2
<1> QED
  BY <1>1, <1>2, <1>3 DEF TypeOK

\* What judging a rule does to the types.
LEMMA JudgeType ==
    ASSUME IInv, JudgeRule
    PROVE  TypeOK'
<1> USE DEF IInv
<1>1. PICK rule \in ToSet(rules) :
         \/ Unreadable(rule)
         \/ \E v \in Value : Clears(rule, v) \/ Suppressed(rule, v) \/ Fires(rule, v)
  BY DEF JudgeRule
<1>2. PICK v : Judging(rule, v)
  BY <1>1 DEF Unreadable, Clears, Suppressed, Fires
<1>3. /\ rule \in Rule /\ rule.id \in Id
      /\ metricValues' = metricValues
      /\ next \in 1..MaxRules /\ next' = next + 1
  BY <1>2, JudgingProperties
<1>4. UNCHANGED <<file, newer, daemon, rules, seenIds, recycled, adds>>
  BY <1>2 DEF Judging, fileVars
<1>5. next' \in 1..(MaxRules + 1)
  BY <1>3, BoundAssumption
<1> DEFINE Judged ==
              /\ since' \in [Id -> 0..Cooldown \cup {Absent}]
              /\ heard' \in [Id -> 0..Cooldown \cup {Absent}]
              /\ triggered' \in Seq(Rule)
              /\ fired' \subseteq Rule /\ unheard' \subseteq Rule
              /\ lag' \in 0..MaxLag
<1>6. Judged
  <2>1. /\ since \in [Id -> 0..Cooldown \cup {Absent}]
        /\ heard \in [Id -> 0..Cooldown \cup {Absent}]
        /\ triggered \in Seq(Rule)
        /\ fired \subseteq Rule /\ unheard \subseteq Rule
        /\ lag \in 0..MaxLag
    BY DEF TypeOK
  <2>2. CASE Unreadable(rule)
    BY <2>1, <2>2 DEF Unreadable
  <2>3. ASSUME NEW w \in Value, Clears(rule, w)
        PROVE  Judged
    BY <1>3, <2>1, <2>3 DEF Clears
  <2>4. ASSUME NEW w \in Value, Suppressed(rule, w)
        PROVE  Judged
    BY <1>3, <2>1, <2>4 DEF Suppressed
  <2>5. ASSUME NEW w \in Value, Fires(rule, w)
        PROVE  Judged
    <3>1. PICK d \in ActionTime :
             /\ lag' = lag + d
             /\ heard' = [[i \in Id |-> Older(heard[i], d)] EXCEPT ![rule.id] = 0]
      BY <2>5 DEF Fires
    <3>2. d \in Nat
      BY TimeAssumption DEF ActionTime
    <3>3. \A i \in Id : Older(heard[i], d) \in 0..Cooldown \cup {Absent}
      BY <2>1, <3>2, OlderProperties
    <3>4. 0 \in 0..Cooldown
      BY CooldownAssumption
    <3>5. heard' \in [Id -> 0..Cooldown \cup {Absent}]
      BY <3>1, <3>3, <3>4
    <3>6. /\ since' \in [Id -> 0..Cooldown \cup {Absent}]
          /\ fired' \subseteq Rule /\ unheard' = unheard
      BY <1>3, <2>1, <2>5, <3>4 DEF Fires
    <3>7. triggered' \in Seq(Rule)
      BY <1>3, <2>1, <2>5, AppendProperties DEF Fires
    <3>8. lag' \in 0..MaxLag
      <4>1. lag <= (next - 1) * RuleTime + MaxFetchTime /\ (next - 1) * RuleTime \in Nat
        BY <1>3, RoundTime, LagIsBounded
      <4>2. /\ (next' - 1) * RuleTime = (next - 1) * RuleTime + RuleTime
            /\ (next' - 1) * RuleTime <= MaxLag
        BY <1>3, RoundTime
      <4>3. d <= MaxActionTime /\ lag \in Nat
        BY <2>1, TimeAssumption, Times DEF ActionTime
      <4>4. lag + d <= MaxLag
        BY <3>2, <4>1, <4>2, <4>3, TimeAssumption, Times DEF RuleTime
      <4> QED
        BY <3>1, <3>2, <4>3, <4>4, Times
    <3> QED
      BY <2>1, <3>5, <3>6, <3>7, <3>8
  <2> QED
    BY <1>1, <2>2, <2>3, <2>4, <2>5
<1> QED
  BY <1>3, <1>4, <1>5, <1>6 DEF TypeOK

\* What reading a metric does to the types.
LEMMA FetchType ==
    ASSUME IInv, Fetch
    PROVE  TypeOK'
<1> USE DEF IInv
<1>1. /\ UNCHANGED <<file, newer, daemon, rules, next, triggered, since>>
      /\ UNCHANGED <<fired, unheard, seenIds, recycled, adds>>
  BY DEF Fetch, Reads, fileVars
<1>2. /\ DOMAIN metricValues' \subseteq Metric
      /\ \A m \in DOMAIN metricValues' : metricValues'[m] \in Value \cup {NoValue}
      /\ next \in 1..MaxRules /\ ~IsFetched
  BY FetchProperties
<1>3. PICK d \in 0..MaxFetchTime : lag' = lag + d /\ heard' = [i \in Id |-> Older(heard[i], d)]
  BY FetchProperties
<1>4. d \in Nat /\ d <= MaxFetchTime
  BY <1>3, Times
<1>5. heard' \in [Id -> 0..Cooldown \cup {Absent}]
  BY <1>3, <1>4, OlderProperties DEF TypeOK
<1>6. lag' \in 0..MaxLag
  <2>1. lag <= (next - 1) * RuleTime /\ (next - 1) * RuleTime \in Nat /\ lag \in Nat
    BY <1>2, RoundTime, LagBound, Times DEF TypeOK
  <2>2. (next - 1) * RuleTime + RuleTime <= MaxLag
    BY <1>2, RoundTime
  <2> QED
    BY <1>3, <1>4, <2>1, <2>2, Times
<1> QED
  BY <1>1, <1>2, <1>5, <1>6 DEF TypeOK

\* What the rest of the daemon's round, its start and its end do to the types.
LEMMA OtherType ==
    ASSUME IInv, StartDaemon \/ BeginRound \/ EndJudging \/ LogAlert \/ Sleep \/ DaemonDies
    PROVE  TypeOK'
<1> USE DEF IInv
<1>1. \A i \in Id, s \in Nat :
         /\ Older(since[i], s) \in 0..Cooldown \cup {Absent}
         /\ Older(heard[i], s) \in 0..Cooldown \cup {Absent}
  BY OlderProperties DEF TypeOK
<1>2. lag \in Nat /\ 0 \in 0..MaxLag
  BY Times DEF TypeOK
<1>3. CASE StartDaemon
  <2>1. IdsOf(file) \subseteq Id
    BY LenProperties, ElementOfSeq, RuleProperties DEF IdsOf, TypeOK
  <2> QED
    BY <1>3, <2>1 DEF StartDaemon, TypeOK
<1>4. CASE BeginRound
  <2>1. 1 \in 1..(MaxRules + 1)
    BY BoundAssumption
  <2>2. rules' \in Seq(Rule) /\ Len(rules') <= MaxRules
    BY <1>4 DEF BeginRound, TypeOK
  <2>3. metricValues' = <<>> /\ DOMAIN metricValues' = {}
    BY <1>4 DEF BeginRound
  <2> QED
    BY <1>4, <2>1, <2>2, <2>3 DEF BeginRound, TypeOK, ghosts
<1>5. CASE EndJudging
  BY <1>5 DEF EndJudging, TypeOK, fileVars, ghosts
<1>6. CASE LogAlert
  <2>1. triggered' \in Seq(Rule)
    BY <1>6, TailToSet DEF LogAlert, TypeOK
  <2> QED
    BY <1>6, <2>1 DEF LogAlert, TypeOK, fileVars, ghosts
<1>7. CASE Sleep
  <2>1. lag + 1 \in Nat /\ 1 \in Nat
    BY <1>2
  <2>2. /\ since' \in [Id -> 0..Cooldown \cup {Absent}]
        /\ heard' \in [Id -> 0..Cooldown \cup {Absent}]
    BY <1>1, <1>7, <2>1 DEF Sleep
  <2>3. lag' \in 0..MaxLag /\ daemon' = "awake"
    BY <1>2, <1>7 DEF Sleep
  <2> QED
    BY <1>7, <2>2, <2>3 DEF Sleep, TypeOK, fileVars
<1>8. CASE DaemonDies
  <2>1. /\ since' \in [Id -> 0..Cooldown \cup {Absent}]
        /\ heard' \in [Id -> 0..Cooldown \cup {Absent}]
    BY <1>8 DEF DaemonDies
  <2>2. lag' \in 0..MaxLag /\ next' \in 1..(MaxRules + 1) /\ daemon' = "off"
    BY <1>2, <1>8, BoundAssumption DEF DaemonDies
  <2>3. /\ rules' \in Seq(Rule) /\ Len(rules') <= MaxRules
        /\ triggered' \in Seq(Rule)
    BY <1>8, BoundAssumption DEF DaemonDies
  <2>4. metricValues' = <<>> /\ DOMAIN metricValues' = {}
    BY <1>8 DEF DaemonDies
  <2> QED
    BY <1>8, <2>1, <2>2, <2>3, <2>4 DEF DaemonDies, TypeOK, fileVars
<1> QED
  BY <1>3, <1>4, <1>5, <1>6, <1>7, <1>8

LEMMA TypeStep ==
    ASSUME IInv, [Next]_vars
    PROVE  TypeOK'
<1>1. CASE AddRule \/ StopRule
  BY <1>1, EditType DEF IInv
<1>2. CASE JudgeRule \/ Fetch
  BY <1>2, JudgeType, FetchType
<1>3. CASE StartDaemon \/ BeginRound \/ EndJudging \/ LogAlert \/ Sleep \/ DaemonDies
  BY <1>3, OtherType
<1>4. CASE UNCHANGED vars
  BY <1>4 DEF IInv, TypeOK, vars, fileVars, ghosts
<1> QED
  BY <1>1, <1>2, <1>3, <1>4 DEF Next, DaemonProceeds

-----------------------------------------------------------------------------
(* StampInv: stamps and notifications                                      *)

\* Time that passes in a round ages a notification, and leaves its stamp as old as
\* it was when the round began.
LEMMA PassingTime ==
    ASSUME IInv, NEW i \in Id, NEW d \in Nat, lag' = lag + d, lag' <= MaxLag,
           since'[i] = since[i], heard'[i] = Older(heard[i], d)
    PROVE  /\ since'[i] = Absent <=> heard'[i] = Absent
           /\ since'[i] # Absent =>
                 /\ heard'[i] <= since'[i] + lag'
                 /\ heard'[i] + MaxLag >= Cooldown \/ heard'[i] + MaxLag >= since'[i] + lag'
<1> USE DEF IInv
<1>1. lag \in Nat /\ MaxLag \in Nat /\ Cooldown \in Nat
  BY Times, CooldownAssumption DEF TypeOK
<1>2. /\ since[i] \in 0..Cooldown \cup {Absent}
      /\ heard[i] \in 0..Cooldown \cup {Absent}
  BY DEF TypeOK
<1>3. /\ Older(heard[i], d) = Absent <=> heard[i] = Absent
      /\ heard[i] # Absent =>
            /\ Older(heard[i], d) \in 0..Cooldown
            /\ Older(heard[i], d) = Cooldown \/ Older(heard[i], d) = heard[i] + d
            /\ Older(heard[i], d) <= heard[i] + d
  BY <1>2, OlderProperties
<1>4. /\ since[i] = Absent <=> heard[i] = Absent
      /\ since[i] # Absent =>
            /\ heard[i] <= since[i] + lag
            /\ heard[i] + MaxLag >= Cooldown \/ heard[i] + MaxLag >= since[i] + lag
  BY DEF StampInv
<1> QED
  BY <1>1, <1>2, <1>3, <1>4 DEF Absent

\* Firing stamps the rule, and its notification ages all the others.
LEMMA FiringKeepsStamps ==
    ASSUME IInv, NEW rule \in ToSet(rules), NEW v \in Value, Fires(rule, v), lag' <= MaxLag
    PROVE  StampInv'
<1> USE DEF IInv
<1>1. PICK d \in ActionTime :
         /\ lag' = lag + d
         /\ heard' = [[i \in Id |-> Older(heard[i], d)] EXCEPT ![rule.id] = 0]
  BY DEF Fires
<1>2. d \in Nat /\ lag \in Nat /\ MaxLag \in Nat /\ Cooldown \in Nat
  BY Times, TimeAssumption, CooldownAssumption DEF ActionTime, TypeOK
<1>3. since' = [since EXCEPT ![rule.id] = 0] /\ since \in [Id -> 0..Cooldown \cup {Absent}]
  BY DEF Fires, TypeOK
<1> SUFFICES ASSUME NEW i \in Id
             PROVE  /\ since'[i] = Absent <=> heard'[i] = Absent
                    /\ since'[i] # Absent =>
                          /\ heard'[i] <= since'[i] + lag'
                          /\ \/ heard'[i] + MaxLag >= Cooldown
                             \/ heard'[i] + MaxLag >= since'[i] + lag'
  BY DEF StampInv
<1>4. CASE i = rule.id
  <2>1. since'[i] = 0 /\ heard'[i] = 0
    BY <1>1, <1>3, <1>4
  <2> QED
    BY <1>1, <1>2, <2>1 DEF Absent
<1>5. CASE i # rule.id
  <2>1. since'[i] = since[i] /\ heard'[i] = Older(heard[i], d)
    BY <1>1, <1>3, <1>5
  <2> QED
    BY <1>1, <1>2, <2>1, PassingTime
<1> QED
  BY <1>4, <1>5

\* Reading a metric ages them all.
LEMMA FetchingKeepsStamps ==
    ASSUME IInv, Fetch
    PROVE  StampInv'
<1>1. PICK d \in 0..MaxFetchTime : lag' = lag + d /\ heard' = [i \in Id |-> Older(heard[i], d)]
  BY FetchProperties DEF IInv
<1>2. d \in Nat /\ lag' <= MaxLag
  BY <1>1, FetchType, Times DEF TypeOK
<1>3. since' = since
  BY DEF Fetch, Reads
<1>4. \A i \in Id : since'[i] = since[i] /\ heard'[i] = Older(heard[i], d)
  BY <1>1, <1>3
<1> QED
  BY <1>1, <1>2, <1>4, PassingTime DEF StampInv

\* Sleeping turns what the round took into age.
LEMMA SleepKeepsStamps ==
    ASSUME IInv, Sleep
    PROVE  StampInv'
<1> USE DEF IInv
<1>1. /\ since' = [i \in Id |-> Older(since[i], lag + 1)]
      /\ heard' = [i \in Id |-> Older(heard[i], 1)]
      /\ lag' = 0
  BY DEF Sleep
<1>2. lag \in Nat /\ lag + 1 \in Nat /\ 1 \in Nat /\ MaxLag \in Nat /\ Cooldown \in Nat
  BY Times, CooldownAssumption DEF TypeOK
<1> SUFFICES ASSUME NEW i \in Id
             PROVE  /\ since'[i] = Absent <=> heard'[i] = Absent
                    /\ since'[i] # Absent =>
                          /\ heard'[i] <= since'[i] + lag'
                          /\ \/ heard'[i] + MaxLag >= Cooldown
                             \/ heard'[i] + MaxLag >= since'[i] + lag'
  BY DEF StampInv
<1>3. /\ since[i] \in 0..Cooldown \cup {Absent}
      /\ heard[i] \in 0..Cooldown \cup {Absent}
  BY DEF TypeOK
<1>4. since'[i] = Older(since[i], lag + 1) /\ heard'[i] = Older(heard[i], 1)
  BY <1>1
<1>5. /\ Older(heard[i], 1) = Absent <=> heard[i] = Absent
      /\ heard[i] # Absent =>
            /\ Older(heard[i], 1) \in 0..Cooldown
            /\ Older(heard[i], 1) = Cooldown \/ Older(heard[i], 1) = heard[i] + 1
            /\ Older(heard[i], 1) <= heard[i] + 1
  BY <1>2, <1>3, OlderProperties
<1>6. /\ Older(since[i], lag + 1) = Absent <=> since[i] = Absent
      /\ since[i] # Absent =>
            /\ Older(since[i], lag + 1) \in 0..Cooldown
            /\ \/ Older(since[i], lag + 1) = Cooldown
               \/ Older(since[i], lag + 1) = since[i] + (lag + 1)
            /\ Older(since[i], lag + 1) <= since[i] + (lag + 1)
  BY <1>2, <1>3, OlderProperties
<1>7. /\ since[i] = Absent <=> heard[i] = Absent
      /\ since[i] # Absent =>
            /\ heard[i] <= since[i] + lag
            /\ heard[i] + MaxLag >= Cooldown \/ heard[i] + MaxLag >= since[i] + lag
  BY DEF StampInv
<1> QED
  BY <1>1, <1>2, <1>3, <1>4, <1>5, <1>6, <1>7 DEF Absent

LEMMA StampInvStep ==
    ASSUME IInv, [Next]_vars
    PROVE  StampInv'
<1> USE DEF IInv
<1>1. CASE AddRule \/ StopRule
  BY <1>1 DEF AddRule, StopRule, DaemonUntouched, StampInv
<1>2. CASE StartDaemon \/ BeginRound \/ EndJudging \/ LogAlert
  BY <1>2 DEF StartDaemon, BeginRound, EndJudging, LogAlert, ghosts, StampInv
<1>3. CASE JudgeRule
  <2>1. PICK rule \in ToSet(rules) :
           \/ Unreadable(rule)
           \/ \E v \in Value : Clears(rule, v) \/ Suppressed(rule, v) \/ Fires(rule, v)
    BY <1>3 DEF JudgeRule
  <2>2. CASE Unreadable(rule)
    BY <2>2 DEF Unreadable, StampInv
  <2>3. ASSUME NEW v \in Value, Clears(rule, v)
        PROVE  StampInv'
    <3>1. /\ since' = [since EXCEPT ![rule.id] = Absent]
          /\ heard' = [heard EXCEPT ![rule.id] = Absent]
          /\ lag' = lag
      BY <2>3 DEF Clears
    <3>2. \A i \in Id : \/ since'[i] = Absent /\ heard'[i] = Absent
                        \/ since'[i] = since[i] /\ heard'[i] = heard[i]
      BY <3>1 DEF TypeOK
    <3> QED
      BY <3>1, <3>2 DEF StampInv
  <2>4. ASSUME NEW v \in Value, Suppressed(rule, v)
        PROVE  StampInv'
    BY <2>4 DEF Suppressed, StampInv
  <2>5. ASSUME NEW v \in Value, Fires(rule, v)
        PROVE  StampInv'
    <3>1. lag' <= MaxLag
      BY <1>3, JudgeType, Times DEF TypeOK
    <3> QED
      BY <2>5, <3>1, FiringKeepsStamps
  <2> QED
    BY <2>1, <2>2, <2>3, <2>4, <2>5
<1>4. CASE Sleep \/ Fetch
  BY <1>4, SleepKeepsStamps, FetchingKeepsStamps
<1>5. CASE DaemonDies
  BY <1>5 DEF DaemonDies, StampInv
<1>6. CASE UNCHANGED vars
  BY <1>6 DEF vars, ghosts, StampInv
<1> QED
  BY <1>1, <1>2, <1>3, <1>4, <1>5, <1>6 DEF Next, DaemonProceeds

-----------------------------------------------------------------------------
(* TriggeredInv: what has fired was breached                               *)

LEMMA TriggeredStep ==
    ASSUME IInv, [Next]_vars
    PROVE  TriggeredInv'
<1> USE DEF IInv
<1> DEFINE BreachedBy(r, m) == /\ r.condition.metric \in DOMAIN m
                               /\ m[r.condition.metric] \in Value
                               /\ Breached(r.condition, m[r.condition.metric])
<1>1. ToSet(<<>>) = {}
  BY DEF ToSet
<1>2. CASE AddRule \/ StopRule
  BY <1>2 DEF AddRule, StopRule, DaemonUntouched, TriggeredInv
<1>3. CASE StartDaemon \/ BeginRound
  <2>1. triggered' = <<>>
    BY <1>3 DEF StartDaemon, BeginRound, TriggeredInv
  <2> QED
    BY <1>1, <2>1 DEF TriggeredInv
<1>4. CASE JudgeRule
  <2>1. PICK rule \in ToSet(rules) :
           \/ Unreadable(rule)
           \/ \E v \in Value : Clears(rule, v) \/ Suppressed(rule, v) \/ Fires(rule, v)
    BY <1>4 DEF JudgeRule
  <2>2. PICK w : Judging(rule, w)
    BY <2>1 DEF Unreadable, Clears, Suppressed, Fires
  <2>3. rule \in Rule /\ metricValues' = metricValues
    BY <2>2, JudgingProperties
  <2>4. \A r \in ToSet(triggered) : BreachedBy(r, metricValues')
    BY <2>3 DEF TriggeredInv
  <2>5. daemon' = "judging"
    BY <2>2 DEF Judging
  <2>6. \/ triggered' = triggered
        \/ \E v \in Value : Fires(rule, v)
    BY <2>1 DEF Unreadable, Clears, Suppressed
  <2>7. ASSUME NEW v \in Value, Fires(rule, v)
        PROVE  \A r \in ToSet(triggered') : BreachedBy(r, metricValues')
    <3>1. triggered' = Append(triggered, rule) /\ triggered \in Seq(Rule)
      BY <2>7 DEF Fires, TypeOK
    <3>2. ToSet(triggered') = ToSet(triggered) \cup {rule}
      BY <2>3, <3>1, AppendToSet
    <3>3. BreachedBy(rule, metricValues')
      <4>1. Judging(rule, v) /\ Breached(rule.condition, v)
        BY <2>7 DEF Fires
      <4> QED
        BY <4>1, JudgingProperties
    <3> QED
      BY <2>4, <3>2, <3>3
  <2> QED
    BY <2>4, <2>5, <2>6, <2>7 DEF TriggeredInv
<1>5. CASE EndJudging
  BY <1>5 DEF EndJudging, TriggeredInv
<1>9. CASE Fetch
  <2>1. triggered' = triggered /\ daemon' = "judging"
    BY <1>9 DEF Fetch, Reads
  <2>2. \A m \in DOMAIN metricValues :
           m \in DOMAIN metricValues' /\ metricValues'[m] = metricValues[m]
    BY <1>9, FetchProperties
  <2> QED
    BY <2>1, <2>2 DEF TriggeredInv
<1>6. CASE LogAlert
  <2>1. ToSet(triggered') \subseteq ToSet(triggered)
    BY <1>6, TailToSet DEF LogAlert, TypeOK
  <2>2. daemon' = "logging" /\ metricValues' = metricValues
    BY <1>6 DEF LogAlert
  <2> QED
    BY <2>1, <2>2 DEF TriggeredInv
<1>7. CASE Sleep \/ DaemonDies
  <2>1. triggered' = <<>>
    BY <1>7 DEF Sleep, DaemonDies
  <2> QED
    BY <1>1, <2>1 DEF TriggeredInv
<1>8. CASE UNCHANGED vars
  BY <1>8 DEF vars, TriggeredInv
<1> QED
  BY <1>2, <1>3, <1>4, <1>5, <1>6, <1>7, <1>8, <1>9 DEF Next, DaemonProceeds

-----------------------------------------------------------------------------
(* IdsInv, OneRuleInv, FreshRulesFire: ids and the rules that have them    *)

\* Appending under an id above all others keeps ids unique.
LEMMA AppendedFile ==
    ASSUME NEW c \in Condition, NEW i \in Id, file \in Seq(Rule),
           \A j, k \in DOMAIN file : file[j].id = file[k].id => j = k,
           \A j \in IdsOf(file) : j < i,
           file' = Append(file, [id |-> i, condition |-> c])
    PROVE  /\ \A j, k \in DOMAIN file' : file'[j].id = file'[k].id => j = k
           /\ IdsOf(file') = IdsOf(file) \cup {i}
           /\ ToSet(file') = ToSet(file) \cup {[id |-> i, condition |-> c]}
<1> DEFINE new == [id |-> i, condition |-> c]
<1>1. new \in Rule /\ new.id = i
  BY RuleProperties
<1>2. /\ Len(file) \in Nat /\ DOMAIN file = 1..Len(file)
      /\ DOMAIN file' = 1..(Len(file) + 1)
      /\ \A k \in 1..Len(file) : file'[k] = file[k]
      /\ file'[Len(file) + 1] = new
  BY <1>1, AppendProperties, LenProperties
<1>3. \A k \in DOMAIN file : file[k].id < i
  BY DEF IdsOf
<1>4. i \in Int
  BY DEF Id
<1>5. \A k \in DOMAIN file' :
         \/ k \in DOMAIN file /\ file'[k] = file[k]
         \/ k = Len(file) + 1 /\ file'[k] = new
  BY <1>2
<1>6. \A k \in DOMAIN file : k \in DOMAIN file' /\ file'[k] = file[k]
  BY <1>2
<1>7. Len(file) + 1 \in DOMAIN file'
  BY <1>2
<1>8. \A j, k \in DOMAIN file' : file'[j].id = file'[k].id => j = k
  <2> SUFFICES ASSUME NEW j \in DOMAIN file', NEW k \in DOMAIN file',
                      file'[j].id = file'[k].id
               PROVE  j = k
    OBVIOUS
  <2>1. \A m \in DOMAIN file : file[m].id # i
    BY <1>3, <1>4
  <2> QED
    BY <1>1, <1>5, <2>1
<1>9. IdsOf(file') = IdsOf(file) \cup {i}
  BY <1>1, <1>2, <1>5, <1>6, <1>7 DEF IdsOf
<1>10. ToSet(file') = ToSet(file) \cup {new}
  BY <1>1, AppendToSet
<1> QED
  BY <1>8, <1>9, <1>10

\* Stopping a rule leaves the others, and none with its id.
LEMMA ShortenedFile ==
    ASSUME NEW k \in DOMAIN file, file \in Seq(Rule),
           \A j, m \in DOMAIN file : file[j].id = file[m].id => j = m,
           file' = RemoveAt(file, k)
    PROVE  /\ \A j, m \in DOMAIN file' : file'[j].id = file'[m].id => j = m
           /\ IdsOf(file') \subseteq IdsOf(file)
           /\ \A r \in ToSet(file') : r \in ToSet(file) /\ r # file[k]
<1>1. Len(file) \in Nat /\ DOMAIN file = 1..Len(file) /\ k \in 1..Len(file)
  BY LenProperties
<1>2. /\ DOMAIN file' = 1..(Len(file) - 1)
      /\ \A j \in 1..(Len(file) - 1) :
            file'[j] = IF j < k THEN file[j] ELSE file[j + 1]
  <2>1. /\ file' \in Seq(Rule) /\ Len(file') = Len(file) - 1
        /\ \A j \in 1..(Len(file) - 1) :
              file'[j] = IF j < k THEN file[j] ELSE file[j + 1]
    BY <1>1, RemoveAtProperties
  <2>2. DOMAIN file' = 1..Len(file')
    BY <2>1, LenProperties
  <2> QED
    BY <2>1, <2>2
<1> DEFINE From(j) == IF j < k THEN j ELSE j + 1
<1>3. ASSUME NEW j \in DOMAIN file'
      PROVE  From(j) \in DOMAIN file /\ From(j) # k /\ file'[j] = file[From(j)]
  <2>1. j \in 1..(Len(file) - 1)
    BY <1>2
  <2>2. CASE j < k
    BY <1>1, <1>2, <2>1, <2>2
  <2>3. CASE ~(j < k)
    BY <1>1, <1>2, <2>1, <2>3
  <2> QED
    BY <2>2, <2>3
<1>4. \A j, m \in DOMAIN file' : From(j) = From(m) => j = m
  BY <1>1, <1>2
<1> HIDE DEF From
<1>5. \A j, m \in DOMAIN file' : file'[j].id = file'[m].id => j = m
  BY <1>3, <1>4
<1>6. IdsOf(file') \subseteq IdsOf(file)
  BY <1>3 DEF IdsOf
<1>7. \A r \in ToSet(file') : r \in ToSet(file) /\ r # file[k]
  BY <1>3 DEF ToSet
<1> QED
  BY <1>5, <1>6, <1>7

\* The rules of a list have the ids of the list.
LEMMA IdsOfRules ==
    ASSUME NEW list, NEW r \in ToSet(list)
    PROVE  r.id \in IdsOf(list)
BY DEF ToSet, IdsOf

\* An edit of the file keeps ids apart.
LEMMA EditKeepsIds ==
    ASSUME IInv, AddRule \/ StopRule
    PROVE  IdsInv' /\ OneRuleInv' /\ FreshRulesFire'
<1> USE DEF IInv
<1>1. UNCHANGED <<daemon, rules, since>>
  BY DEF AddRule, StopRule, DaemonUntouched
<1>2. file \in Seq(Rule) /\ \A j, k \in DOMAIN file : file[j].id = file[k].id => j = k
  BY DEF TypeOK, IdsInv
<1>3. CASE AddRule
  <2>1. PICK c \in Condition, i \in Id :
           /\ \A j \in IdsOf(file) : j < i
           /\ file' = Append(file, [id |-> i, condition |-> c])
           /\ recycled' = recycled \cup ({i} \cap seenIds)
           /\ seenIds' = seenIds \cup {i}
    BY <1>3 DEF AddRule
  <2> DEFINE new == [id |-> i, condition |-> c]
  <2>2. /\ \A j, k \in DOMAIN file' : file'[j].id = file'[k].id => j = k
        /\ IdsOf(file') = IdsOf(file) \cup {i}
        /\ ToSet(file') = ToSet(file) \cup {new}
    BY <1>2, <2>1, AppendedFile
  <2>3. new.id = i
    OBVIOUS
  <2>4. fired' = fired /\ unheard' = unheard
    BY <1>3 DEF AddRule
  <2>5. IdsInv'
    BY <1>1, <2>1, <2>2, <2>4 DEF IdsInv
  <2>6. i \notin recycled' => since[i] = Absent /\ \A r \in ToSet(rules) : r.id # i
    BY <2>1, IdsOfRules DEF IdsInv
  <2>7. OneRuleInv'
    <3>1. ASSUME NEW r \in ToSet(rules), NEW s \in ToSet(file'),
                 r.id = s.id, r.id \notin recycled'
          PROVE  r = s
      <4>1. s \in ToSet(file)
        BY <2>2, <2>3, <2>6, <3>1
      <4> QED
        BY <2>1, <3>1, <4>1 DEF OneRuleInv
    <3>2. ASSUME NEW r \in ToSet(file'), since[r.id] # Absent, r.id \notin recycled'
          PROVE  r \in fired
      <4>1. r \in ToSet(file)
        BY <2>2, <2>3, <2>6, <3>2
      <4> QED
        BY <2>1, <3>2, <4>1 DEF OneRuleInv
    <3> QED
      BY <1>1, <2>4, <3>1, <3>2 DEF OneRuleInv
  <2>8. FreshRulesFire'
    BY <2>1, <2>4 DEF FreshRulesFire
  <2> QED
    BY <2>5, <2>7, <2>8
<1>4. CASE StopRule
  <2>1. PICK k \in DOMAIN file :
           /\ file' = RemoveAt(file, k)
           /\ fired' = fired \ {file[k]}
           /\ unheard' = unheard \ {file[k]}
    BY <1>4 DEF StopRule
  <2>2. /\ \A j, m \in DOMAIN file' : file'[j].id = file'[m].id => j = m
        /\ IdsOf(file') \subseteq IdsOf(file)
        /\ \A r \in ToSet(file') : r \in ToSet(file) /\ r # file[k]
    BY <1>2, <2>1, ShortenedFile
  <2>3. seenIds' = seenIds /\ recycled' = recycled
    BY <1>4 DEF StopRule
  <2>4. IdsInv'
    BY <1>1, <2>1, <2>2, <2>3 DEF IdsInv
  <2>5. OneRuleInv'
    BY <1>1, <2>1, <2>2, <2>3 DEF OneRuleInv
  <2>6. FreshRulesFire'
    BY <2>1, <2>3 DEF FreshRulesFire
  <2> QED
    BY <2>4, <2>5, <2>6
<1> QED
  BY <1>3, <1>4

\* Judging a rule stamps it only when it fires, and passes it over only when it
\* is stamped.
LEMMA JudgingKeepsIds ==
    ASSUME IInv, JudgeRule
    PROVE  IdsInv' /\ OneRuleInv' /\ FreshRulesFire'
<1> USE DEF IInv
<1>1. PICK rule \in ToSet(rules) :
         \/ Unreadable(rule)
         \/ \E v \in Value : Clears(rule, v) \/ Suppressed(rule, v) \/ Fires(rule, v)
  BY DEF JudgeRule
<1>2. PICK w : Judging(rule, w)
  BY <1>1 DEF Unreadable, Clears, Suppressed, Fires
<1>3. rule \in Rule /\ rule.id \in Id
  BY <1>2, JudgingProperties
<1>4. /\ UNCHANGED <<file, daemon, rules, seenIds, recycled>>
      /\ daemon # "off"
  BY <1>2 DEF Judging, fileVars
<1>5. rule.id \in seenIds /\ since \in [Id -> 0..Cooldown \cup {Absent}]
  BY IdsOfRules DEF IdsInv, TypeOK
<1>6. CASE Unreadable(rule)
  BY <1>4, <1>6 DEF Unreadable, IdsInv, OneRuleInv, FreshRulesFire
<1>7. ASSUME NEW v \in Value, Clears(rule, v)
      PROVE  IdsInv' /\ OneRuleInv' /\ FreshRulesFire'
  <2>1. /\ since' = [since EXCEPT ![rule.id] = Absent]
        /\ fired' = fired /\ unheard' = unheard
    BY <1>7 DEF Clears
  <2>2. \A i \in Id : since'[i] # Absent => since[i] # Absent
    BY <1>5, <2>1
  <2>3. \A r \in ToSet(file) : r.id \in Id
    BY ToSetProperties, RuleProperties DEF TypeOK
  <2> QED
    BY <1>4, <2>1, <2>2, <2>3 DEF IdsInv, OneRuleInv, FreshRulesFire
<1>8. ASSUME NEW v \in Value, Suppressed(rule, v)
      PROVE  IdsInv' /\ OneRuleInv' /\ FreshRulesFire'
  <2>1. /\ since' = since /\ fired' = fired
        /\ unheard' = IF rule \in ToSet(file) /\ rule \notin fired
                      THEN unheard \cup {rule} ELSE unheard
        /\ since[rule.id] # Absent
    BY <1>8 DEF Suppressed, Cooling
  <2>2. rule \in ToSet(file) /\ rule \notin fired => rule.id \in recycled
    BY <2>1 DEF OneRuleInv
  <2> QED
    BY <1>4, <2>1, <2>2 DEF IdsInv, OneRuleInv, FreshRulesFire
<1>9. ASSUME NEW v \in Value, Fires(rule, v)
      PROVE  IdsInv' /\ OneRuleInv' /\ FreshRulesFire'
  <2>1. /\ since' = [since EXCEPT ![rule.id] = 0]
        /\ fired' = fired \cup {rule} /\ unheard' = unheard
    BY <1>9 DEF Fires
  <2>2. \A i \in Id : i = rule.id \/ since'[i] = since[i]
    BY <1>5, <2>1
  <2>3. \A r \in ToSet(file) : r.id \in Id
    BY ToSetProperties, RuleProperties DEF TypeOK
  <2>4. IdsInv'
    BY <1>4, <1>5, <2>1, <2>2 DEF IdsInv
  <2>5. ASSUME NEW r \in ToSet(file), since'[r.id] # Absent, r.id \notin recycled
        PROVE  r \in fired'
    <3>1. CASE r.id = rule.id
      <4>1. rule = r
        BY <2>5, <3>1 DEF OneRuleInv
      <4> QED
        BY <2>1, <4>1
    <3>2. CASE r.id # rule.id
      BY <2>1, <2>2, <2>3, <2>5, <3>2 DEF OneRuleInv
    <3> QED
      BY <3>1, <3>2
  <2> QED
    BY <1>4, <2>1, <2>4, <2>5 DEF OneRuleInv, FreshRulesFire
<1> QED
  BY <1>1, <1>6, <1>7, <1>8, <1>9

LEMMA IdsStep ==
    ASSUME IInv, [Next]_vars
    PROVE  IdsInv' /\ OneRuleInv' /\ FreshRulesFire'
<1> USE DEF IInv
<1>1. CASE AddRule \/ StopRule
  BY <1>1, EditKeepsIds
<1>2. CASE JudgeRule
  BY <1>2, JudgingKeepsIds
<1>3. ToSet(<<>>) = {} /\ IdsOf(<<>>) = {}
  BY DEF ToSet, IdsOf
<1>4. \A r \in ToSet(file) : r.id \in Id
  BY ToSetProperties, RuleProperties DEF TypeOK
<1>5. CASE StartDaemon
  <2>1. /\ daemon = "off" /\ daemon' = "awake"
        /\ seenIds' = IdsOf(file) /\ recycled' = {}
        /\ UNCHANGED <<file, rules, since, fired, unheard>>
    BY <1>5 DEF StartDaemon
  <2>2. rules = <<>> /\ unheard = {} /\ \A i \in Id : since[i] = Absent
    BY <2>1 DEF IdsInv
  <2> QED
    BY <1>3, <1>4, <2>1, <2>2 DEF IdsInv, OneRuleInv, FreshRulesFire
<1>6. CASE BeginRound
  <2>1. /\ daemon = "awake" /\ daemon' = "judging"
        /\ rules' = IF newer THEN file ELSE rules
        /\ UNCHANGED <<file, since, fired, unheard, seenIds, recycled>>
    BY <1>6 DEF BeginRound, ghosts
  <2>2. CASE rules' = rules
    BY <2>1, <2>2 DEF IdsInv, OneRuleInv, FreshRulesFire
  <2>3. CASE rules' = file
    <3>1. \A r, s \in ToSet(file) : r.id = s.id => r = s
      BY DEF ToSet, IdsInv
    <3>2. IdsInv'
      BY <2>1, <2>3 DEF IdsInv
    <3> QED
      BY <2>1, <2>3, <3>1, <3>2 DEF OneRuleInv, FreshRulesFire
  <2> QED
    BY <2>1, <2>2, <2>3
<1>7. CASE Fetch \/ EndJudging \/ LogAlert
  <2>1. /\ daemon # "off" /\ daemon' # "off"
        /\ UNCHANGED <<file, rules, since, fired, unheard, seenIds, recycled>>
    BY <1>7 DEF Fetch, Reads, EndJudging, LogAlert, fileVars, ghosts
  <2> QED
    BY <2>1 DEF IdsInv, OneRuleInv, FreshRulesFire
<1>8. CASE Sleep
  <2>1. /\ daemon # "off" /\ daemon' # "off"
        /\ since' = [i \in Id |-> Older(since[i], lag + 1)]
        /\ UNCHANGED <<file, rules, fired, unheard, seenIds, recycled>>
    BY <1>8 DEF Sleep, fileVars
  <2>2. lag + 1 \in Nat
    BY Times DEF TypeOK
  <2>3. \A i \in Id : since'[i] # Absent => since[i] # Absent
    BY <2>1, <2>2, OlderProperties DEF TypeOK
  <2> QED
    BY <1>4, <2>1, <2>3 DEF IdsInv, OneRuleInv, FreshRulesFire
<1>9. CASE DaemonDies
  <2>1. /\ daemon' = "off" /\ rules' = <<>> /\ unheard' = {}
        /\ since' = [i \in Id |-> Absent]
        /\ UNCHANGED <<file, seenIds, recycled>>
    BY <1>9 DEF DaemonDies, fileVars
  <2> QED
    BY <1>3, <1>4, <2>1 DEF IdsInv, OneRuleInv, FreshRulesFire
<1>10. CASE UNCHANGED vars
  BY <1>10 DEF vars, fileVars, ghosts, IdsInv, OneRuleInv, FreshRulesFire
<1> QED
  BY <1>1, <1>2, <1>5, <1>6, <1>7, <1>8, <1>9, <1>10 DEF Next, DaemonProceeds

-----------------------------------------------------------------------------
(* The theorems                                                            *)

\* The invariant holds of every behaviour, whatever the metrics, the
\* conditions, the cooldown and the time that readings and notifications take.
THEOREM Inductive == Spec => []IInv
<1>1. IInv /\ [Next]_vars => IInv'
  BY TypeStep, LagStep, StampInvStep, TriggeredStep, IdsStep DEF IInv
<1> QED
  BY InitIInv, <1>1, PTL DEF Spec

\* evaluate_active_rules reads each metric once per round: rules that fire in
\* the same round were all breached by one reading.
THEOREM RoundsAreConsistent == Spec => []NoContradiction
<1>1. IInv => NoContradiction
  BY DEF IInv, TriggeredInv, NoContradiction
<1> QED
  BY <1>1, Inductive, PTL

\* A condition that is seen to clear removes the stamp that would silence its
\* next breach.
THEOREM StampsAreOfThisBreach == Spec => []RearmsWhenClear
<1>1. IInv => RearmsWhenClear
  BY CooldownAssumption DEF IInv, TypeOK, StampInv, RearmsWhenClear, Absent
<1> QED
  BY <1>1, Inductive, PTL

\* Two notifications of one unbroken breach are a cooldown apart, but for what
\* the round of the first one had taken before it went out: for reading the
\* metrics up to its own, and for the notifications before it and its own.
THEOREM NotificationsAreSpaced == Spec => RepeatsAreSpaced
<1> DEFINE Spaced == \A i \in Id :
              (Len(triggered') > Len(triggered) /\ Last(triggered').id = i /\ heard[i] # Absent)
                 => heard[i] >= Cooldown - MaxLag
<1>1. ASSUME IInv, Next
      PROVE  Spaced
  <2> USE <1>1 DEF IInv
  <2> SUFFICES ASSUME NEW i \in Id, Len(triggered') > Len(triggered),
                      Last(triggered').id = i, heard[i] # Absent
               PROVE  heard[i] >= Cooldown - MaxLag
    OBVIOUS
  <2>1. triggered \in Seq(Rule) /\ Len(triggered) \in Nat
    BY LenProperties DEF TypeOK
  <2>2. triggered' # triggered /\ triggered' # <<>>
    BY <2>1
  <2>3. ~LogAlert
    <3>1. ASSUME LogAlert
          PROVE  Len(triggered') = Len(triggered) - 1
      BY <2>1, <3>1, TailToSet DEF LogAlert
    <3> QED
      BY <2>1, <3>1
  <2>4. JudgeRule
    BY <2>2, <2>3 DEF Next, DaemonProceeds, AddRule, StopRule, DaemonUntouched,
       StartDaemon, BeginRound, Fetch, Reads, EndJudging, Sleep, DaemonDies
  <2>5. PICK rule \in ToSet(rules), v \in Value : Fires(rule, v)
    BY <2>2, <2>4 DEF JudgeRule, Unreadable, Clears, Suppressed
  <2>6. rule \in Rule
    <3>1. Judging(rule, v)
      BY <2>5 DEF Fires
    <3> QED
      BY <3>1, JudgingProperties
  <2>7. Last(triggered') = rule
    BY <2>1, <2>5, <2>6, AppendToSet DEF Fires
  <2>8. since[i] = Absent \/ ~(since[i] < Cooldown)
    BY <2>5, <2>7 DEF Fires, Cooling
  <2>9. /\ since[i] \in 0..Cooldown \cup {Absent}
        /\ heard[i] \in 0..Cooldown \cup {Absent}
        /\ lag \in Nat /\ MaxLag \in Nat /\ Cooldown \in Nat
    BY Times, CooldownAssumption DEF TypeOK
  <2>10. /\ since[i] = Absent <=> heard[i] = Absent
         /\ since[i] # Absent =>
               heard[i] + MaxLag >= Cooldown \/ heard[i] + MaxLag >= since[i] + lag
    BY DEF StampInv
  <2> QED
    BY <2>8, <2>9, <2>10 DEF Absent
<1>2. IInv /\ [Next]_vars => [Spaced]_vars
  BY <1>1
<1> QED
  BY <1>2, Inductive, PTL DEF Spec, RepeatsAreSpaced

\* The first breach of a rule whose id was no other rule's during the life of
\* this daemon is reported: no stamp can be left that silences it.
THEOREM FirstBreachesAreReported == Spec => []FreshRulesFire
<1>1. IInv => FreshRulesFire
  BY DEF IInv
<1> QED
  BY <1>1, Inductive, PTL
=============================================================================
