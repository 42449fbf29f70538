----------------------------- MODULE AlertEngine -----------------------------
(***************************************************************************)
(* The evaluation of alert rules by the daemon (engine.evaluate_active_rules *)
(* and daemon._monitor_loop): once per round every rule is judged by its   *)
(* metric, a breached one fires, and what has fired is kept silent for a   *)
(* cooldown unless its condition is seen to clear.                         *)
(*                                                                         *)
(* The user edits the rules meanwhile, in another process.  How rules.json *)
(* travels between the two is RuleFile's subject: here an edit changes the *)
(* file in one step and the daemon reloads it at the start of a round.     *)
(*                                                                         *)
(* Time is counted in seconds and only as far as it matters: the age of a  *)
(* stamp in _last_triggered_at stops growing at the cooldown.              *)
(***************************************************************************)
EXTENDS Integers, SequencesExt

CONSTANTS
    Metric,         \* what rules can watch
    Value,          \* the readings of a metric
    NoValue,        \* a metric that cannot be read now: fetch_metric_value's None
    Condition,      \* what users ask for: [metric, operator, threshold]
    Cooldown,       \* DEFAULT_ALERT_COOLDOWN_SECONDS
    MaxFetchTime,   \* the longest that reading one metric can take
    MaxActionTime,  \* the longest that sending one notification can take
    MaxRules,       \* bound: rules at one time
    MaxAdds         \* bound: rules ever added

Operator == {">", "<", "==", ">=", "<="}

ASSUME ValueAssumption == Value \subseteq Int /\ NoValue \notin Value
ASSUME ConditionAssumption ==
    Condition \subseteq [metric : Metric, operator : Operator, threshold : Int]
ASSUME CooldownAssumption == Cooldown \in Nat
ASSUME TimeAssumption == MaxFetchTime \in Nat /\ MaxActionTime \in Nat
ASSUME BoundAssumption == MaxRules \in Nat /\ MaxAdds \in Nat

VARIABLES
    file,          \* the rules in rules.json
    newer,         \* the file is newer than what the daemon has loaded
    daemon,        \* where the daemon is in its round
    rules,         \* its ACTIVE_RULES
    next,          \* the place of the rule it judges next
    metricValues,  \* the metrics it has fetched in this round
    triggered,     \* the rules that have fired and are not logged yet
    since,         \* age of each id's _last_triggered_at when the round began
    lag,           \* how long ago that was
    \* the rest observes or bounds the behaviour
    heard,         \* time since an id's last notification in an unbroken breach
    fired,         \* the rules that have fired since they were added
    unheard,       \* the rules whose first breach was passed over
    seenIds,       \* the ids this daemon may have met
    recycled,      \* those of them that were given to another rule since
    adds

fileVars == <<file, newer>>
ghosts == <<heard, fired, unheard, seenIds, recycled, adds>>
vars == <<fileVars, daemon, rules, next, metricValues, triggered, since, lag, ghosts>>

-----------------------------------------------------------------------------
Id == 1..MaxAdds
Rule == {[id |-> i, condition |-> c] : i \in Id, c \in Condition}
IdsOf(list) == {list[i].id : i \in DOMAIN list}

\* _OPERATORS
Breached(condition, v) ==
    LET t == condition.threshold IN
    CASE condition.operator = ">"  -> v > t
      [] condition.operator = "<"  -> v < t
      [] condition.operator = "==" -> v = t
      [] condition.operator = ">=" -> v >= t
      [] condition.operator = "<=" -> v <= t

\* The entry of an id that _last_triggered_at does not hold.
Absent == -1

\* Metrics are read and notifications are sent one after the other, each giving
\* up in time.
FetchTime == 0..MaxFetchTime
ActionTime == 0..MaxActionTime
MaxLag == MaxRules * (MaxFetchTime + MaxActionTime)

Older(age, seconds) ==
    IF age = Absent THEN Absent
    ELSE IF age + seconds > Cooldown THEN Cooldown ELSE age + seconds

-----------------------------------------------------------------------------
TypeOK ==
    /\ file \in Seq(Rule) /\ Len(file) <= MaxRules
    /\ newer \in BOOLEAN
    /\ daemon \in {"off", "awake", "judging", "logging"}
    /\ rules \in Seq(Rule) /\ Len(rules) <= MaxRules
    /\ next \in 1..(MaxRules + 1)
    /\ DOMAIN metricValues \subseteq Metric
    /\ \A m \in DOMAIN metricValues : metricValues[m] \in Value \cup {NoValue}
    /\ triggered \in Seq(Rule)
    /\ since \in [Id -> 0..Cooldown \cup {Absent}]
    /\ lag \in 0..MaxLag
    /\ heard \in [Id -> 0..Cooldown \cup {Absent}]
    /\ fired \subseteq Rule /\ unheard \subseteq Rule
    /\ seenIds \subseteq Id /\ recycled \subseteq Id
    /\ adds \in 0..MaxAdds

Init ==
    /\ file = <<>>
    /\ newer = FALSE
    /\ daemon = "off"
    /\ rules = <<>>
    /\ next = 1
    /\ metricValues = <<>>
    /\ triggered = <<>>
    /\ since = [i \in Id |-> Absent]
    /\ lag = 0
    /\ heard = [i \in Id |-> Absent]
    /\ fired = {}
    /\ unheard = {}
    /\ seenIds = {}
    /\ recycled = {}
    /\ adds = 0

-----------------------------------------------------------------------------
(* The user's edits.  They run in the user interface's process, so that    *)
(* remove_rule's pop of _last_triggered_at touches that process's table,   *)
(* which is empty, and not the daemon's.                                   *)

DaemonUntouched ==
    UNCHANGED <<daemon, rules, next, metricValues, triggered, since, lag, heard>>

AddRule ==
    /\ adds < MaxAdds
    /\ Len(file) < MaxRules
    /\ \E c \in Condition, i \in Id :
          /\ i - 1 \in IdsOf(file) \cup {0}
          /\ \A j \in IdsOf(file) : j < i
          /\ file' = Append(file, [id |-> i, condition |-> c])
          /\ recycled' = recycled \cup ({i} \cap seenIds)
          /\ seenIds' = seenIds \cup {i}
    /\ newer' = TRUE
    /\ adds' = adds + 1
    /\ DaemonUntouched
    /\ UNCHANGED <<fired, unheard>>

StopRule ==
    /\ \E k \in DOMAIN file :
          /\ file' = RemoveAt(file, k)
          /\ fired' = fired \ {file[k]}
          /\ unheard' = unheard \ {file[k]}
    /\ newer' = TRUE
    /\ DaemonUntouched
    /\ UNCHANGED <<seenIds, recycled, adds>>

-----------------------------------------------------------------------------
(* The daemon's round                                                      *)

StartDaemon ==
    /\ daemon = "off"
    /\ daemon' = "awake"
    /\ newer' = TRUE
    /\ seenIds' = IdsOf(file)
    /\ recycled' = {}
    /\ UNCHANGED <<file, rules, next, metricValues, triggered, since, lag,
                   heard, fired, unheard, adds>>

\* A slip: the daemon keeps the rules it has once loaded.
BeginRoundWithOldRules ==
    /\ daemon = "awake"
    /\ daemon' = "judging"
    /\ rules' = IF newer /\ rules = <<>> THEN file ELSE rules
    /\ newer' = FALSE
    /\ next' = 1
    /\ metricValues' = <<>>
    /\ UNCHANGED <<file, triggered, since, lag, ghosts>>

\* Reload if the file is newer, then evaluate_active_rules takes the time.
BeginRound ==
    /\ daemon = "awake"
    /\ daemon' = "judging"
    /\ rules' = IF newer THEN file ELSE rules
    /\ newer' = FALSE
    /\ next' = 1
    /\ metricValues' = <<>>
    /\ UNCHANGED <<file, triggered, since, lag, ghosts>>

\* The metric of the rule whose turn it is.
DueMetric == rules[next].condition.metric
IsFetched == next <= Len(rules) /\ DueMetric \in DOMAIN metricValues

Reads(metric) ==
    /\ \E v \in Value \cup {NoValue} :
          metricValues' = [m \in DOMAIN metricValues \cup {metric} |->
                              IF m = metric THEN v ELSE metricValues[m]]
    /\ \E d \in FetchTime :
          /\ lag' = lag + d
          /\ heard' = [i \in Id |-> Older(heard[i], d)]
    /\ UNCHANGED <<fileVars, daemon, rules, next, triggered, since,
                   fired, unheard, seenIds, recycled, adds>>

\* A slip: every rule reads its metric anew.
FetchAnew ==
    /\ daemon = "judging" /\ next <= Len(rules)
    /\ Reads(DueMetric)

\* A metric is read at the first of its rules, however long that takes, and the
\* value is kept for the others of this round.
Fetch ==
    /\ daemon = "judging" /\ next <= Len(rules)
    /\ ~IsFetched
    /\ Reads(DueMetric)

\* The rule whose turn it is, and the value it is judged by.
Judging(rule, v) ==
    /\ daemon = "judging"
    /\ IsFetched
    /\ rule = rules[next]
    /\ v = metricValues[DueMetric]
    /\ next' = next + 1
    /\ UNCHANGED <<fileVars, daemon, rules, metricValues, seenIds, recycled, adds>>

\* A slip: a metric that cannot be read clears the rule.
UnreadableClears(rule) ==
    /\ Judging(rule, NoValue)
    /\ since' = [since EXCEPT ![rule.id] = Absent]
    /\ UNCHANGED <<triggered, lag, heard, fired, unheard>>

\* A metric that cannot be read now leaves its rules as they are.
Unreadable(rule) ==
    /\ Judging(rule, NoValue)
    /\ UNCHANGED <<triggered, since, lag, heard, fired, unheard>>

\* A slip: the stamp stays when the condition clears.
ClearsWithoutRearming(rule, v) ==
    /\ Judging(rule, v)
    /\ ~Breached(rule.condition, v)
    /\ heard' = [heard EXCEPT ![rule.id] = Absent]
    /\ UNCHANGED <<since, triggered, lag, fired, unheard>>

\* The condition does not hold: the rule is armed again.
Clears(rule, v) ==
    /\ Judging(rule, v)
    /\ ~Breached(rule.condition, v)
    /\ since' = [since EXCEPT ![rule.id] = Absent]
    /\ heard' = [heard EXCEPT ![rule.id] = Absent]
    /\ UNCHANGED <<triggered, lag, fired, unheard>>

\* A slip: a rule that has never fired counts as one that has just fired.
CoolingFromTheStart(rule) == since[rule.id] < Cooldown

\* It has fired less than a cooldown ago.
Cooling(rule) == since[rule.id] # Absent /\ since[rule.id] < Cooldown

\* A slip: every breach that is passed over starts the cooldown again.
SuppressedAndStamped(rule, v) ==
    /\ Judging(rule, v)
    /\ Breached(rule.condition, v)
    /\ Cooling(rule)
    /\ since' = [since EXCEPT ![rule.id] = 0]
    /\ UNCHANGED <<triggered, lag, heard, fired, unheard>>

\* A rule is passed over as long as it is cooling.
Suppressed(rule, v) ==
    /\ Judging(rule, v)
    /\ Breached(rule.condition, v)
    /\ Cooling(rule)
    /\ unheard' = IF rule \in ToSet(file) /\ rule \notin fired
                  THEN unheard \cup {rule} ELSE unheard
    /\ UNCHANGED <<triggered, since, lag, heard, fired>>

\* Otherwise it fires: it is stamped with the time the round began, and the
\* notification goes out, however long that takes.
Fires(rule, v) ==
    /\ Judging(rule, v)
    /\ Breached(rule.condition, v)
    /\ ~Cooling(rule)
    /\ \E d \in ActionTime :
          /\ lag' = lag + d
          /\ heard' = [[i \in Id |-> Older(heard[i], d)] EXCEPT ![rule.id] = 0]
    /\ since' = [since EXCEPT ![rule.id] = 0]
    /\ triggered' = Append(triggered, rule)
    /\ fired' = fired \cup {rule}
    /\ UNCHANGED unheard

JudgeRule ==
    \E rule \in ToSet(rules) :
        \/ Unreadable(rule)
        \/ \E v \in Value : Clears(rule, v) \/ Suppressed(rule, v) \/ Fires(rule, v)

EndJudging ==
    /\ daemon = "judging"
    /\ next > Len(rules)
    /\ daemon' = "logging"
    /\ UNCHANGED <<fileVars, rules, next, metricValues, triggered, since, lag, ghosts>>

\* The alert is appended to its rule's log file; an OSError is swallowed.
LogAlert ==
    /\ daemon = "logging"
    /\ triggered # <<>>
    /\ triggered' = Tail(triggered)
    /\ UNCHANGED <<fileVars, daemon, rules, next, metricValues, since, lag, ghosts>>

\* A slip: the time the round took is counted again in the next one.
SleepKeepingLag ==
    /\ daemon = "logging"
    /\ triggered = <<>>
    /\ daemon' = "awake"
    /\ since' = [i \in Id |-> Older(since[i], lag + 1)]
    /\ heard' = [i \in Id |-> Older(heard[i], 1)]
    /\ UNCHANGED <<fileVars, rules, next, metricValues, triggered, lag,
                   fired, unheard, seenIds, recycled, adds>>

\* time.sleep(1), up to the next round: what the round took and the second
\* slept have passed for the stamps.
Sleep ==
    /\ daemon = "logging"
    /\ triggered = <<>>
    /\ daemon' = "awake"
    /\ since' = [i \in Id |-> Older(since[i], lag + 1)]
    /\ heard' = [i \in Id |-> Older(heard[i], 1)]
    /\ lag' = 0
    /\ UNCHANGED <<fileVars, rules, next, metricValues, triggered,
                   fired, unheard, seenIds, recycled, adds>>

\* The process ends wherever it is; its rules and its stamps go with it.
DaemonDies ==
    /\ daemon # "off"
    /\ daemon' = "off"
    /\ rules' = <<>>
    /\ next' = 1
    /\ metricValues' = <<>>
    /\ triggered' = <<>>
    /\ since' = [i \in Id |-> Absent]
    /\ lag' = 0
    /\ heard' = [i \in Id |-> Absent]
    /\ fired' = {}
    /\ unheard' = {}
    /\ UNCHANGED <<fileVars, seenIds, recycled, adds>>

-----------------------------------------------------------------------------
DaemonProceeds == BeginRound \/ Fetch \/ JudgeRule \/ EndJudging \/ LogAlert \/ Sleep

Next == AddRule \/ StopRule \/ StartDaemon \/ DaemonProceeds \/ DaemonDies

\* A daemon that is up goes round its loop; users need not edit, and nothing
\* need start or end.
Fairness == WF_vars(DaemonProceeds)

Spec == Init /\ [][Next]_vars /\ Fairness
-----------------------------------------------------------------------------
(* Properties                                                              *)

\* One metric is one number in a round: two rules on it whose conditions no
\* value meets together never fire in the same round.
NoContradiction ==
    \A r, s \in ToSet(triggered) :
        r.condition.metric = s.condition.metric =>
            \E v \in Value : Breached(r.condition, v) /\ Breached(s.condition, v)

\* "Repeated fires are suppressed for 60 seconds while a condition stays true":
\* between two notifications of one id, with no round in between that saw the
\* condition clear, the cooldown passes, less what the first round had taken,
\* for reading metrics and for other notifications, when its notification went
\* out.  A metric that cannot be read in between does not shorten it.
RepeatsAreSpaced ==
    [][\A i \in Id :
          (Len(triggered') > Len(triggered) /\ Last(triggered').id = i /\ heard[i] # Absent)
              => heard[i] >= Cooldown - MaxLag]_vars

\* "... then re-arm when it clears": a stamp that can silence a rule belongs to
\* a notification of the breach that still lasts, and is no younger than it.
RearmsWhenClear ==
    \A i \in Id : since[i] # Absent => heard[i] \in 0..(since[i] + lag)

\* What makes the three above inductive.  A round never takes longer than the
\* metrics it has read and the notifications it has sent; a stamp and its
\* notification come and go together; and the notification is no more than a
\* round younger.
LagInv ==
    /\ daemon \in {"off", "awake"} => lag = 0
    /\ lag <= (next - 1) * (MaxFetchTime + MaxActionTime)
                 + (IF IsFetched THEN MaxFetchTime ELSE 0)
    /\ next <= Len(rules) + 1

StampInv ==
    \A i \in Id :
        /\ since[i] = Absent <=> heard[i] = Absent
        /\ since[i] # Absent =>
              /\ heard[i] <= since[i] + lag
              /\ heard[i] + MaxLag >= Cooldown \/ heard[i] + MaxLag >= since[i] + lag

\* What has fired in this round was breached by this round's reading.
TriggeredInv ==
    /\ daemon \in {"off", "awake"} => triggered = <<>>
    /\ \A r \in ToSet(triggered) :
          /\ r.condition.metric \in DOMAIN metricValues
          /\ metricValues[r.condition.metric] \in Value
          /\ Breached(r.condition, metricValues[r.condition.metric])

\* A rule's first breach is never passed over, unless its id was another
\* rule's during the life of this daemon.
FreshRulesFire == \A r \in unheard : r.id \in recycled

\* Whatever an id that was given out once has to do with this daemon, it has to
\* do with one rule: the daemon knows no id that it has not met, one rule has the
\* id in the file and in the daemon's list, and a stamp under it says that this
\* rule has fired.
IdsInv ==
    /\ \A j, k \in DOMAIN file : file[j].id = file[k].id => j = k
    /\ daemon # "off" => IdsOf(file) \subseteq seenIds
    /\ IdsOf(rules) \subseteq seenIds
    /\ \A i \in Id : since[i] # Absent => i \in seenIds
    /\ daemon = "off" =>
          rules = <<>> /\ unheard = {} /\ \A i \in Id : since[i] = Absent

OneRuleInv ==
    /\ \A r \in ToSet(rules), s \in ToSet(file) :
          r.id = s.id /\ r.id \notin recycled => r = s
    /\ \A r \in ToSet(file) :
          since[r.id] # Absent /\ r.id \notin recycled => r \in fired

IInv == TypeOK /\ LagInv /\ StampInv /\ TriggeredInv /\ IdsInv /\ OneRuleInv /\ FreshRulesFire

\* The same for every rule, as remove_rule "also clears the tracked state".
FirstBreachFires == unheard = {}

\* Every reading of the rule's metric breaches it.
BreachedIn(rule) ==
    rule.condition.metric \in DOMAIN metricValues =>
        /\ metricValues[rule.condition.metric] # NoValue
        /\ Breached(rule.condition, metricValues[rule.condition.metric])

\* A rule that stays breached from some round on is reported again and again
\* by a daemon that stays up: neither a cooldown nor a reload of the file
\* silences it for good.
StandingBreachIsReported ==
    \A r \in Rule :
        <>[](daemon # "off" /\ r \in ToSet(file) /\ BreachedIn(r))
            => []<>(r \in ToSet(triggered))

\* A rule that was stopped for good fires no more from some moment on.
StoppedRulesFallSilent ==
    \A r \in Rule :
        <>[](r \notin ToSet(file)) => <>[](r \notin ToSet(triggered))
=============================================================================
