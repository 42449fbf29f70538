---------------------------- MODULE RuleFile_proof ----------------------------
(***************************************************************************)
(* Proofs about RuleFile for any processes, threads, names and bounds: its *)
(* types, the soundness of the daemon's mtime check, the uniqueness of     *)
(* rule ids while no process serves the web dashboard, and that the rules  *)
(* of a sole editor persist.                                               *)
(***************************************************************************)
EXTENDS RuleFile, TLAPS, SequenceTheorems

-----------------------------------------------------------------------------
(* What the operations on lists of rules do                                *)

\* list.pop, written with RemoveAt, shortens the list and moves up what
\* came after the element.
LEMMA RemoveAtProperties ==
    ASSUME NEW S, NEW s \in Seq(S), NEW i \in 1..Len(s)
    PROVE  /\ RemoveAt(s, i) \in Seq(S)
           /\ Len(RemoveAt(s, i)) = Len(s) - 1
           /\ \A j \in 1..(Len(s) - 1) :
                 RemoveAt(s, i)[j] = IF j < i THEN s[j] ELSE s[j + 1]
<1> DEFINE front == SubSeq(s, 1, i - 1)
           back == SubSeq(s, i + 1, Len(s))
<1>1. /\ front \in Seq(S) /\ Len(front) = i - 1 /\ \A j \in 1..i - 1 : front[j] = s[j]
  OBVIOUS
<1>2. /\ back \in Seq(S) /\ Len(back) = Len(s) - i /\ \A j \in 1..Len(s) - i : back[j] = s[i + j]
  OBVIOUS
<1>3. RemoveAt(s, i) = front \o back
  BY DEF RemoveAt
<1> HIDE DEF front, back
<1>4. front \o back \in Seq(S) /\ Len(front \o back) = Len(s) - 1
  BY <1>1, <1>2, ConcatProperties, LenProperties
<1>5. \A j \in 1..Len(s) - 1 : (front \o back)[j] = IF j < i THEN s[j] ELSE s[j + 1]
  BY <1>1, <1>2
<1> QED
  BY <1>3, <1>4, <1>5

\* Popping a rule leaves the ids of the others distinct, and adds none.
LEMMA RemoveAtKeepsUnique ==
    ASSUME NEW rules \in Seq(Rule), UniqueIds(rules), NEW i \in 1..Len(rules)
    PROVE  UniqueIds(RemoveAt(rules, i))
<1> DEFINE rest == RemoveAt(rules, i)
<1>1. /\ rest \in Seq(Rule)
      /\ Len(rest) = Len(rules) - 1
      /\ \A j \in 1..(Len(rules) - 1) :
            rest[j] = IF j < i THEN rules[j] ELSE rules[j + 1]
  BY RemoveAtProperties
<1> HIDE DEF rest
<1>2. ASSUME NEW j \in DOMAIN rest, NEW k \in DOMAIN rest, rest[j].id = rest[k].id
      PROVE  j = k
  <2> DEFINE old(n) == IF n < i THEN n ELSE n + 1
  <2>1. Len(rules) \in Nat /\ i \in Nat
    BY LenProperties
  <2>2. j \in 1..(Len(rules) - 1) /\ k \in 1..(Len(rules) - 1)
    BY <1>1, <1>2, LenProperties
  <2>3. rest[j] = rules[old(j)] /\ rest[k] = rules[old(k)]
    BY <1>1, <2>2
  <2>4. old(j) \in 1..Len(rules) /\ old(k) \in 1..Len(rules)
    BY <2>1, <2>2
  <2>5. old(j) = old(k)
    BY <1>2, <2>3, <2>4, LenProperties DEF UniqueIds
  <2> QED
    BY <2>1, <2>2, <2>5
<1> QED
  BY <1>2 DEF UniqueIds, rest

\* A rule whose id is above all others keeps the ids distinct when appended.
LEMMA AppendKeepsUnique ==
    ASSUME NEW rules \in Seq(Rule), UniqueIds(rules), NEW r \in Rule,
           \A id \in IdsOf(rules) : id < r.id
    PROVE  UniqueIds(Append(rules, r))
<1> DEFINE longer == Append(rules, r)
<1>1. /\ longer \in Seq(Rule)
      /\ Len(longer) = Len(rules) + 1
      /\ \A i \in 1..Len(rules) : longer[i] = rules[i]
      /\ longer[Len(rules) + 1] = r
  BY AppendProperties
<1> HIDE DEF longer
<1>2. Len(rules) \in Nat /\ DOMAIN rules = 1..Len(rules)
  BY LenProperties
<1>3. DOMAIN longer = 1..(Len(rules) + 1)
  BY <1>1, LenProperties
<1>4. ASSUME NEW i \in 1..Len(rules)
      PROVE  rules[i].id \in Nat /\ rules[i].id < r.id
  <2>1. rules[i] \in Rule
    BY <1>2
  <2>2. rules[i].id \in IdsOf(rules)
    BY <1>2 DEF IdsOf
  <2> QED
    BY <2>1, <2>2 DEF Rule
<1>5. r.id \in Nat
  BY DEF Rule
<1>6. ASSUME NEW j \in DOMAIN longer, NEW k \in DOMAIN longer,
             longer[j].id = longer[k].id
      PROVE  j = k
  <2>1. CASE j \in 1..Len(rules) /\ k \in 1..Len(rules)
    BY <2>1, <1>1, <1>2, <1>6 DEF UniqueIds
  <2>2. CASE j \in 1..Len(rules) /\ k = Len(rules) + 1
    <3>1. longer[j].id < longer[k].id
      BY <2>2, <1>1, <1>4
    <3> QED
      BY <3>1, <2>2, <1>1, <1>4, <1>5, <1>6
  <2>3. CASE j = Len(rules) + 1 /\ k \in 1..Len(rules)
    <3>1. longer[k].id < longer[j].id
      BY <2>3, <1>1, <1>4
    <3> QED
      BY <3>1, <2>3, <1>1, <1>4, <1>5, <1>6
  <2>4. CASE j = Len(rules) + 1 /\ k = Len(rules) + 1
    BY <2>4
  <2> QED
    BY <2>1, <2>2, <2>3, <2>4, <1>2, <1>3
<1> QED
  BY <1>6 DEF UniqueIds, longer

\* add_rule's id is a positive number above every id of the list.
LEMMA NextIdIsAbove ==
    ASSUME NEW rules \in Seq(Rule), NEW id, IsNextId(rules, id)
    PROVE  id \in Nat \ {0} /\ \A other \in IdsOf(rules) : other < id
<1>1. IdsOf(rules) \subseteq Nat
  <2>1. ASSUME NEW i \in DOMAIN rules PROVE rules[i].id \in Nat
    <3>1. rules[i] \in Rule
      BY <2>1
    <3> QED
      BY <3>1 DEF Rule
  <2> QED
    BY <2>1 DEF IdsOf
<1> QED
  BY <1>1 DEF IsNextId

-----------------------------------------------------------------------------
(* Types                                                                   *)

\* What load_rules leaves in a list of rules is a list of rules.
LEMMA LoadedType ==
    ASSUME NEW rules \in Seq(Rule), disk \in Disk
    PROVE  Loaded(rules) \in Seq(Rule)
<1>1. CASE disk.kind = "whole"
  <2>1. disk.rules \in Seq(Rule)
    BY <1>1 DEF Disk
  <2> QED
    BY <1>1, <2>1 DEF Loaded
<1>2. CASE disk.kind # "whole"
  BY <1>2 DEF Loaded
<1> QED
  BY <1>1, <1>2

\* Whatever the file is, the list in it is a list of rules.
LEMMA DiskRulesType ==
    ASSUME disk \in Disk
    PROVE  disk.rules \in Seq(Rule)
<1>1. <<>> \in Seq(Rule)
  OBVIOUS
<1> QED
  BY <1>1 DEF Disk

\* The initial state has the types.
LEMMA InitType == Init => TypeOK
<1> SUFFICES ASSUME Init PROVE TypeOK
  OBVIOUS
<1>1. disk \in Disk /\ mtime \in Int
  <2>1. CASE disk = NoFile /\ mtime = 0
    BY <2>1 DEF Disk, NoFile
  <2>2. ASSUME NEW r \in [id : {1}, name : {Default}],
               disk = Whole(<<r>>), mtime = 1
        PROVE  disk \in Disk /\ mtime \in Int
    <3>1. r \in Rule
      BY DEF Rule
    <3>2. <<r>> \in Seq(Rule)
      BY <3>1
    <3> QED
      BY <2>2, <3>2 DEF Disk, Whole
  <2> QED
    BY <2>1, <2>2 DEF Init
<1>2. disk.rules \in Seq(Rule)
  BY <1>1, DiskRulesType
<1>3. ToSet(disk.rules) \subseteq Rule
  BY <1>2 DEF ToSet
<1>4. <<>> \in Seq(Rule) /\ NoJob \in Job
  BY DEF NoJob, Job
<1>5. /\ mem \in [UI -> Seq(Rule)] /\ held \in [WebThread -> Seq(Rule)]
      /\ job \in [UI -> Job] /\ dmem \in Seq(Rule)
  <2>1. mem \in [UI -> Seq(Rule)]
    BY <1>4 DEF Init
  <2>2. held \in [WebThread -> Seq(Rule)]
    BY <1>4 DEF Init
  <2>3. job \in [UI -> Job]
    BY <1>4 DEF Init
  <2>4. dmem \in Seq(Rule)
    BY <1>4 DEF Init
  <2> QED
    BY <2>1, <2>2, <2>3, <2>4
<1>6. acked \subseteq Rule
  BY <1>3 DEF Init
<1>7. /\ phase \in [UI -> {"off", "idle", "adding", "removing", "changed", "writing"}]
      /\ web \in [WebThread -> {"idle", "parsed", "cleared"}]
      /\ daemon \in {"off", "idle", "statted"}
  BY DEF Init
<1>8. seen \in Int /\ lastMtime \in Int /\ edits \in Nat /\ starts \in Nat
  BY DEF Init
<1>9. cut \in BOOLEAN /\ started \subseteq UI
  BY DEF Init
<1> QED
  BY <1>1, <1>5, <1>6, <1>7, <1>8, <1>9 DEF TypeOK

\* Every step of a user interface keeps the types.
LEMMA UITypeStep ==
    ASSUME IInv, NEW u \in UI,
           \/ StartUI(u) \/ ChooseId(u) \/ FindRule(u) \/ UIProceeds(u)
           \/ SaveFails(u) \/ EndUI(u)
    PROVE  TypeOK'
<1> USE DEF IInv, TypeOK, Goto, uiVars, webVars, fileVars, daemonVars, ghosts
<1>0. mem[u] \in Seq(Rule) /\ job[u] \in Job /\ disk.rules \in Seq(Rule)
  BY DiskRulesType
<1>1. CASE StartUI(u)
  <2>1. <<>> \in Seq(Rule) /\ disk \in Disk
    OBVIOUS
  <2>2. Loaded(<<>>) \in Seq(Rule)
    BY <2>1, LoadedType
  <2> QED
    BY <1>1, <2>2 DEF StartUI
<1>2. CASE ChooseId(u)
  <2>1. PICK id \in CandidateIds(mem[u]), name \in Typed[u] :
          /\ IsNextId(mem[u], id)
          /\ job' = [job EXCEPT ![u] =
                [op |-> "add", rule |-> [id |-> id, name |-> name]]]
    BY <1>2 DEF ChooseId
  <2>2. [id |-> id, name |-> name] \in Rule
    BY <2>1, <1>0, NextIdIsAbove, TypedAssumption DEF Rule
  <2>3. [op |-> "add", rule |-> [id |-> id, name |-> name]] \in Job
    BY <2>2 DEF Job
  <2>4. job' \in [UI -> Job]
    BY <2>1, <2>3
  <2> QED
    BY <1>2, <2>4 DEF ChooseId
<1>3. CASE AppendRule(u)
  <2>1. job[u].rule \in Rule
    BY <1>0, <1>3 DEF AppendRule, JobMatchesPhase, Job
  <2>2. Append(mem[u], job[u].rule) \in Seq(Rule)
    BY <1>0, <2>1
  <2> QED
    BY <1>3, <2>2 DEF AppendRule
<1>4. CASE FindRule(u)
  <2>1. PICK at \in DOMAIN mem[u] :
          job' = [job EXCEPT ![u] = [op |-> "stop", rule |-> mem[u][at], at |-> at]]
    BY <1>4 DEF FindRule
  <2>2. at \in Nat \ {0} /\ mem[u][at] \in Rule
    BY <1>0
  <2>3. [op |-> "stop", rule |-> mem[u][at], at |-> at] \in Job
    BY <2>2 DEF Job
  <2>4. job' \in [UI -> Job]
    BY <2>1, <2>3
  <2> QED
    BY <1>4, <2>4 DEF FindRule
<1>5. CASE PopRule(u)
  <2>1. job[u].at \in 1..Len(mem[u])
    BY <1>0, <1>5 DEF PopRule, JobMatchesPhase, Job
  <2>2. RemoveAt(mem[u], job[u].at) \in Seq(Rule)
    BY <1>0, <2>1, RemoveAtProperties
  <2> QED
    BY <1>5, <2>2 DEF PopRule
<1>6. CASE PopFails(u)
  <2>1. NoJob \in Job
    BY DEF NoJob, Job
  <2> QED
    BY <1>6, <2>1 DEF PopFails
<1>7. CASE OpenForWrite(u)
  <2>1. EmptyFile \in Disk
    BY DEF EmptyFile, Disk
  <2>2. mtime' \in Int
    BY <1>7, StampAssumption DEF OpenForWrite, Stamped
  <2> QED
    BY <1>7, <2>1, <2>2 DEF OpenForWrite
<1>8. ASSUME job[u].op # "none", Acknowledge(u)
      PROVE  acked' \subseteq Rule /\ job' \in [UI -> Job] /\ phase' \in
               [UI -> {"off", "idle", "adding", "removing", "changed", "writing"}]
  <2>1. job[u].rule \in Rule
    BY <1>0, <1>8 DEF Job
  <2>2. NoJob \in Job
    BY DEF NoJob, Job
  <2> QED
    BY <1>8, <2>1, <2>2 DEF Acknowledge, AckedAfter
<1>9. CASE WriteRules(u)
  <2>1. disk' \in Disk
    BY <1>0, <1>9 DEF WriteRules, Disk, Whole, MixedFile
  <2>2. mtime' \in Int
    BY <1>9, StampAssumption DEF WriteRules, Stamped
  <2>3. job[u].op # "none"
    BY <1>9 DEF WriteRules, JobMatchesPhase
  <2> QED
    BY <1>8, <1>9, <2>1, <2>2, <2>3 DEF WriteRules
<1>10. CASE SaveFails(u)
  <2>1. job[u].op # "none"
    BY <1>10 DEF SaveFails, JobMatchesPhase
  <2> QED
    BY <1>8, <1>10, <2>1 DEF SaveFails
<1>11. CASE EndUI(u)
  <2>1. NoJob \in Job
    BY DEF NoJob, Job
  <2> QED
    BY <1>11, <2>1 DEF EndUI
<1> QED
  BY <1>1, <1>2, <1>3, <1>4, <1>5, <1>6, <1>7, <1>9, <1>10, <1>11 DEF UIProceeds

\* Every step of an HTTP thread or of the daemon keeps the types.
LEMMA OtherTypeStep ==
    ASSUME IInv,
           \/ \E t \in WebThread : WebParse(t) \/ WebProceeds(t)
           \/ StartDaemon \/ DaemonProceeds \/ DaemonDies
    PROVE  TypeOK'
<1> USE HostAssumption
    DEF IInv, TypeOK, uiVars, webVars, fileVars, daemonVars, ghosts
<1>0. disk.rules \in Seq(Rule) /\ Loaded(dmem) \in Seq(Rule)
  BY DiskRulesType, LoadedType
<1>1. ASSUME NEW t \in WebThread, WebParse(t) PROVE TypeOK'
  BY <1>0, <1>1 DEF WebParse
<1>2. ASSUME NEW t \in WebThread, WebClear(t) PROVE TypeOK'
  BY <1>2 DEF WebClear
<1>3. ASSUME NEW t \in WebThread, WebExtend(t) PROVE TypeOK'
  <2>1. mem[Host[t]] \o held[t] \in Seq(Rule)
    OBVIOUS
  <2> QED
    BY <1>3, <2>1 DEF WebExtend
<1>4. CASE StartDaemon
  BY <1>4 DEF StartDaemon
<1>5. CASE StatFile
  BY <1>5 DEF StatFile
<1>6. CASE ReloadIfNewer
  BY <1>0, <1>6 DEF ReloadIfNewer
<1>7. CASE DaemonDies
  BY <1>7 DEF DaemonDies
<1> QED
  BY <1>1, <1>2, <1>3, <1>4, <1>5, <1>6, <1>7 DEF WebProceeds, DaemonProceeds

\* Every step keeps the types.
LEMMA TypeStep ==
    ASSUME IInv, [Next]_vars
    PROVE  TypeOK'
<1>1. CASE \E u \in UI :
              \/ StartUI(u) \/ ChooseId(u) \/ FindRule(u) \/ UIProceeds(u)
              \/ SaveFails(u) \/ EndUI(u)
  BY <1>1, UITypeStep
<1>2. CASE \/ \E t \in WebThread : WebParse(t) \/ WebProceeds(t)
           \/ StartDaemon \/ DaemonProceeds \/ DaemonDies
  BY <1>2, OtherTypeStep
<1>3. CASE UNCHANGED vars
  BY <1>3 DEF IInv, TypeOK, vars, uiVars, webVars, fileVars, daemonVars, ghosts
<1> QED
  BY <1>1, <1>2, <1>3 DEF Next

-----------------------------------------------------------------------------
(* The daemon's mtime check                                                *)

\* Nothing is loaded before the file is newer than time 0.
LEMMA InitCache == Init => CacheInv
BY DEF Init, CacheInv, DaemonCoherent, NoFile, Whole

\* A write that moves the mtime forward keeps the check sound.
LEMMA WriteCache ==
    ASSUME IInv, StampStep \subseteq Nat \ {0}, Stamped, UNCHANGED daemonVars
    PROVE  CacheInv'
<1>1. PICK step \in StampStep : mtime' = mtime + step
  BY DEF Stamped
<1>2. mtime \in Int /\ seen \in Int /\ lastMtime \in Int
  BY DEF IInv, TypeOK
<1>3. mtime' > mtime /\ 0 <= lastMtime' /\ lastMtime' <= mtime /\ seen' <= mtime
  BY <1>1, <1>2 DEF IInv, CacheInv, daemonVars
<1>4. lastMtime' < mtime' /\ seen' <= mtime' /\ 0 < mtime' /\ mtime' \in Int
      /\ lastMtime' \in Int
  BY <1>1, <1>2, <1>3 DEF daemonVars
<1>5. daemon' = "off" => lastMtime' = 0
  BY DEF IInv, CacheInv, daemonVars
<1> QED
  BY <1>3, <1>4, <1>5 DEF CacheInv, DaemonCoherent

\* Every step keeps it sound when every write moves the mtime forward.
LEMMA CacheStep ==
    ASSUME IInv, StampStep \subseteq Nat \ {0}, [Next]_vars
    PROVE  CacheInv'
<1> USE DEF IInv, TypeOK, CacheInv, DaemonCoherent, fileVars, daemonVars
<1>1. ASSUME UNCHANGED <<fileVars, daemonVars>> PROVE CacheInv'
  BY <1>1
<1>2. ASSUME NEW u \in UI,
             \/ StartUI(u) \/ ChooseId(u) \/ FindRule(u) \/ UIProceeds(u)
             \/ SaveFails(u) \/ EndUI(u)
      PROVE  CacheInv'
  <2>1. CASE OpenForWrite(u) \/ WriteRules(u)
    <3>1. Stamped /\ UNCHANGED daemonVars
      BY <2>1 DEF OpenForWrite, WriteRules
    <3> QED
      BY <3>1, WriteCache
  <2>2. CASE StartUI(u) \/ ChooseId(u) \/ FindRule(u) \/ AppendRule(u) \/ PopRule(u)
             \/ PopFails(u) \/ SaveFails(u) \/ EndUI(u)
    <3>1. UNCHANGED <<fileVars, daemonVars>>
      BY <2>2 DEF StartUI, ChooseId, FindRule, AppendRule, PopRule, PopFails,
                  SaveFails, EndUI
    <3> QED
      BY <3>1, <1>1
  <2> QED
    BY <1>2, <2>1, <2>2 DEF UIProceeds
<1>3. ASSUME NEW t \in WebThread, WebParse(t) \/ WebProceeds(t) PROVE CacheInv'
  <2>1. UNCHANGED <<fileVars, daemonVars>>
    BY <1>3 DEF WebParse, WebProceeds, WebClear, WebExtend
  <2> QED
    BY <2>1, <1>1
<1>4. CASE StartDaemon
  BY <1>4 DEF StartDaemon
<1>5. CASE StatFile
  BY <1>5 DEF StatFile
<1>6. CASE ReloadIfNewer
  BY <1>6 DEF ReloadIfNewer, Loaded
<1>7. CASE DaemonDies
  BY <1>7 DEF DaemonDies
<1>8. CASE UNCHANGED vars
  BY <1>8, <1>1 DEF vars
<1> QED
  BY <1>2, <1>3, <1>4, <1>5, <1>6, <1>7, <1>8 DEF Next, DaemonProceeds

-----------------------------------------------------------------------------
(* Jobs                                                                    *)

\* A thread that adds has a rule to add, one that stops a rule to stop.
LEMMA JobStep ==
    ASSUME IInv, [Next]_vars
    PROVE  JobMatchesPhase'
<1> USE DEF IInv, TypeOK, JobMatchesPhase, Goto, uiVars
<1>1. ASSUME UNCHANGED <<phase, job>> PROVE JobMatchesPhase'
  BY <1>1
<1>2. ASSUME NEW u \in UI,
             \/ StartUI(u) \/ ChooseId(u) \/ FindRule(u) \/ UIProceeds(u)
             \/ SaveFails(u) \/ EndUI(u)
      PROVE  JobMatchesPhase'
  <2>1. CASE StartUI(u)
    BY <2>1 DEF StartUI
  <2>2. CASE ChooseId(u)
    BY <2>2 DEF ChooseId
  <2>3. CASE FindRule(u)
    BY <2>3 DEF FindRule
  <2>4. CASE AppendRule(u) \/ PopRule(u)
    BY <2>4 DEF AppendRule, PopRule
  <2>5. CASE PopFails(u) \/ EndUI(u)
    BY <2>5 DEF PopFails, EndUI
  <2>6. CASE OpenForWrite(u)
    BY <2>6 DEF OpenForWrite
  <2>7. CASE WriteRules(u) \/ SaveFails(u)
    BY <2>7 DEF WriteRules, SaveFails, Acknowledge
  <2> QED
    BY <1>2, <2>1, <2>2, <2>3, <2>4, <2>5, <2>6, <2>7 DEF UIProceeds
<1>3. ASSUME NEW t \in WebThread, WebParse(t) \/ WebProceeds(t)
      PROVE  UNCHANGED <<phase, job>>
  BY <1>3 DEF WebParse, WebProceeds, WebClear, WebExtend
<1>4. CASE StartDaemon \/ DaemonProceeds \/ DaemonDies
  BY <1>4 DEF StartDaemon, DaemonProceeds, StatFile, ReloadIfNewer, DaemonDies
<1>5. CASE UNCHANGED vars
  BY <1>5 DEF vars
<1> QED
  BY <1>1, <1>2, <1>3, <1>4, <1>5 DEF Next

-----------------------------------------------------------------------------
(* Rule ids                                                                *)

\* A list of no rules, and a list of one, have distinct ids.
LEMMA InitUnique == Init => UniqueInv
<1> SUFFICES ASSUME Init PROVE UniqueInv
  OBVIOUS
<1>1. UniqueIds(<<>>)
  BY DEF UniqueIds
<1>2. UniqueIds(disk.rules)
  <2>1. CASE disk = NoFile
    BY <2>1, <1>1 DEF NoFile
  <2>2. ASSUME NEW r, disk = Whole(<<r>>) PROVE UniqueIds(disk.rules)
    BY <2>2 DEF Whole, UniqueIds
  <2> QED
    BY <2>1, <2>2 DEF Init
<1>3. UniqueIds(dmem) /\ \A u \in UI : UniqueIds(mem[u])
  BY <1>1 DEF Init
<1>4. \A u \in UI : phase[u] = "off"
  BY DEF Init
<1>5. \A t \in WebThread : web[t] = "idle"
  BY DEF Init
<1> QED
  BY <1>2, <1>3, <1>4, <1>5 DEF UniqueInv, IdsStayUnique

\* Only processes that have started do anything, and none forgets that.
LEMMA StartedStep ==
    ASSUME IInv, [Next]_vars
    PROVE  /\ started \subseteq started'
           /\ \A u \in UI : phase'[u] # "off" => u \in started'
           /\ \A t \in WebThread : web'[t] # "idle" => Host[t] \in started'
<1> USE HostAssumption
    DEF IInv, TypeOK, UniqueInv, Goto, uiVars, webVars, ghosts
<1>1. ASSUME UNCHANGED <<phase, web, started>>
      PROVE  /\ started \subseteq started'
             /\ \A u \in UI : phase'[u] # "off" => u \in started'
             /\ \A t \in WebThread : web'[t] # "idle" => Host[t] \in started'
  BY <1>1
<1>2. ASSUME NEW u \in UI,
             \/ StartUI(u) \/ ChooseId(u) \/ FindRule(u) \/ UIProceeds(u)
             \/ SaveFails(u) \/ EndUI(u)
      PROVE  /\ started \subseteq started'
             /\ \A v \in UI : phase'[v] # "off" => v \in started'
             /\ \A t \in WebThread : web'[t] # "idle" => Host[t] \in started'
  <2>1. CASE StartUI(u)
    BY <2>1 DEF StartUI
  <2>2. CASE EndUI(u)
    BY <2>2 DEF EndUI
  <2>3. CASE ChooseId(u) \/ FindRule(u)
    BY <2>3 DEF ChooseId, FindRule
  <2>4. CASE AppendRule(u) \/ PopRule(u) \/ PopFails(u) \/ OpenForWrite(u)
    BY <2>4 DEF AppendRule, PopRule, PopFails, OpenForWrite
  <2>5. CASE WriteRules(u) \/ SaveFails(u)
    BY <2>5 DEF WriteRules, SaveFails, Acknowledge
  <2> QED
    BY <1>2, <2>1, <2>2, <2>3, <2>4, <2>5 DEF UIProceeds
<1>3. ASSUME NEW t \in WebThread, WebParse(t) \/ WebProceeds(t)
      PROVE  /\ started \subseteq started'
             /\ \A v \in UI : phase'[v] # "off" => v \in started'
             /\ \A w \in WebThread : web'[w] # "idle" => Host[w] \in started'
  <2>1. Host[t] \in started
    BY <1>3 DEF WebParse, WebProceeds, WebClear, WebExtend
  <2> QED
    BY <1>3, <2>1 DEF WebParse, WebProceeds, WebClear, WebExtend
<1>4. CASE StartDaemon \/ DaemonProceeds \/ DaemonDies
  BY <1>4, <1>1 DEF StartDaemon, DaemonProceeds, StatFile, ReloadIfNewer, DaemonDies
<1>5. CASE UNCHANGED vars
  BY <1>5, <1>1 DEF vars
<1> QED
  BY <1>1, <1>2, <1>3, <1>4, <1>5 DEF Next

\* The part of UniqueInv that is about ids, where no host of HTTP threads has run.
UniqueLists ==
    /\ \A u \in UI : UniqueIds(mem[u])
    /\ UniqueIds(disk.rules)
    /\ UniqueIds(dmem)
    /\ \A u \in UI : phase[u] = "adding" =>
          \A id \in IdsOf(mem[u]) : id < job[u].rule.id

\* A step of a user interface keeps the ids of every list distinct.
LEMMA UIUniqueStep ==
    ASSUME IInv, UniqueLists, NEW u \in UI,
           \/ StartUI(u) \/ ChooseId(u) \/ FindRule(u) \/ UIProceeds(u)
           \/ SaveFails(u) \/ EndUI(u)
    PROVE  UniqueLists'
<1> USE DEF IInv, TypeOK, UniqueLists, Goto, uiVars, webVars, fileVars, daemonVars, ghosts
<1>0. mem[u] \in Seq(Rule) /\ job[u] \in Job /\ UniqueIds(mem[u])
  OBVIOUS
<1>1. UniqueIds(<<>>)
  BY DEF UniqueIds
<1>2. CASE StartUI(u)
  <2>1. UniqueIds(Loaded(<<>>))
    BY <1>1 DEF Loaded
  <2> QED
    BY <1>2, <2>1 DEF StartUI
<1>3. CASE ChooseId(u)
  <2>1. PICK id \in CandidateIds(mem[u]), name \in Typed[u] :
          /\ IsNextId(mem[u], id)
          /\ job' = [job EXCEPT ![u] =
                [op |-> "add", rule |-> [id |-> id, name |-> name]]]
    BY <1>3 DEF ChooseId
  <2>2. \A other \in IdsOf(mem[u]) : other < id
    BY <2>1, <1>0, NextIdIsAbove
  <2>3. job'[u].rule.id = id /\ \A v \in UI \ {u} : job'[v] = job[v]
    BY <2>1
  <2>4. mem' = mem /\ disk' = disk /\ dmem' = dmem
        /\ \A v \in UI \ {u} : phase'[v] = phase[v]
    BY <1>3 DEF ChooseId
  <2>5. ASSUME NEW v \in UI, phase'[v] = "adding", NEW other \in IdsOf(mem'[v])
        PROVE  other < job'[v].rule.id
    BY <2>2, <2>3, <2>4, <2>5
  <2> QED
    BY <2>4, <2>5
<1>4. CASE AppendRule(u)
  <2>1. job[u].rule \in Rule /\ phase[u] = "adding"
    BY <1>0, <1>4 DEF AppendRule, JobMatchesPhase, Job
  <2>2. UniqueIds(Append(mem[u], job[u].rule))
    BY <1>0, <2>1, AppendKeepsUnique
  <2> QED
    BY <1>4, <2>2 DEF AppendRule
<1>5. CASE FindRule(u)
  <2>1. \A v \in UI : phase'[v] = "adding" => phase[v] = "adding" /\ v # u
    BY <1>5 DEF FindRule
  <2>2. \A v \in UI \ {u} : job'[v] = job[v]
    BY <1>5 DEF FindRule
  <2> QED
    BY <1>5, <2>1, <2>2 DEF FindRule
<1>6. CASE PopRule(u)
  <2>1. job[u].at \in 1..Len(mem[u])
    BY <1>0, <1>6 DEF PopRule, JobMatchesPhase, Job
  <2>2. UniqueIds(RemoveAt(mem[u], job[u].at))
    BY <1>0, <2>1, RemoveAtKeepsUnique
  <2> QED
    BY <1>6, <2>2 DEF PopRule
<1>7. CASE PopFails(u)
  BY <1>7 DEF PopFails
<1>8. CASE OpenForWrite(u)
  BY <1>8, <1>1 DEF OpenForWrite, EmptyFile
<1>9. CASE WriteRules(u)
  <2>1. UniqueIds(disk'.rules)
    BY <1>0, <1>1, <1>9 DEF WriteRules, Whole, MixedFile
  <2>2. mem' = mem /\ dmem' = dmem
    BY <1>9 DEF WriteRules
  <2>3. \A v \in UI : phase'[v] = "adding" => phase[v] = "adding" /\ job'[v] = job[v]
    BY <1>9 DEF WriteRules, Acknowledge
  <2> QED
    BY <2>1, <2>2, <2>3
<1>10. CASE SaveFails(u)
  <2>1. \A v \in UI : phase'[v] = "adding" => phase[v] = "adding" /\ job'[v] = job[v]
    BY <1>10 DEF SaveFails, Acknowledge
  <2> QED
    BY <1>10, <2>1 DEF SaveFails
<1>11. CASE EndUI(u)
  <2>1. \A v \in UI : phase'[v] = "adding" => phase[v] = "adding" /\ v # u
    BY <1>11 DEF EndUI
  <2>2. \A v \in UI \ {u} : job'[v] = job[v]
    BY <1>11 DEF EndUI
  <2> QED
    BY <1>11, <1>1, <2>1, <2>2 DEF EndUI
<1> QED
  BY <1>2, <1>3, <1>4, <1>5, <1>6, <1>7, <1>8, <1>9, <1>10, <1>11 DEF UIProceeds

\* Every step does, as long as no process that serves the dashboard has run.
LEMMA UniqueStep ==
    ASSUME IInv, [Next]_vars
    PROVE  UniqueInv'
<1>1. /\ started \subseteq started'
      /\ \A u \in UI : phase'[u] # "off" => u \in started'
      /\ \A t \in WebThread : web'[t] # "idle" => Host[t] \in started'
  BY StartedStep
<1>2. ASSUME started' \cap WebHosts = {} PROVE UniqueLists'
  <2>1. started \cap WebHosts = {}
    BY <1>1, <1>2
  <2>2. UniqueLists
    BY <2>1 DEF IInv, UniqueInv, IdsStayUnique, UniqueLists
  <2>3. ASSUME UNCHANGED <<uiVars, disk, dmem>> PROVE UniqueLists'
    BY <2>2, <2>3 DEF UniqueLists, uiVars
  <2>4. CASE \E u \in UI :
                \/ StartUI(u) \/ ChooseId(u) \/ FindRule(u) \/ UIProceeds(u)
                \/ SaveFails(u) \/ EndUI(u)
    BY <2>2, <2>4, UIUniqueStep
  <2>5. ASSUME NEW t \in WebThread, WebParse(t) \/ WebProceeds(t) PROVE FALSE
    <3>1. Host[t] \in started
      BY <2>5, HostAssumption
      DEF IInv, TypeOK, UniqueInv, WebParse, WebProceeds, WebClear, WebExtend
    <3>2. Host[t] \in WebHosts
      BY DEF WebHosts
    <3> QED
      BY <2>1, <3>1, <3>2
  <2>6. CASE StartDaemon \/ StatFile
    BY <2>6, <2>3 DEF StartDaemon, StatFile, fileVars
  <2>7. CASE ReloadIfNewer
    <3>1. UniqueIds(dmem')
      BY <2>2, <2>7 DEF ReloadIfNewer, Loaded, UniqueLists
    <3> QED
      BY <2>2, <2>7, <3>1 DEF ReloadIfNewer, UniqueLists, uiVars, fileVars
  <2>8. CASE DaemonDies
    <3>1. UniqueIds(dmem')
      BY <2>8 DEF DaemonDies, UniqueIds
    <3> QED
      BY <2>2, <2>8, <3>1 DEF DaemonDies, UniqueLists, uiVars, fileVars
  <2>9. CASE UNCHANGED vars
    BY <2>9, <2>3 DEF vars, fileVars, daemonVars
  <2> QED
    BY <2>4, <2>5, <2>6, <2>7, <2>8, <2>9 DEF Next, DaemonProceeds
<1> QED
  BY <1>1, <1>2 DEF UniqueInv, UniqueLists, IdsStayUnique

-----------------------------------------------------------------------------
(* The sole editor                                                         *)

\* Popping takes away the rule at that place, and no other if the ids are distinct.
LEMMA PopToSet ==
    ASSUME NEW rules \in Seq(Rule), UniqueIds(rules), NEW i \in 1..Len(rules)
    PROVE  ToSet(RemoveAt(rules, i)) = ToSet(rules) \ {rules[i]}
<1> DEFINE rest == RemoveAt(rules, i)
<1>1. /\ rest \in Seq(Rule)
      /\ Len(rest) = Len(rules) - 1
      /\ \A j \in 1..(Len(rules) - 1) :
            rest[j] = IF j < i THEN rules[j] ELSE rules[j + 1]
  BY RemoveAtProperties
<1>2. /\ Len(rules) \in Nat /\ DOMAIN rules = 1..Len(rules)
      /\ DOMAIN rest = 1..(Len(rules) - 1)
  BY <1>1, LenProperties
<1> HIDE DEF rest
<1>3. ASSUME NEW j \in DOMAIN rest
      PROVE  rest[j] \in ToSet(rules) \ {rules[i]}
  <2>1. PICK k \in DOMAIN rules : k # i /\ rest[j] = rules[k]
    <3>1. CASE j < i
      BY <1>1, <1>2, <3>1
    <3>2. CASE ~(j < i)
      <4>1. j + 1 \in DOMAIN rules /\ j + 1 # i /\ rest[j] = rules[j + 1]
        BY <1>1, <1>2, <3>2
      <4> QED
        BY <4>1
    <3> QED
      BY <3>1, <3>2
  <2>2. rules[k] # rules[i]
    BY <1>2, <2>1 DEF UniqueIds
  <2> QED
    BY <2>1, <2>2 DEF ToSet
<1>4. ASSUME NEW k \in DOMAIN rules, k # i
      PROVE  rules[k] \in ToSet(rest)
  <2>1. CASE k < i
    <3>1. k \in DOMAIN rest /\ rest[k] = rules[k]
      BY <1>1, <1>2, <2>1
    <3> QED
      BY <3>1 DEF ToSet
  <2>2. CASE ~(k < i)
    <3>1. k - 1 \in DOMAIN rest /\ rest[k - 1] = rules[k]
      BY <1>1, <1>2, <1>4, <2>2
    <3> QED
      BY <3>1 DEF ToSet
  <2> QED
    BY <2>1, <2>2
<1>5. \A r \in ToSet(rules) : r = rules[i] \/ r \in ToSet(rest)
  BY <1>4 DEF ToSet
<1>6. \A r \in ToSet(rest) : r \in ToSet(rules) \ {rules[i]}
  BY <1>3 DEF ToSet
<1> QED
  BY <1>5, <1>6 DEF rest

\* While the file holds what was acknowledged, its list does, be it absent.
LEMMA HeldRules ==
    ASSUME FileHoldsAcked, disk \in Disk
    PROVE  /\ ToSet(disk.rules) = acked
           /\ Loaded(<<>>) = disk.rules
<1>1. ToSet(<<>>) = {}
  BY DEF ToSet
<1>2. disk.kind = "absent" => disk.rules = <<>>
  BY DEF Disk
<1> QED
  BY <1>1, <1>2 DEF FileHoldsAcked, Loaded

\* Nobody has edited at the start.
LEMMA InitSole == Init => SoleInv
<1> SUFFICES ASSUME Init PROVE SoleState
  BY DEF SoleInv
<1>1. FileHoldsAcked
  <2>1. ToSet(<<>>) = {}
    BY DEF ToSet
  <2> QED
    BY <2>1 DEF Init, FileHoldsAcked, NoFile, Whole
<1> QED
  BY <1>1 DEF Init, SoleState

\* A step of the sole editor keeps its list, the file and what the user was
\* told in step.
LEMMA SoleUIStep ==
    ASSUME IInv, SoleState, NEW u \in UI,
           started \cap WebHosts = {}, cut' = FALSE,
           \A v \in UI \ {u} : phase[v] = "off",
           \/ StartUI(u) \/ ChooseId(u) \/ FindRule(u) \/ UIProceeds(u)
           \/ SaveFails(u) \/ EndUI(u)
    PROVE  SoleState'
<1> USE DEF IInv, TypeOK, Goto, webVars, fileVars, daemonVars, ghosts
<1>1. mem[u] \in Seq(Rule) /\ job[u] \in Job /\ disk \in Disk /\ UniqueIds(mem[u])
  BY DEF UniqueInv, IdsStayUnique
<1>2. phase[u] # "writing" => FileHoldsAcked
  BY DEF SoleState
<1>3. FileHoldsAcked => ToSet(disk.rules) = acked /\ Loaded(<<>>) = disk.rules
  BY <1>1, HeldRules
<1>4. ASSUME \A v \in UI \ {u} : phase'[v] = "off",
             phase'[u] # "writing" => FileHoldsAcked',
             phase'[u] \in {"idle", "adding", "removing"} => mem'[u] = disk'.rules,
             phase'[u] = "removing" =>
                job'[u].at \in DOMAIN mem'[u] /\ job'[u].rule = mem'[u][job'[u].at],
             phase'[u] \in {"changed", "writing"} => ToSet(mem'[u]) = AckedAfter(u)',
             phase'[u] = "writing" => disk'.kind = "empty"
      PROVE  SoleState'
  <2>1. ASSUME NEW v \in UI
        PROVE  /\ phase'[v] \in {"idle", "adding", "removing"} => mem'[v] = disk'.rules
               /\ phase'[v] = "removing" =>
                     job'[v].at \in DOMAIN mem'[v] /\ job'[v].rule = mem'[v][job'[v].at]
               /\ phase'[v] \in {"changed", "writing"} => ToSet(mem'[v]) = AckedAfter(v)'
               /\ phase'[v] = "writing" => disk'.kind = "empty"
    <3>1. CASE v = u
      BY <1>4, <3>1
    <3>2. CASE v # u
      BY <1>4, <3>2
    <3> QED
      BY <3>1, <3>2
  <2> QED
    BY <1>4, <2>1 DEF SoleState
<1>5. CASE StartUI(u)
  <2>1. FileHoldsAcked' /\ disk' = disk
    BY <1>2, <1>5 DEF StartUI, FileHoldsAcked
  <2>2. mem'[u] = disk.rules
    BY <1>2, <1>3, <1>5 DEF StartUI
  <2>3. phase'[u] = "idle" /\ \A v \in UI \ {u} : phase'[v] = "off"
    BY <1>5 DEF StartUI
  <2> QED
    BY <1>4, <2>1, <2>2, <2>3
<1>6. CASE ChooseId(u)
  <2>1. FileHoldsAcked' /\ disk' = disk
    BY <1>2, <1>6 DEF ChooseId, FileHoldsAcked
  <2>2. mem'[u] = disk.rules
    BY <1>6 DEF ChooseId, SoleState
  <2>3. phase'[u] = "adding" /\ \A v \in UI \ {u} : phase'[v] = "off"
    BY <1>6 DEF ChooseId
  <2> QED
    BY <1>4, <2>1, <2>2, <2>3
<1>7. CASE FindRule(u)
  <2>1. FileHoldsAcked' /\ disk' = disk
    BY <1>2, <1>7 DEF FindRule, FileHoldsAcked
  <2>2. mem' = mem /\ mem[u] = disk.rules
    BY <1>7 DEF FindRule, SoleState
  <2>3. phase'[u] = "removing" /\ \A v \in UI \ {u} : phase'[v] = "off"
    BY <1>7 DEF FindRule
  <2>4. PICK at \in DOMAIN mem[u] :
           job' = [job EXCEPT ![u] = [op |-> "stop", rule |-> mem[u][at], at |-> at]]
    BY <1>7 DEF FindRule
  <2>5. job'[u].at \in DOMAIN mem[u] /\ job'[u].rule = mem[u][job'[u].at]
    BY <2>4
  <2> QED
    BY <1>4, <2>1, <2>2, <2>3, <2>5
<1>8. CASE AppendRule(u)
  <2>1. job[u].op = "add" /\ job[u].rule \in Rule /\ mem[u] = disk.rules
    BY <1>1, <1>8 DEF AppendRule, JobMatchesPhase, Job, SoleState
  <2>2. mem'[u] = Append(mem[u], job[u].rule) /\ job' = job /\ acked' = acked
    BY <1>8 DEF AppendRule
  <2>3. ToSet(mem'[u]) = ToSet(mem[u]) \cup {job[u].rule}
    <3> DEFINE old == mem[u]
    <3>1. old \in Seq(Rule)
      BY <1>1, <2>1
    <3>2. /\ Len(Append(old, job[u].rule)) = Len(old) + 1
          /\ \A i \in 1..Len(old) : Append(old, job[u].rule)[i] = old[i]
          /\ Append(old, job[u].rule)[Len(old) + 1] = job[u].rule
      BY <2>1, <3>1, AppendProperties
    <3>3. /\ DOMAIN old = 1..Len(old) /\ Len(old) \in Nat
          /\ DOMAIN Append(old, job[u].rule) = 1..Len(old) + 1
      BY <2>1, <3>1, <3>2, AppendProperties, LenProperties
    <3> QED
      BY <2>2, <3>2, <3>3 DEF ToSet
  <2>4. FileHoldsAcked /\ ToSet(mem[u]) = acked
    BY <1>2, <1>3, <1>8, <2>1 DEF AppendRule
  <2>5. ToSet(mem'[u]) = AckedAfter(u)'
    BY <2>1, <2>2, <2>3, <2>4 DEF AckedAfter
  <2>6. FileHoldsAcked'
    BY <1>8, <2>4 DEF AppendRule, FileHoldsAcked
  <2>7. phase'[u] = "changed" /\ \A v \in UI \ {u} : phase'[v] = "off"
    BY <1>8 DEF AppendRule
  <2> QED
    BY <1>4, <2>5, <2>6, <2>7
<1>9. CASE PopRule(u)
  <2>1. /\ job[u].op = "stop" /\ mem[u] = disk.rules
        /\ job[u].at \in DOMAIN mem[u] /\ job[u].rule = mem[u][job[u].at]
    BY <1>9 DEF PopRule, JobMatchesPhase, SoleState
  <2>2. mem'[u] = RemoveAt(mem[u], job[u].at) /\ job' = job /\ acked' = acked
    BY <1>9 DEF PopRule
  <2>3. ToSet(mem'[u]) = ToSet(mem[u]) \ {job[u].rule}
    <3>1. job[u].at \in 1..Len(mem[u])
      BY <1>1, <2>1, LenProperties
    <3>2. ToSet(RemoveAt(mem[u], job[u].at)) = ToSet(mem[u]) \ {mem[u][job[u].at]}
      BY <1>1, <3>1, PopToSet
    <3> QED
      BY <2>1, <2>2, <3>2
  <2>4. FileHoldsAcked /\ ToSet(mem[u]) = acked
    BY <1>2, <1>3, <1>9, <2>1 DEF PopRule
  <2>5. ToSet(mem'[u]) = AckedAfter(u)'
    BY <2>1, <2>2, <2>3, <2>4 DEF AckedAfter
  <2>6. FileHoldsAcked'
    BY <1>9, <2>4 DEF PopRule, FileHoldsAcked
  <2>7. phase'[u] = "changed" /\ \A v \in UI \ {u} : phase'[v] = "off"
    BY <1>9 DEF PopRule
  <2> QED
    BY <1>4, <2>5, <2>6, <2>7
<1>10. ASSUME PopFails(u) PROVE FALSE
  <2>1. job[u].at \in 1..Len(mem[u]) /\ job[u].at > Len(mem[u])
    BY <1>1, <1>10, LenProperties DEF PopFails, SoleState
  <2> QED
    BY <1>1, <2>1, LenProperties
<1>11. CASE OpenForWrite(u)
  <2>1. /\ mem' = mem /\ job' = job /\ acked' = acked
        /\ phase[u] = "changed" /\ disk'.kind = "empty"
    BY <1>11 DEF OpenForWrite, EmptyFile
  <2>2. ToSet(mem'[u]) = AckedAfter(u)'
    BY <2>1 DEF SoleState, AckedAfter
  <2>3. phase'[u] = "writing" /\ \A v \in UI \ {u} : phase'[v] = "off"
    BY <1>11 DEF OpenForWrite
  <2> QED
    BY <1>4, <2>1, <2>2, <2>3
<1>12. CASE WriteRules(u)
  <2>1. disk.kind = "empty" /\ ToSet(mem[u]) = AckedAfter(u)
    BY <1>12 DEF WriteRules, SoleState
  <2>2. disk' = Whole(mem[u]) /\ mem' = mem /\ acked' = AckedAfter(u)
    BY <1>12, <2>1 DEF WriteRules, Acknowledge
  <2>3. FileHoldsAcked' /\ mem'[u] = disk'.rules
    BY <2>1, <2>2 DEF FileHoldsAcked, Whole
  <2>4. phase'[u] = "idle" /\ \A v \in UI \ {u} : phase'[v] = "off"
    BY <1>12 DEF WriteRules, Acknowledge
  <2> QED
    BY <1>4, <2>3, <2>4
<1>13. ASSUME SaveFails(u) PROVE FALSE
  BY <1>13 DEF SaveFails
<1>14. CASE EndUI(u)
  <2>1. phase[u] # "writing"
    BY <1>14 DEF EndUI
  <2>2. FileHoldsAcked'
    BY <1>2, <1>14, <2>1 DEF EndUI, FileHoldsAcked
  <2>3. \A v \in UI : phase'[v] = "off"
    BY <1>14 DEF EndUI
  <2> QED
    BY <1>4, <2>2, <2>3
<1> QED
  BY <1>5, <1>6, <1>7, <1>8, <1>9, <1>10, <1>11, <1>12, <1>13, <1>14 DEF UIProceeds

\* Every step does.
LEMMA SoleStep ==
    ASSUME IInv, [Next]_vars
    PROVE  SoleInv'
<1> SUFFICES ASSUME SoleEditor' PROVE SoleState'
  BY DEF SoleInv
<1>1. /\ started \subseteq started'
      /\ \A u \in UI : phase'[u] # "off" => u \in started'
  BY StartedStep
<1>2. /\ started' \cap WebHosts = {} /\ \A u, v \in started' : u = v
      /\ cut' = FALSE
  <2>1. cut' \in BOOLEAN
    BY TypeStep DEF TypeOK
  <2> QED
    BY <2>1 DEF SoleEditor, WebHosts
<1>3. started \cap WebHosts = {} /\ \A u, v \in started : u = v
  BY <1>1, <1>2
<1>4. cut = FALSE
  <2>1. cut => cut'
    BY DEF Next, UIProceeds, WebProceeds, DaemonProceeds, vars, uiVars, webVars,
       fileVars, daemonVars, ghosts, StartUI, ChooseId, FindRule, AppendRule,
       PopRule, PopFails, OpenForWrite, WriteRules, SaveFails, EndUI, WebParse,
       WebClear, WebExtend, StartDaemon, StatFile, ReloadIfNewer, DaemonDies
  <2>2. cut \in BOOLEAN
    BY DEF IInv, TypeOK
  <2> QED
    BY <1>2, <2>1, <2>2
<1>5. SoleState
  BY <1>3, <1>4 DEF IInv, SoleInv, SoleEditor
<1>6. ASSUME UNCHANGED <<mem, phase, job, disk, acked>> PROVE SoleState'
  BY <1>5, <1>6 DEF SoleState, FileHoldsAcked, AckedAfter
<1>7. ASSUME NEW u \in UI,
             \/ StartUI(u) \/ ChooseId(u) \/ FindRule(u) \/ UIProceeds(u)
             \/ SaveFails(u) \/ EndUI(u)
      PROVE  SoleState'
  <2>1. u \in started'
    <3>1. CASE StartUI(u)
      BY <3>1 DEF StartUI
    <3>2. CASE ~StartUI(u)
      <4>1. phase[u] # "off"
        BY <1>7, <3>2 DEF UIProceeds, ChooseId, FindRule, AppendRule, PopRule, PopFails,
           OpenForWrite, WriteRules, SaveFails, EndUI
      <4> QED
        BY <1>1, <4>1 DEF IInv, UniqueInv
    <3> QED
      BY <3>1, <3>2
  <2>2. \A v \in UI \ {u} : phase[v] = "off"
    BY <1>1, <1>2, <2>1 DEF IInv, UniqueInv
  <2> QED
    BY <1>2, <1>3, <1>5, <1>7, <2>2, SoleUIStep
<1>8. ASSUME NEW t \in WebThread, WebParse(t) \/ WebProceeds(t) PROVE FALSE
  <2>1. Host[t] \in started
    BY <1>8, HostAssumption
    DEF IInv, TypeOK, UniqueInv, WebParse, WebProceeds, WebClear, WebExtend
  <2>2. Host[t] \in WebHosts
    BY DEF WebHosts
  <2> QED
    BY <1>3, <2>1, <2>2
<1>9. CASE StartDaemon \/ DaemonProceeds \/ DaemonDies
  BY <1>6, <1>9 DEF StartDaemon, DaemonProceeds, StatFile, ReloadIfNewer, DaemonDies,
     uiVars, fileVars, ghosts
<1>10. CASE UNCHANGED vars
  BY <1>6, <1>10 DEF vars, uiVars, fileVars, ghosts
<1> QED
  BY <1>7, <1>8, <1>9, <1>10 DEF Next

-----------------------------------------------------------------------------
(* The theorems                                                            *)

\* When every write moves the mtime forward, the invariant is inductive: it
\* holds of every behaviour of any number of processes and threads.
THEOREM Inductive ==
    ASSUME StampStep \subseteq Nat \ {0}
    PROVE  Spec => []IInv
<1>1. Init => IInv
  BY InitType, InitCache, InitUnique, InitSole DEF IInv, JobMatchesPhase, Init
<1>2. IInv /\ [Next]_vars => IInv'
  BY TypeStep, CacheStep, JobStep, UniqueStep, SoleStep DEF IInv
<1> QED
  BY <1>1, <1>2, PTL DEF Spec

\* _monitor_loop's check of the mtime never leaves the daemon with rules other
\* than the file's while it believes the file is the one it has loaded.
THEOREM DaemonIsCoherent ==
    ASSUME StampStep \subseteq Nat \ {0}
    PROVE  Spec => []DaemonCoherent
<1>1. IInv => DaemonCoherent
  BY DEF IInv, CacheInv
<1> QED
  BY <1>1, Inductive, PTL

\* add_rule, remove_rule, save_rules and load_rules keep every list's ids
\* distinct as long as one thread alone works on each list.
THEOREM IdsAreUnique ==
    ASSUME StampStep \subseteq Nat \ {0}
    PROVE  Spec => []IdsStayUnique
<1>1. IInv => IdsStayUnique
  BY DEF IInv, UniqueInv
<1> QED
  BY <1>1, Inductive, PTL

\* save_rules and load_rules carry every acknowledged rule of a sole editor over
\* from session to session, and bring back none that was stopped.
THEOREM RulesPersist ==
    ASSUME StampStep \subseteq Nat \ {0}
    PROVE  Spec => []SoleEditorPersists
<1>1. IInv => SoleEditorPersists
  BY DEF IInv, SoleInv, SoleState, SoleEditorPersists, Quiet
<1> QED
  BY <1>1, Inductive, PTL
=============================================================================
