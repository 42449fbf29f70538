--------------------------- MODULE AlertTail_proof ---------------------------
(***************************************************************************)
(* Proofs about AlertTail for any names, rules and bounds: the dashboard's *)
(* tail skips no alert of a rule that it watches, replays none from before *)
(* the rule came, and shows none a third time, whatever is written, rotated*)
(* or stopped between any two system calls of its tick.                    *)
(*                                                                         *)
(* What the invariant says of one rule is put as a formula over the values *)
(* it depends on, and what each step does to it is a lemma about values.   *)
(***************************************************************************)
EXTENDS AlertTail, TLAPS, SequenceTheorems

-----------------------------------------------------------------------------
(* What Python's operations on lists do                                    *)

\* list.pop, written with RemoveAt, shortens the list and moves up what
\* came after the element.
LEMMA RemoveAtProperties ==
    ASSUME NEW S, NEW s \in Seq(S), NEW i \in 1..Len(s)
    PROVE  /\ RemoveAt(s, i) \in Seq(S)
           /\ Len(RemoveAt(s, i)) = Len(s) - 1
           /\ \A j \in 1..(Len(s) - 1) :
                 RemoveAt(s, i)[j] = IF j < i THEN s[j] ELSE s[j + 1]
<1> DEFINE front == SubSeq(s, 1, i - 1)
           back == SubSeq(s, i + 1, Len(s))
<1>1. /\ front \in Seq(S) /\ Len(front) = i - 1 /\ \A j \in 1..i - 1 : front[j] = s[j]
  OBVIOUS
<1>2. /\ back \in Seq(S) /\ Len(back) = Len(s) - i /\ \A j \in 1..Len(s) - i : back[j] = s[i + j]
  OBVIOUS
<1>3. RemoveAt(s, i) = front \o back
  BY DEF RemoveAt
<1> HIDE DEF front, back
<1>4. front \o back \in Seq(S) /\ Len(front \o back) = Len(s) - 1
  BY <1>1, <1>2, ConcatProperties, LenProperties
<1>5. \A j \in 1..Len(s) - 1 : (front \o back)[j] = IF j < i THEN s[j] ELSE s[j + 1]
  BY <1>1, <1>2
<1> QED
  BY <1>3, <1>4, <1>5

-----------------------------------------------------------------------------
\* A rule whose file is log, rotated now times; if tracked, the file was read up
\* to off in epoch e.  It was added after line act and seen after line wat, sh is
\* what it has shown, and rec says that it took over an offset.
Fits(tracked, off, log, now, e, act, wat, sh, rec) ==
    /\ \A s \in Serial : sh[s] <= 2
    /\ ~tracked => \A s \in Serial : sh[s] = 0
    /\ tracked => \A i \in DOMAIN log :
          i > off \/ Len(log) < off => sh[log[i].serial] <= 1
    /\ ~rec => \A s \in Serial : sh[s] > 0 => s > act
    /\ ~rec /\ tracked =>
          /\ e <= now
          /\ e = now => off <= Len(log)
          /\ \A i \in DOMAIN log : i > off \/ e # now => log[i].serial > act
          /\ e = now => \A i \in DOMAIN log :
                i <= off /\ log[i].alert /\ log[i].serial > wat => sh[log[i].serial] > 0

\* The tick has found that there is something to read: from a place, up to a
\* size, in epoch e2.
Reads(off, log, now, e, act, sh, rec, from, size, e2) ==
    /\ \A i \in DOMAIN log : /\ i > from => sh[log[i].serial] <= 1
                             /\ i > size \/ Len(log) < size => sh[log[i].serial] = 0
    /\ ~rec =>
          /\ e2 <= now
          /\ e2 = now => from <= Len(log) /\ size <= Len(log)
          /\ \A i \in DOMAIN log : i > from \/ e2 # now => log[i].serial > act
          /\ from = 0 \/ (from = off /\ e2 = e)

Shown == [Serial -> Nat]

\* A line that was written just now, of which a rule has shown nothing.
IsNew(line, act, sh) == sh[line.serial] = 0 /\ line.serial > act

WrittenBy(log, n) == \A i \in DOMAIN log : log[i].serial <= n

\* What is shown once the alerts behind a place have been.
ShownFrom(sh, log, from) ==
    [s \in Serial |-> IF s \in AlertsAfter(log, from) THEN sh[s] + 1 ELSE sh[s]]

\* The types of the values.
Typed(tracked, off, log, now, e, act, wat, sh, rec) ==
    /\ tracked \in BOOLEAN /\ rec \in BOOLEAN
    /\ tracked => off \in Nat
    /\ log \in Seq(Line) /\ sh \in Shown
    /\ now \in Nat /\ e \in Nat /\ act \in Nat /\ wat \in Nat

Places(from, size, e2) == from \in Nat /\ size \in Nat /\ e2 \in Nat /\ from <= size

-----------------------------------------------------------------------------
(* What a step does to the values                                          *)

\* A line is written; its number is a new one.
LEMMA FitsAppend ==
    ASSUME NEW tracked, NEW off, NEW log, NEW now, NEW e, NEW act, NEW wat, NEW sh, NEW rec,
           NEW line \in Line,
           Typed(tracked, off, log, now, e, act, wat, sh, rec),
           IsNew(line, act, sh),
           Fits(tracked, off, log, now, e, act, wat, sh, rec)
    PROVE  Fits(tracked, off, Append(log, line), now, e, act, wat, sh, rec)
<1> DEFINE new == Append(log, line)
<1> USE DEF Typed, Places
<1>1. /\ Len(log) \in Nat /\ DOMAIN log = 1..Len(log)
      /\ Len(new) = Len(log) + 1 /\ DOMAIN new = 1..(Len(log) + 1)
      /\ \A i \in 1..Len(log) : new[i] = log[i]
      /\ new[Len(log) + 1] = line
  BY AppendProperties, LenProperties
<1>2. ASSUME NEW i \in DOMAIN new
      PROVE  \/ i \in DOMAIN log /\ new[i] = log[i] /\ i <= Len(log)
             \/ i = Len(log) + 1 /\ new[i] = line
  BY <1>1
<1> HIDE DEF new
<1>3. tracked => \A i \in DOMAIN new : i > off \/ Len(new) < off => sh[new[i].serial] <= 1
  BY <1>1, <1>2 DEF Fits, IsNew
<1>4. ASSUME ~rec, tracked
      PROVE  /\ e = now => off <= Len(new)
             /\ \A i \in DOMAIN new : i > off \/ e # now => new[i].serial > act
             /\ e = now => \A i \in DOMAIN new :
                   i <= off /\ new[i].alert /\ new[i].serial > wat => sh[new[i].serial] > 0
  <2>1. e = now => off <= Len(log)
    BY <1>4 DEF Fits
  <2>2. \A i \in DOMAIN new : i > off \/ e # now => new[i].serial > act
    BY <1>2, <1>4 DEF Fits, IsNew
  <2>3. ASSUME e = now, NEW i \in DOMAIN new, i <= off, new[i].alert, new[i].serial > wat
        PROVE  sh[new[i].serial] > 0
    <3>1. i \in DOMAIN log /\ new[i] = log[i]
      BY <1>1, <1>2, <1>4, <2>1, <2>3
    <3> QED
      BY <1>4, <2>3, <3>1 DEF Fits
  <2> QED
    BY <1>1, <1>4, <2>1, <2>2, <2>3
<1> QED
  BY <1>3, <1>4 DEF Fits, new

LEMMA ReadsAppend ==
    ASSUME NEW tracked, NEW off, NEW log, NEW now, NEW e, NEW act, NEW wat, NEW sh, NEW rec,
           NEW from, NEW size, NEW e2, NEW line \in Line,
           Typed(tracked, off, log, now, e, act, wat, sh, rec),
           Places(from, size, e2),
           IsNew(line, act, sh),
           Reads(off, log, now, e, act, sh, rec, from, size, e2)
    PROVE  Reads(off, Append(log, line), now, e, act, sh, rec, from, size, e2)
<1> DEFINE new == Append(log, line)
<1> USE DEF Typed, Places
<1>1. /\ Len(log) \in Nat /\ DOMAIN log = 1..Len(log)
      /\ Len(new) = Len(log) + 1 /\ DOMAIN new = 1..(Len(log) + 1)
      /\ \A i \in 1..Len(log) : new[i] = log[i]
      /\ new[Len(log) + 1] = line
  BY AppendProperties, LenProperties
<1>2. ASSUME NEW i \in DOMAIN new
      PROVE  \/ i \in DOMAIN log /\ new[i] = log[i] /\ i <= Len(log)
             \/ i = Len(log) + 1 /\ new[i] = line
  BY <1>1
<1> HIDE DEF new
<1>3. \A i \in DOMAIN new : /\ i > from => sh[new[i].serial] <= 1
                            /\ i > size \/ Len(new) < size => sh[new[i].serial] = 0
  BY <1>1, <1>2 DEF Reads, IsNew
<1>4. ~rec => \A i \in DOMAIN new : i > from \/ e2 # now => new[i].serial > act
  BY <1>2 DEF Reads, IsNew
<1>5. ~rec /\ e2 = now => from <= Len(new) /\ size <= Len(new)
  BY <1>1 DEF Reads
<1> QED
  BY <1>3, <1>4, <1>5 DEF Reads, new

\* The file is emptied.
LEMMA FitsRotate ==
    ASSUME NEW tracked, NEW off, NEW log, NEW now, NEW e, NEW act, NEW wat, NEW sh, NEW rec,
           Typed(tracked, off, log, now, e, act, wat, sh, rec),
           Fits(tracked, off, log, now, e, act, wat, sh, rec)
    PROVE  Fits(tracked, off, <<>>, now + 1, e, act, wat, sh, rec)
BY DEF Typed, Places, Fits

LEMMA ReadsRotate ==
    ASSUME NEW tracked, NEW off, NEW log, NEW now, NEW e, NEW act, NEW wat, NEW sh, NEW rec,
           NEW from, NEW size, NEW e2,
           Typed(tracked, off, log, now, e, act, wat, sh, rec),
           Places(from, size, e2),
           Reads(off, log, now, e, act, sh, rec, from, size, e2)
    PROVE  Reads(off, <<>>, now + 1, e, act, sh, rec, from, size, e2)
BY DEF Typed, Places, Reads

\* A rule that has shown nothing.
Unseen(sh) == \A s \in Serial : sh[s] = 0

LEMMA FitsNew ==
    ASSUME NEW tracked \in BOOLEAN, NEW off, NEW log \in Seq(Line), NEW now, NEW e, NEW act,
           NEW wat, NEW sh, NEW rec \in BOOLEAN, tracked => rec, Unseen(sh)
    PROVE  Fits(tracked, off, log, now, e, act, wat, sh, rec)
<1>1. \A i \in DOMAIN log : log[i] \in Line
  BY LenProperties, ElementOfSeq
<1>2. \A i \in DOMAIN log : sh[log[i].serial] = 0
  BY <1>1 DEF Line, Unseen
<1> QED
  BY <1>2 DEF Fits, Unseen

\* The rule is seen for the first time.
LEMMA FitsSeed ==
    ASSUME NEW off, NEW log, NEW now, NEW e, NEW act, NEW wat, NEW sh, NEW rec,
           NEW last \in Nat,
           Typed(FALSE, off, log, now, e, act, wat, sh, rec),
           WrittenBy(log, last),
           Fits(FALSE, off, log, now, e, act, wat, sh, rec)
    PROVE  Fits(TRUE, Len(log), log, now, now, act, last, sh, rec)
<1> USE DEF Typed, Places
<1>1. Len(log) \in Nat /\ DOMAIN log = 1..Len(log)
  BY LenProperties
<1>2. \A i \in DOMAIN log : log[i] \in Line
  BY <1>1, ElementOfSeq
<1>3. \A i \in DOMAIN log : log[i].serial \in Nat /\ log[i].serial \in Serial
  BY <1>2 DEF Line, Serial
<1> QED
  BY <1>1, <1>3 DEF Fits, WrittenBy

\* stat() finds news.
LEMMA ReadsStat ==
    ASSUME NEW off, NEW log, NEW now, NEW e, NEW act, NEW wat, NEW sh, NEW rec,
           Typed(TRUE, off, log, now, e, act, wat, sh, rec),
           Fits(TRUE, off, log, now, e, act, wat, sh, rec)
    PROVE  Reads(off, log, now, e, act, sh, rec, IF Len(log) < off THEN 0 ELSE off, Len(log),
                 IF Len(log) < off THEN now ELSE e)
<1> USE DEF Typed, Places
<1>1. Len(log) \in Nat /\ DOMAIN log = 1..Len(log)
  BY LenProperties
<1>2. CASE Len(log) < off
  BY <1>1, <1>2 DEF Fits, Reads
<1>3. CASE ~(Len(log) < off)
  BY <1>1, <1>3 DEF Fits, Reads
<1> QED
  BY <1>2, <1>3

\* The news are read and shown.
LEMMA FitsRead ==
    ASSUME NEW off, NEW log, NEW now, NEW e, NEW act, NEW wat, NEW sh, NEW rec,
           NEW from, NEW size, NEW e2,
           Typed(TRUE, off, log, now, e, act, wat, sh, rec),
           Places(from, size, e2),
           Fits(TRUE, off, log, now, e, act, wat, sh, rec),
           Reads(off, log, now, e, act, sh, rec, from, size, e2)
    PROVE  /\ ShownFrom(sh, log, from) \in Shown
           /\ Fits(TRUE, size, log, now, e2, act, wat, ShownFrom(sh, log, from), rec)
<1> DEFINE news == AlertsAfter(log, from)
           sh2 == ShownFrom(sh, log, from)
<1> USE DEF Typed, Places
<1>1. Len(log) \in Nat /\ DOMAIN log = 1..Len(log)
  BY LenProperties
<1>2. \A i \in DOMAIN log : log[i].serial \in Serial /\ log[i].serial \in Nat
  <2>1. \A i \in DOMAIN log : log[i] \in Line
    BY <1>1, ElementOfSeq
  <2> QED
    BY <2>1 DEF Line, Serial
<1>3. /\ \A s \in news : \E i \in DOMAIN log : i > from /\ log[i].serial = s
      /\ \A i \in DOMAIN log : i > from /\ log[i].alert => log[i].serial \in news
  <2>1. \A i : i \in (from + 1)..Len(log) <=> i \in DOMAIN log /\ i > from
    BY <1>1
  <2>2. ASSUME NEW s \in news
        PROVE  \E i \in DOMAIN log : i > from /\ log[i].serial = s
    <3>1. PICK i \in {j \in (from + 1)..Len(log) : log[j].alert} : s = log[i].serial
      BY <2>2 DEF AlertsAfter, news
    <3> QED
      BY <2>1, <3>1
  <2>3. ASSUME NEW i \in DOMAIN log, i > from, log[i].alert
        PROVE  log[i].serial \in news
    <3>1. i \in {j \in (from + 1)..Len(log) : log[j].alert}
      BY <2>1, <2>3
    <3> QED
      BY <3>1 DEF AlertsAfter, news
  <2> QED
    BY <2>2, <2>3
<1>4. ASSUME NEW s \in Serial
      PROVE  /\ sh[s] \in Nat /\ sh2[s] \in Nat
             /\ s \in news => sh2[s] = sh[s] + 1
             /\ s \notin news => sh2[s] = sh[s]
             /\ sh[s] <= sh2[s]
  BY DEF Shown, ShownFrom
<1>5. sh2 \in Shown
  BY DEF Shown, ShownFrom
<1> HIDE DEF news, sh2
<1>6. \A s \in Serial : sh2[s] <= 2
  <2>1. \A s \in Serial : s \in news => sh[s] <= 1
    <3>1. \A i \in DOMAIN log : i > from => sh[log[i].serial] <= 1
      BY DEF Reads
    <3> QED
      BY <1>3, <3>1
  <2>2. \A s \in Serial : sh[s] <= 2
    BY DEF Fits
  <2>3. ASSUME NEW s \in Serial
        PROVE  sh2[s] <= 2
    BY <1>4, <2>1, <2>2
  <2> QED
    BY <2>3
<1>7. \A i \in DOMAIN log : i > size \/ Len(log) < size => sh2[log[i].serial] <= 1
  <2>1. \A i \in DOMAIN log : i > size \/ Len(log) < size => sh[log[i].serial] = 0
    BY DEF Reads
  <2> QED
    BY <1>2, <1>4, <2>1
<1>8. ASSUME ~rec, NEW s \in Serial, sh2[s] > 0
      PROVE  s > act
  <2>1. CASE s \in news
    <3>1. PICK i \in DOMAIN log : i > from /\ log[i].serial = s
      BY <1>3, <2>1
    <3> QED
      BY <1>8, <3>1 DEF Reads
  <2>2. CASE s \notin news
    BY <1>4, <1>8, <2>2 DEF Fits
  <2> QED
    BY <2>1, <2>2
<1>9. ASSUME ~rec
      PROVE  /\ e2 <= now
             /\ e2 = now => size <= Len(log)
             /\ \A i \in DOMAIN log : i > size \/ e2 # now => log[i].serial > act
             /\ e2 = now => \A i \in DOMAIN log :
                   i <= size /\ log[i].alert /\ log[i].serial > wat => sh2[log[i].serial] > 0
  <2>1. e2 <= now /\ (e2 = now => size <= Len(log))
    BY <1>9 DEF Reads
  <2>2. \A i \in DOMAIN log : i > size \/ e2 # now => log[i].serial > act
    BY <1>1, <1>9 DEF Reads
  <2>3. ASSUME e2 = now, NEW i \in DOMAIN log, log[i].alert, log[i].serial > wat
        PROVE  sh2[log[i].serial] > 0
    <3>1. CASE i > from
      <4> DEFINE s == log[i].serial
      <4>1. s \in Serial /\ s \in news
        BY <1>2, <1>3, <2>3, <3>1
      <4>2. sh2[s] = sh[s] + 1 /\ sh[s] \in Nat
        BY <1>4, <4>1
      <4> QED
        BY <4>2
    <3>2. CASE ~(i > from)
      <4>1. from = off /\ e = now /\ i <= off
        BY <1>1, <1>9, <2>3, <3>2 DEF Reads
      <4>2. sh[log[i].serial] > 0
        BY <1>9, <2>3, <4>1 DEF Fits
      <4> DEFINE s == log[i].serial
      <4>3. sh[s] <= sh2[s] /\ sh[s] \in Nat /\ sh2[s] \in Nat
        BY <1>2, <1>4
      <4> QED
        BY <4>2, <4>3
    <3> QED
      BY <3>1, <3>2
  <2> QED
    BY <2>1, <2>2, <2>3
<1> QED
  BY <1>5, <1>6, <1>7, <1>8, <1>9 DEF Fits, sh2
-----------------------------------------------------------------------------
(* The invariant, rule by rule                                             *)

Base == TypeOK /\ SerialsAreKnown /\ IdsAreUnique

RuleFits(k) ==
    LET id == rules[k].id
        name == rules[k].name
    IN  Fits(id \in DOMAIN offsets, offsets[id], logs[name], epoch[name], readEpoch[id],
             activated[id], watched[id], shown[id], id \in recycled)

TickReads(k) ==
    LET id == rules[k].id
        name == rules[k].name
    IN  k = at /\ reading # NoReading =>
           Reads(offsets[id], logs[name], epoch[name], readEpoch[id], activated[id], shown[id],
                 id \in recycled, reading.from, reading.size, reading.epoch)

Inductive == Base /\ \A k \in DOMAIN rules : RuleFits(k) /\ TickReads(k)

\* The numbers are numbers, and the rules are rules.
LEMMA Numbers ==
    /\ MaxRules \in Nat /\ MaxAdds \in Nat /\ MaxLines \in Nat
    /\ MaxRotations \in Nat /\ MaxFailures \in Nat /\ MaxRestarts \in Nat
    /\ Id \subseteq Nat /\ Serial \subseteq Nat /\ 1 \in Id /\ 1 \in Serial
BY BoundAssumption DEF Id, Serial

LEMMA RulesAreRules ==
    ASSUME rules \in Seq(Rule)
    PROVE  /\ Len(rules) \in Nat /\ DOMAIN rules = 1..Len(rules)
           /\ \A k \in DOMAIN rules : rules[k].id \in Id /\ rules[k].name \in Name
<1>1. Len(rules) \in Nat /\ DOMAIN rules = 1..Len(rules)
  BY LenProperties
<1>2. \A k \in DOMAIN rules : rules[k] \in Rule
  BY <1>1, ElementOfSeq
<1> QED
  BY <1>1, <1>2 DEF Rule

\* Between two ticks nothing is being read.
LEMMA Idle ==
    ASSUME TypeOK, ~InTick
    PROVE  at = 0 /\ reading = NoReading
BY LenProperties DEF TypeOK, InTick

LEMMA InitInductive == Init => Inductive
<1> SUFFICES ASSUME Init
             PROVE  Inductive
  OBVIOUS
<1> USE Numbers
<1>1. /\ offsets = <<>> /\ at = 0 /\ reading = NoReading /\ recycled = {}
      /\ written \in 0..1
      /\ activated = [i \in Id |-> written] /\ watched = [i \in Id |-> written]
      /\ shown = [i \in Id |-> [s \in Serial |-> 0]]
      /\ epoch = [n \in Name |-> 0] /\ readEpoch = [i \in Id |-> 0]
      /\ rotations = 0 /\ failures = 0 /\ restarts = 0 /\ adds = Len(rules)
  BY DEF Init
<1>2. rules \in Seq(Rule) /\ Len(rules) \in 0..1
  <2>1. CASE rules = <<>>
    BY <2>1
  <2>2. ASSUME NEW name \in Name, rules = <<[id |-> 1, name |-> name]>>
        PROVE  rules \in Seq(Rule) /\ Len(rules) \in 0..1
    <3>1. [id |-> 1, name |-> name] \in Rule
      BY DEF Rule
    <3> QED
      BY <2>2, <3>1
  <2> QED
    BY <2>1, <2>2 DEF Init
<1>3. /\ logs \in [Name -> Seq(Line)]
      /\ \A n \in Name : /\ Len(logs[n]) <= written
                         /\ \A i \in DOMAIN logs[n] : logs[n][i].serial <= written
  <2>1. CASE logs = [n \in Name |-> <<>>]
    BY <1>1, <2>1
  <2>2. ASSUME NEW name \in Name, written = 1,
               logs = [n \in Name |->
                           IF n = name THEN <<[serial |-> 1, alert |-> TRUE]>> ELSE <<>>]
        PROVE  /\ logs \in [Name -> Seq(Line)]
               /\ \A n \in Name : /\ Len(logs[n]) <= written
                                  /\ \A i \in DOMAIN logs[n] : logs[n][i].serial <= written
    <3> DEFINE line == [serial |-> 1, alert |-> TRUE]
    <3>1. line \in Line
      BY DEF Line
    <3>2. <<line>> \in Seq(Line) /\ Len(<<line>>) = 1 /\ <<line>>[1].serial = 1
          /\ DOMAIN <<line>> = 1..1
      BY <3>1
    <3> QED
      BY <2>2, <3>2
  <2> QED
    BY <2>1, <2>2 DEF Init
<1>4. TypeOK
  BY <1>1, <1>2, <1>3, BoundAssumption DEF TypeOK, NoReading
<1>5. SerialsAreKnown
  BY <1>1, <1>3 DEF SerialsAreKnown
<1>6. IdsAreUnique
  BY <1>2, RulesAreRules DEF IdsAreUnique
<1>7. ASSUME NEW k \in DOMAIN rules
      PROVE  RuleFits(k) /\ TickReads(k)
  BY <1>1, <1>2, <1>7, RulesAreRules DEF RuleFits, TickReads, Fits
<1> QED
  BY <1>4, <1>5, <1>6, <1>7 DEF Inductive, Base
-----------------------------------------------------------------------------
(* The user and the other processes                                        *)

\* A written line leaves what was true of any one rule.
KeepsFits ==
    \A t, off, n, e, wat, id, rec :
        /\ id \in Id /\ n \in Name
        /\ Typed(t, off, logs[n], epoch[n], e, activated[id], wat, shown[id], rec)
        /\ Fits(t, off, logs[n], epoch[n], e, activated[id], wat, shown[id], rec)
        => Fits(t, off, logs'[n], epoch[n], e, activated[id], wat, shown[id], rec)

KeepsReads ==
    \A t, off, n, e, wat, id, rec, from, size, e2 :
        /\ id \in Id /\ n \in Name
        /\ Typed(t, off, logs[n], epoch[n], e, activated[id], wat, shown[id], rec)
        /\ Places(from, size, e2)
        /\ Reads(off, logs[n], epoch[n], e, activated[id], shown[id], rec, from, size, e2)
        => Reads(off, logs'[n], epoch[n], e, activated[id], shown[id], rec, from, size, e2)

LEMMA AppendedFits ==
    ASSUME Base, NEW name \in Name, NEW alert \in BOOLEAN, Appended(name, alert)
    PROVE  /\ logs' \in [Name -> Seq(Line)] /\ written' = written + 1 /\ written' \in 0..MaxLines
           /\ \A n \in Name : /\ Len(logs'[n]) <= written'
                              /\ WrittenBy(logs'[n], written')
           /\ KeepsFits /\ KeepsReads
<1> USE Numbers
<1> DEFINE line == [serial |-> written + 1, alert |-> alert]
<1>1. /\ logs \in [Name -> Seq(Line)] /\ written \in 0..MaxLines /\ written < MaxLines
      /\ logs' = [logs EXCEPT ![name] = Append(@, line)] /\ written' = written + 1
  BY DEF Base, TypeOK, Appended
<1>2. line \in Line /\ line.serial = written + 1 /\ line.serial \in Serial
  BY <1>1 DEF Line, Serial
<1> HIDE DEF line
<1>3. /\ logs[name] \in Seq(Line) /\ Append(logs[name], line) \in Seq(Line)
      /\ Len(logs[name]) \in Nat /\ DOMAIN logs[name] = 1..Len(logs[name])
      /\ Len(Append(logs[name], line)) = Len(logs[name]) + 1
      /\ DOMAIN Append(logs[name], line) = 1..(Len(logs[name]) + 1)
      /\ \A i \in 1..Len(logs[name]) : Append(logs[name], line)[i] = logs[name][i]
      /\ Append(logs[name], line)[Len(logs[name]) + 1] = line
  BY <1>1, <1>2, AppendProperties, LenProperties
<1>4. logs' \in [Name -> Seq(Line)] /\ written' \in 0..MaxLines
  BY <1>1, <1>3
<1>5. ASSUME NEW n \in Name
      PROVE  \/ n = name /\ logs'[n] = Append(logs[n], line)
             \/ logs'[n] = logs[n]
  BY <1>1
<1>6. ASSUME NEW n \in Name
      PROVE  /\ Len(logs'[n]) <= written'
             /\ WrittenBy(logs'[n], written')
  <2>1. /\ Len(logs[n]) <= written /\ \A i \in DOMAIN logs[n] : logs[n][i].serial <= written
        /\ Len(logs[n]) \in Nat
    BY <1>1, LenProperties DEF Base, SerialsAreKnown
  <2>2. \A i \in DOMAIN logs[n] : logs[n][i].serial \in Nat
    <3>1. logs[n] \in Seq(Line)
      BY <1>1
    <3>2. \A i \in DOMAIN logs[n] : logs[n][i] \in Line
      BY <3>1, LenProperties, ElementOfSeq
    <3> QED
      BY <3>2 DEF Line
  <2>3. CASE n = name /\ logs'[n] = Append(logs[n], line)
    <3>1. ASSUME NEW i \in DOMAIN logs'[n]
          PROVE  logs'[n][i] = line \/ (i \in DOMAIN logs[n] /\ logs'[n][i] = logs[n][i])
      BY <1>3, <2>3
    <3> QED
      BY <1>1, <1>2, <1>3, <2>1, <2>2, <2>3, <3>1 DEF WrittenBy
  <2>4. CASE logs'[n] = logs[n]
    BY <1>1, <2>1, <2>2, <2>4 DEF WrittenBy
  <2> QED
    BY <1>5, <2>3, <2>4
<1>7. ASSUME NEW id \in Id
      PROVE  /\ shown[id] \in Shown /\ activated[id] \in Nat
             /\ IsNew(line, activated[id], shown[id])
  <2>1. shown[id] \in Shown /\ activated[id] \in Nat
    BY DEF Base, TypeOK, Shown
  <2>2. /\ activated[id] <= written
        /\ shown[id][line.serial] > 0 => line.serial <= written
    BY <1>2 DEF Base, SerialsAreKnown
  <2>3. shown[id][line.serial] \in Nat
    BY <1>2, <2>1 DEF Shown
  <2> QED
    BY <1>1, <1>2, <2>1, <2>2, <2>3 DEF IsNew
<1>8. KeepsFits
  <2> SUFFICES ASSUME NEW t, NEW off, NEW n, NEW e, NEW wat, NEW id, NEW rec,
                      id \in Id, n \in Name,
                      Typed(t, off, logs[n], epoch[n], e, activated[id], wat, shown[id], rec),
                      Fits(t, off, logs[n], epoch[n], e, activated[id], wat, shown[id], rec)
               PROVE  Fits(t, off, logs'[n], epoch[n], e, activated[id], wat, shown[id], rec)
    BY DEF KeepsFits
  <2>1. Fits(t, off, Append(logs[n], line), epoch[n], e, activated[id], wat, shown[id], rec)
    BY <1>2, <1>7, FitsAppend
  <2> QED
    BY <1>5, <2>1
<1>9. KeepsReads
  <2> SUFFICES ASSUME NEW t, NEW off, NEW n, NEW e, NEW wat, NEW id, NEW rec,
                      NEW from, NEW size, NEW e2, id \in Id, n \in Name,
                      Typed(t, off, logs[n], epoch[n], e, activated[id], wat, shown[id], rec),
                      Places(from, size, e2),
                      Reads(off, logs[n], epoch[n], e, activated[id], shown[id], rec,
                            from, size, e2)
               PROVE  Reads(off, logs'[n], epoch[n], e, activated[id], shown[id], rec,
                            from, size, e2)
    BY DEF KeepsReads
  <2>1. Reads(off, Append(logs[n], line), epoch[n], e, activated[id], shown[id], rec,
              from, size, e2)
    BY <1>2, <1>7, ReadsAppend
  <2> QED
    BY <1>5, <2>1
<1> QED
  BY <1>1, <1>4, <1>6, <1>8, <1>9

\* The values that RuleFits and TickReads are about have their types.
LEMMA Values ==
    ASSUME Base, NEW k \in DOMAIN rules, NEW id, id = rules[k].id, NEW name, name = rules[k].name
    PROVE  /\ id \in Id /\ name \in Name
           /\ Typed(id \in DOMAIN offsets, offsets[id], logs[name], epoch[name], readEpoch[id],
                    activated[id], watched[id], shown[id], id \in recycled)
           /\ Places(reading.from, reading.size, reading.epoch)
           /\ k = at /\ reading # NoReading => id \in DOMAIN offsets
<1>1. id \in Id /\ name \in Name
  BY RulesAreRules DEF Base, TypeOK
<1>2. Typed(id \in DOMAIN offsets, offsets[id], logs[name], epoch[name], readEpoch[id],
            activated[id], watched[id], shown[id], id \in recycled)
  <2>0. /\ logs \in [Name -> Seq(Line)] /\ epoch \in [Name -> 0..MaxRotations]
        /\ readEpoch \in [Id -> 0..MaxRotations] /\ shown \in [Id -> [Serial -> Nat]]
        /\ activated \in [Id -> 0..MaxLines] /\ watched \in [Id -> 0..MaxLines]
    BY DEF Base, TypeOK
  <2>1. logs[name] \in Seq(Line) /\ epoch[name] \in Nat /\ readEpoch[id] \in Nat
    BY <1>1, <2>0, Numbers
  <2>2. activated[id] \in Nat /\ watched[id] \in Nat /\ shown[id] \in Shown
    BY <1>1, <2>0, Numbers DEF Shown
  <2>3. id \in DOMAIN offsets => offsets[id] \in Nat
    BY Numbers DEF Base, TypeOK
  <2> QED
    BY <2>1, <2>2, <2>3 DEF Typed
<1>3. Places(reading.from, reading.size, reading.epoch)
  <2>1. /\ reading \in [from : 0..MaxLines, size : 0..MaxLines, epoch : 0..MaxRotations]
        /\ reading.from <= reading.size
    BY DEF Base, TypeOK
  <2> QED
    BY <2>1, Numbers DEF Places
<1>4. k = at /\ reading # NoReading => id \in DOMAIN offsets
  BY DEF Base, TypeOK, Current
<1> QED
  BY <1>1, <1>2, <1>3, <1>4

LEMMA DaemonLogsInductive == Inductive /\ DaemonLogs => Inductive'
<1> SUFFICES ASSUME Inductive, NEW name \in Name, Appended(name, TRUE),
                    UNCHANGED <<rules, tickVars, epoch, ghosts, bounds>>
             PROVE  Inductive'
  BY DEF DaemonLogs
<1> USE Numbers
<1>1. Base
  BY DEF Inductive
<1>2. /\ UNCHANGED <<rules, offsets, at, reading, epoch, activated, watched, shown, readEpoch,
                     recycled, adds, rotations, failures, restarts>>
  BY DEF tickVars, ghosts, bounds
<1>3. /\ logs' \in [Name -> Seq(Line)] /\ written' = written + 1 /\ written' \in 0..MaxLines
      /\ \A n \in Name : /\ Len(logs'[n]) <= written'
                         /\ WrittenBy(logs'[n], written')
      /\ KeepsFits /\ KeepsReads
  BY <1>1, AppendedFits
<1>4. TypeOK'
  BY <1>1, <1>2, <1>3 DEF Base, TypeOK, InTick, Current, NoReading
<1>5. SerialsAreKnown'
  <2>1. \A i \in Id : /\ activated[i] <= written /\ watched[i] <= written
                      /\ \A s \in Serial : shown[i][s] > 0 => s <= written
    BY <1>1 DEF Base, SerialsAreKnown
  <2>2. \A i \in Id : activated[i] \in Nat /\ watched[i] \in Nat
    BY <1>1 DEF Base, TypeOK
  <2>3. \A n \in Name : epoch[n] <= rotations
    BY <1>1 DEF Base, SerialsAreKnown
  <2>4. written \in Nat
    BY <1>1 DEF Base, TypeOK
  <2> QED
    BY <1>2, <1>3, <2>1, <2>2, <2>3, <2>4 DEF SerialsAreKnown, WrittenBy
<1>6. IdsAreUnique'
  BY <1>1, <1>2 DEF Base, IdsAreUnique
<1>7. ASSUME NEW k \in DOMAIN rules
      PROVE  RuleFits(k)' /\ TickReads(k)'
  <2> DEFINE id == rules[k].id
             n == rules[k].name
             t == id \in DOMAIN offsets
             rec == id \in recycled
  <2>1. /\ id \in Id /\ n \in Name
        /\ Typed(t, offsets[id], logs[n], epoch[n], readEpoch[id], activated[id], watched[id],
                 shown[id], rec)
        /\ Places(reading.from, reading.size, reading.epoch)
    BY <1>1, Values
  <2>3. Fits(t, offsets[id], logs[n], epoch[n], readEpoch[id], activated[id], watched[id],
             shown[id], rec)
    BY DEF Inductive, RuleFits
  <2>4. k = at /\ reading # NoReading =>
           Reads(offsets[id], logs[n], epoch[n], readEpoch[id], activated[id], shown[id], rec,
                 reading.from, reading.size, reading.epoch)
    BY DEF Inductive, TickReads
  <2> HIDE DEF id, n, t, rec
  <2>5. Fits(t, offsets[id], logs'[n], epoch[n], readEpoch[id], activated[id], watched[id],
             shown[id], rec)
    BY <1>3, <2>1, <2>3 DEF KeepsFits
  <2>6. k = at /\ reading # NoReading =>
           Reads(offsets[id], logs'[n], epoch[n], readEpoch[id], activated[id], shown[id], rec,
                 reading.from, reading.size, reading.epoch)
    BY <1>3, <2>1, <2>4 DEF KeepsReads
  <2> QED
    BY <1>2, <2>5, <2>6 DEF RuleFits, TickReads, id, n, t, rec
<1> QED
  BY <1>2, <1>4, <1>5, <1>6, <1>7 DEF Inductive, Base
LEMMA AddRuleInductive == Inductive /\ AddRule => Inductive'
<1> SUFFICES ASSUME Inductive, AddRule
             PROVE  Inductive'
  OBVIOUS
<1> USE Numbers
<1>1. Base
  BY DEF Inductive
<1>2. at = 0 /\ reading = NoReading
  BY <1>1, Idle DEF AddRule, Base
<1>3. PICK name \in Name, id \in Id :
         /\ \A other \in IdsOf(rules) : other < id
         /\ rules' = Append(rules, [id |-> id, name |-> name])
         /\ \/ Appended(name, FALSE) /\ UNCHANGED failures
            \/ CallFails /\ UNCHANGED <<logs, written>>
         /\ activated' = [activated EXCEPT ![id] = written]
         /\ shown' = [shown EXCEPT ![id] = [s \in Serial |-> 0]]
         /\ recycled' = IF id \in DOMAIN offsets THEN recycled \cup {id} ELSE recycled
  BY DEF AddRule
<1>4. /\ UNCHANGED <<offsets, at, reading, epoch, watched, readEpoch, rotations, restarts>>
      /\ adds' = adds + 1 /\ adds < MaxAdds /\ Len(rules) < MaxRules
  BY DEF AddRule, tickVars
<1> DEFINE rule == [id |-> id, name |-> name]
<1>5. /\ rules \in Seq(Rule) /\ Len(rules) \in Nat /\ DOMAIN rules = 1..Len(rules)
      /\ rules' \in Seq(Rule) /\ Len(rules') = Len(rules) + 1
      /\ DOMAIN rules' = 1..(Len(rules) + 1)
      /\ \A k \in 1..Len(rules) : rules'[k] = rules[k]
      /\ rules'[Len(rules) + 1] = rule
  <2>1. rule \in Rule
    BY DEF Rule
  <2> QED
    BY <1>1, <1>3, <2>1, AppendProperties, LenProperties DEF Base, TypeOK
<1>6. \A k \in DOMAIN rules : rules[k].id \in Id /\ rules[k].name \in Name /\ rules[k].id < id
  BY <1>3, <1>5, RulesAreRules DEF IdsOf
<1>7. /\ logs' \in [Name -> Seq(Line)] /\ written' \in 0..MaxLines /\ written' >= written
      /\ written \in Nat
      /\ \A n \in Name : Len(logs'[n]) <= written' /\ WrittenBy(logs'[n], written')
      /\ KeepsFits
  <2>1. written \in Nat
    BY <1>1 DEF Base, TypeOK
  <2>2. CASE Appended(name, FALSE)
    <3>1. FALSE \in BOOLEAN
      OBVIOUS
    <3>2. /\ logs' \in [Name -> Seq(Line)] /\ written' = written + 1 /\ written' \in 0..MaxLines
          /\ \A n \in Name : Len(logs'[n]) <= written' /\ WrittenBy(logs'[n], written')
          /\ KeepsFits
      BY <1>1, <2>2, <3>1, AppendedFits
    <3> QED
      BY <2>1, <3>2
  <2>3. CASE logs' = logs /\ written' = written
    <3>1. KeepsFits
      BY <2>3 DEF KeepsFits
    <3>2. /\ logs \in [Name -> Seq(Line)] /\ written \in 0..MaxLines
          /\ \A n \in Name : Len(logs[n]) <= written /\ WrittenBy(logs[n], written)
      BY <1>1 DEF Base, TypeOK, SerialsAreKnown, WrittenBy
    <3> QED
      BY <2>1, <2>3, <3>1, <3>2
  <2> QED
    BY <1>3, <2>2, <2>3
<1>8. failures' \in 0..MaxFailures
  <2>1. failures \in 0..MaxFailures
    BY <1>1 DEF Base, TypeOK
  <2>2. failures' = failures \/ (failures < MaxFailures /\ failures' = failures + 1)
    BY <1>3 DEF CallFails
  <2> QED
    BY <2>1, <2>2
<1>9. /\ activated' \in [Id -> 0..MaxLines] /\ shown' \in [Id -> [Serial -> Nat]]
      /\ recycled' \subseteq Id
      /\ activated'[id] = written /\ shown'[id] = [s \in Serial |-> 0]
      /\ \A i \in Id : i # id => /\ activated'[i] = activated[i] /\ shown'[i] = shown[i]
                                 /\ i \in recycled' <=> i \in recycled
      /\ id \in DOMAIN offsets => id \in recycled'
  BY <1>1, <1>3 DEF Base, TypeOK
<1>10. TypeOK'
  <2>1. Len(rules') <= MaxRules /\ at' \in 0..Len(rules') /\ reading' = NoReading
    BY <1>2, <1>4, <1>5
  <2>2. adds' \in 0..MaxAdds
    BY <1>1, <1>4 DEF Base, TypeOK
  <2> QED
    BY <1>1, <1>4, <1>5, <1>7, <1>8, <1>9, <2>1, <2>2 DEF Base, TypeOK
<1>11. SerialsAreKnown'
  <2>1. ASSUME NEW i \in Id
        PROVE  /\ activated'[i] <= written' /\ watched'[i] <= written'
               /\ \A s \in Serial : shown'[i][s] > 0 => s <= written'
    <3>1. /\ activated[i] <= written /\ watched[i] <= written
          /\ \A s \in Serial : shown[i][s] > 0 => s <= written
      BY <1>1 DEF Base, SerialsAreKnown
    <3>2. activated[i] \in Nat /\ watched[i] \in Nat
      <4>1. activated[i] \in 0..MaxLines /\ watched[i] \in 0..MaxLines
        BY <1>1 DEF Base, TypeOK
      <4> QED
        BY <4>1
    <3>3. written \in Nat /\ written' \in Nat /\ written' >= written
      BY <1>7
    <3>4. watched'[i] <= written'
      BY <1>4, <3>1, <3>2, <3>3
    <3>5. CASE i = id
      <4>1. activated'[i] = written /\ \A s \in Serial : shown'[i][s] = 0
        BY <1>9, <3>5
      <4> QED
        BY <3>3, <3>4, <4>1
    <3>6. CASE i # id
      <4>1. activated'[i] = activated[i] /\ shown'[i] = shown[i]
        BY <1>9, <3>6
      <4> QED
        BY <3>1, <3>2, <3>3, <3>4, <4>1
    <3> QED
      BY <3>5, <3>6
  <2>2. \A n \in Name : epoch[n] <= rotations
    BY <1>1 DEF Base, SerialsAreKnown
  <2> QED
    BY <1>4, <1>7, <2>1, <2>2 DEF SerialsAreKnown, WrittenBy
<1>12. IdsAreUnique'
  <2>1. ASSUME NEW j \in DOMAIN rules', NEW k \in DOMAIN rules', rules'[j].id = rules'[k].id
        PROVE  j = k
    <3>1. /\ j \in DOMAIN rules \/ (j = Len(rules) + 1 /\ rules'[j].id = id)
          /\ k \in DOMAIN rules \/ (k = Len(rules) + 1 /\ rules'[k].id = id)
      <4>1. rules'[Len(rules) + 1].id = id
        BY <1>5
      <4>2. \A i \in DOMAIN rules' : i \in DOMAIN rules \/ i = Len(rules) + 1
        BY <1>5
      <4>3. j \in DOMAIN rules \/ j = Len(rules) + 1
        BY <4>2
      <4>4. k \in DOMAIN rules \/ k = Len(rules) + 1
        BY <4>2
      <4> QED
        BY <4>1, <4>3, <4>4
    <3>2. ASSUME NEW i \in DOMAIN rules
          PROVE  rules'[i].id # id
      <4>1. rules'[i] = rules[i]
        BY <1>5
      <4>2. rules[i].id \in Nat /\ id \in Nat /\ rules[i].id < id
        BY <1>6
      <4> QED
        BY <4>1, <4>2
    <3>3. CASE j \in DOMAIN rules /\ k \in DOMAIN rules
      <4>1. rules'[j] = rules[j] /\ rules'[k] = rules[k]
        BY <1>5, <3>3
      <4> QED
        BY <1>1, <2>1, <3>3, <4>1 DEF Base, IdsAreUnique
    <3> QED
      BY <2>1, <3>1, <3>2, <3>3
  <2> QED
    BY <2>1 DEF IdsAreUnique
<1>13. ASSUME NEW k \in DOMAIN rules'
       PROVE  RuleFits(k)' /\ TickReads(k)'
  <2>1. TickReads(k)'
    BY <1>2, <1>4 DEF TickReads, NoReading
  <2>2. CASE k \in DOMAIN rules
    <3> DEFINE i == rules[k].id
               n == rules[k].name
               t == i \in DOMAIN offsets
               rec == i \in recycled
    <3>1. /\ i \in Id /\ n \in Name
          /\ Typed(t, offsets[i], logs[n], epoch[n], readEpoch[i], activated[i], watched[i],
                   shown[i], rec)
      BY <1>1, <2>2, Values
    <3>2. i # id
      BY <1>6, <2>2
    <3>3. Fits(t, offsets[i], logs[n], epoch[n], readEpoch[i], activated[i], watched[i],
               shown[i], rec)
      BY <2>2 DEF Inductive, RuleFits
    <3>4. rules'[k] = rules[k]
      BY <1>5, <2>2
    <3>5. activated'[i] = activated[i] /\ shown'[i] = shown[i]
      BY <1>9, <3>1, <3>2
    <3>6. i \in recycled' <=> rec
      BY <1>9, <3>1, <3>2
    <3>7. Fits(t, offsets[i], logs'[n], epoch[n], readEpoch[i], activated[i], watched[i],
               shown[i], rec)
      BY <1>7, <3>1, <3>3 DEF KeepsFits
    <3> QED
      BY <1>4, <2>1, <3>4, <3>5, <3>6, <3>7 DEF RuleFits
  <2>3. CASE k = Len(rules) + 1
    <3>1. rules'[k].id = id
      BY <1>5, <2>3
    <3> DEFINE n == rules'[k].name
    <3>2. Unseen(shown'[id])
      BY <1>9 DEF Unseen
    <3>3. n \in Name /\ logs'[n] \in Seq(Line)
      BY <1>5, <1>7, <2>3
    <3>4. id \in DOMAIN offsets' => id \in recycled'
      BY <1>4, <1>9
    <3>5. (id \in DOMAIN offsets') \in BOOLEAN /\ (id \in recycled') \in BOOLEAN
      OBVIOUS
    <3>6. Fits(id \in DOMAIN offsets', offsets'[id], logs'[n], epoch'[n], readEpoch'[id],
               activated'[id], watched'[id], shown'[id], id \in recycled')
      BY <3>2, <3>3, <3>4, <3>5, FitsNew
    <3> QED
      BY <2>1, <3>1, <3>6 DEF RuleFits
  <2> QED
    BY <1>5, <2>2, <2>3
<1> QED
  BY <1>10, <1>11, <1>12, <1>13 DEF Inductive, Base
LEMMA StopRuleInductive == Inductive /\ StopRule => Inductive'
<1> SUFFICES ASSUME Inductive, ~InTick, NEW gone \in DOMAIN rules, rules' = RemoveAt(rules, gone),
                    UNCHANGED <<logs, tickVars, written, epoch, ghosts, bounds>>
             PROVE  Inductive'
  BY DEF StopRule
<1> USE Numbers
<1>1. Base
  BY DEF Inductive
<1>2. at = 0 /\ reading = NoReading
  BY <1>1, Idle DEF Base
<1>3. UNCHANGED <<logs, offsets, at, reading, written, epoch, activated, watched, shown,
                  readEpoch, recycled, adds, rotations, failures, restarts>>
  BY DEF tickVars, ghosts, bounds
<1>4. rules \in Seq(Rule) /\ Len(rules) <= MaxRules
  BY <1>1 DEF Base, TypeOK
<1>5. Len(rules) \in Nat /\ DOMAIN rules = 1..Len(rules)
  BY <1>4, RulesAreRules
<1>6. /\ rules' \in Seq(Rule)
      /\ Len(rules') = Len(rules) - 1
      /\ \A j \in 1..(Len(rules) - 1) : rules'[j] = IF j < gone THEN rules[j] ELSE rules[j + 1]
  BY <1>4, <1>5, RemoveAtProperties
<1>7. DOMAIN rules' = 1..(Len(rules) - 1)
  BY <1>6, LenProperties
<1>8. ASSUME NEW j \in DOMAIN rules'
      PROVE  /\ j \in Nat /\ (IF j < gone THEN j ELSE j + 1) \in DOMAIN rules
             /\ rules'[j] = rules[IF j < gone THEN j ELSE j + 1]
  BY <1>5, <1>6, <1>7
<1>9. TypeOK'
  <2>1. Len(rules') <= MaxRules /\ at' \in 0..Len(rules')
    BY <1>2, <1>3, <1>4, <1>5, <1>6
  <2> QED
    BY <1>1, <1>2, <1>3, <1>6, <2>1 DEF Base, TypeOK
<1>10. SerialsAreKnown'
  BY <1>1, <1>3 DEF Base, SerialsAreKnown
<1>11. IdsAreUnique'
  <2>1. ASSUME NEW j \in DOMAIN rules', NEW k \in DOMAIN rules', rules'[j].id = rules'[k].id
        PROVE  j = k
    <3>1. (IF j < gone THEN j ELSE j + 1) = (IF k < gone THEN k ELSE k + 1)
      BY <1>1, <1>8, <2>1 DEF Base, IdsAreUnique
    <3> QED
      BY <1>5, <1>8, <3>1
  <2> QED
    BY <2>1 DEF IdsAreUnique
<1>12. ASSUME NEW j \in DOMAIN rules'
       PROVE  RuleFits(j)' /\ TickReads(j)'
  <2>1. PICK k \in DOMAIN rules : rules'[j] = rules[k]
    BY <1>8
  <2>2. RuleFits(k)
    BY DEF Inductive
  <2> QED
    BY <1>2, <1>3, <2>1, <2>2 DEF RuleFits, TickReads
<1> QED
  BY <1>9, <1>10, <1>11, <1>12 DEF Inductive, Base

LEMMA RestartInductive == Inductive /\ Restart => Inductive'
<1> SUFFICES ASSUME Inductive, Restart
             PROVE  Inductive'
  OBVIOUS
<1> USE Numbers
<1>1. Base
  BY DEF Inductive
<1>2. /\ UNCHANGED <<rules, logs, written, epoch, watched, readEpoch, adds, rotations, failures>>
      /\ restarts' = restarts + 1 /\ restarts < MaxRestarts
      /\ offsets' = <<>> /\ at' = 0 /\ reading' = NoReading /\ recycled' = {}
      /\ activated' = [i \in Id |-> written]
      /\ shown' = [i \in Id |-> [s \in Serial |-> 0]]
  BY DEF Restart
<1>3. Len(rules) \in Nat /\ \A k \in DOMAIN rules : rules[k].id \in Id /\ rules[k].name \in Name
  BY <1>1, RulesAreRules DEF Base, TypeOK
<1>4. TypeOK'
  <2>1. /\ DOMAIN offsets' = {} /\ reading' = [from |-> 0, size |-> 0, epoch |-> 0]
        /\ restarts' \in 0..MaxRestarts
    BY <1>1, <1>2 DEF NoReading, Base, TypeOK
  <2>2. activated' \in [Id -> 0..MaxLines] /\ shown' \in [Id -> [Serial -> Nat]]
    BY <1>1, <1>2 DEF Base, TypeOK
  <2> QED
    BY <1>1, <1>2, <1>3, <2>1, <2>2 DEF Base, TypeOK
<1>5. SerialsAreKnown'
  BY <1>1, <1>2 DEF Base, TypeOK, SerialsAreKnown
<1>6. IdsAreUnique'
  BY <1>1, <1>2 DEF Base, IdsAreUnique
<1>7. ASSUME NEW k \in DOMAIN rules'
      PROVE  RuleFits(k)' /\ TickReads(k)'
  BY <1>2, <1>3 DEF RuleFits, TickReads, Fits
<1> QED
  BY <1>4, <1>5, <1>6, <1>7 DEF Inductive, Base

LEMMA RotateInductive == Inductive /\ Rotate => Inductive'
<1> SUFFICES ASSUME Inductive, rotations < MaxRotations, NEW name \in Name,
                    logs' = [logs EXCEPT ![name] = <<>>],
                    epoch' = [epoch EXCEPT ![name] = @ + 1],
                    rotations' = rotations + 1,
                    UNCHANGED <<rules, tickVars, written, ghosts, adds, failures, restarts>>
             PROVE  Inductive'
  BY DEF Rotate
<1> USE Numbers
<1>1. Base
  BY DEF Inductive
<1>2. UNCHANGED <<rules, offsets, at, reading, written, activated, watched, shown, readEpoch,
                  recycled, adds, failures, restarts>>
  BY DEF tickVars, ghosts
<1>3. ASSUME NEW n \in Name
      PROVE  \/ n = name /\ logs'[n] = <<>> /\ epoch'[n] = epoch[n] + 1
             \/ n # name /\ logs'[n] = logs[n] /\ epoch'[n] = epoch[n]
  BY <1>1 DEF Base, TypeOK
<1>4. /\ logs \in [Name -> Seq(Line)] /\ epoch \in [Name -> 0..MaxRotations]
      /\ rotations \in 0..MaxRotations /\ written \in Nat
      /\ \A n \in Name : /\ Len(logs[n]) <= written /\ epoch[n] <= rotations
                         /\ \A i \in DOMAIN logs[n] : logs[n][i].serial <= written
  BY <1>1 DEF Base, TypeOK, SerialsAreKnown
<1>5. TypeOK'
  <2>1. logs' \in [Name -> Seq(Line)]
    BY <1>4
  <2>2. epoch' \in [Name -> 0..MaxRotations] /\ rotations' \in 0..MaxRotations
    BY <1>4
  <2> QED
    BY <1>1, <1>2, <2>1, <2>2 DEF Base, TypeOK, InTick, Current, NoReading
<1>6. SerialsAreKnown'
  <2>1. ASSUME NEW n \in Name
        PROVE  /\ Len(logs'[n]) <= written /\ epoch'[n] <= rotations'
               /\ \A i \in DOMAIN logs'[n] : logs'[n][i].serial <= written
    BY <1>3, <1>4
  <2> QED
    BY <1>1, <1>2, <2>1 DEF Base, SerialsAreKnown
<1>7. IdsAreUnique'
  BY <1>1, <1>2 DEF Base, IdsAreUnique
<1>8. ASSUME NEW k \in DOMAIN rules
      PROVE  RuleFits(k)' /\ TickReads(k)'
  <2> DEFINE id == rules[k].id
             n == rules[k].name
             t == id \in DOMAIN offsets
             rec == id \in recycled
  <2>1. /\ id \in Id /\ n \in Name
        /\ Typed(t, offsets[id], logs[n], epoch[n], readEpoch[id], activated[id], watched[id],
                 shown[id], rec)
        /\ Places(reading.from, reading.size, reading.epoch)
    BY <1>1, Values
  <2>3. Fits(t, offsets[id], logs[n], epoch[n], readEpoch[id], activated[id], watched[id],
             shown[id], rec)
    BY DEF Inductive, RuleFits
  <2>4. k = at /\ reading # NoReading =>
           Reads(offsets[id], logs[n], epoch[n], readEpoch[id], activated[id], shown[id], rec,
                 reading.from, reading.size, reading.epoch)
    BY DEF Inductive, TickReads
  <2> HIDE DEF id, n, t, rec
  <2>5. Fits(t, offsets[id], <<>>, epoch[n] + 1, readEpoch[id], activated[id], watched[id],
             shown[id], rec)
    BY <2>1, <2>3, FitsRotate
  <2>6. k = at /\ reading # NoReading =>
           Reads(offsets[id], <<>>, epoch[n] + 1, readEpoch[id], activated[id], shown[id], rec,
                 reading.from, reading.size, reading.epoch)
    BY <2>1, <2>4, ReadsRotate
  <2>7. /\ Fits(t, offsets[id], logs'[n], epoch'[n], readEpoch[id], activated[id], watched[id],
                shown[id], rec)
        /\ k = at /\ reading # NoReading =>
              Reads(offsets[id], logs'[n], epoch'[n], readEpoch[id], activated[id], shown[id], rec,
                    reading.from, reading.size, reading.epoch)
    BY <1>3, <2>1, <2>3, <2>4, <2>5, <2>6
  <2> QED
    BY <1>2, <2>7 DEF RuleFits, TickReads, id, n, t, rec
<1> QED
  BY <1>2, <1>5, <1>6, <1>7, <1>8 DEF Inductive, Base
-----------------------------------------------------------------------------
(* A tick                                                                  *)

LEMMA BeginTickInductive == Inductive /\ BeginTick => Inductive'
<1> SUFFICES ASSUME Inductive, BeginTick
             PROVE  Inductive'
  OBVIOUS
<1>1. Base
  BY DEF Inductive
<1>2. reading = NoReading
  BY <1>1, Idle DEF BeginTick, Base
<1>3. /\ UNCHANGED <<rules, logs, offsets, reading, written, epoch, activated, watched, shown,
                     readEpoch, recycled, adds, rotations, failures, restarts>>
      /\ at' = 1 /\ rules # <<>>
  BY DEF BeginTick, ghosts, bounds
<1>4. at' \in 0..Len(rules)
  <2>1. rules \in Seq(Rule)
    BY <1>1 DEF Base, TypeOK
  <2>2. Len(rules) # 0 /\ Len(rules) \in Nat
    BY <1>3, <2>1, EmptySeq, LenProperties
  <2> QED
    BY <1>3, <2>2
<1>5. TypeOK'
  BY <1>1, <1>2, <1>3, <1>4 DEF Base, TypeOK
<1>6. SerialsAreKnown' /\ IdsAreUnique'
  BY <1>1, <1>3 DEF Base, SerialsAreKnown, IdsAreUnique
<1>7. ASSUME NEW k \in DOMAIN rules
      PROVE  RuleFits(k)' /\ TickReads(k)'
  <2>1. RuleFits(k)
    BY DEF Inductive
  <2> QED
    BY <1>2, <1>3, <2>1 DEF RuleFits, TickReads
<1> QED
  BY <1>3, <1>5, <1>6, <1>7 DEF Inductive, Base

LEMMA EmptyTickInductive == Inductive /\ EmptyTick => Inductive'
<1> SUFFICES ASSUME Inductive, EmptyTick
             PROVE  Inductive'
  OBVIOUS
<1>1. Base
  BY DEF Inductive
<1>2. /\ UNCHANGED <<rules, logs, at, reading, written, epoch, activated, watched, shown,
                     readEpoch, recycled, adds, rotations, failures, restarts>>
      /\ offsets' = <<>> /\ rules = <<>>
  BY DEF EmptyTick, ghosts, bounds
<1>3. Len(rules) = 0 /\ DOMAIN rules = {}
  BY <1>2
<1>4. ~InTick /\ at = 0 /\ reading = NoReading
  <2>1. at \in 0..0
    BY <1>1, <1>3 DEF Base, TypeOK
  <2>2. ~InTick
    BY <2>1 DEF InTick
  <2> QED
    BY <1>1, <2>2, Idle DEF Base
<1>5. TypeOK'
  BY <1>1, <1>2, <1>4 DEF Base, TypeOK
<1>6. SerialsAreKnown' /\ IdsAreUnique'
  BY <1>1, <1>2 DEF Base, SerialsAreKnown, IdsAreUnique
<1> QED
  BY <1>2, <1>3, <1>5, <1>6 DEF Inductive, Base

\* On to the next rule, with a table of offsets.
LEMMA Moves ==
    ASSUME Base, InTick, NEW table, NextRule(table), UNCHANGED rules
    PROVE  /\ reading' = NoReading /\ at' \in 0..Len(rules)
           /\ \A i \in DOMAIN offsets' : i \in DOMAIN table /\ offsets'[i] = table[i]
           /\ \A k \in DOMAIN rules :
                 rules[k].id \in DOMAIN offsets' <=> rules[k].id \in DOMAIN table
<1>1. rules \in Seq(Rule) /\ at \in 0..Len(rules) /\ at > 0
  BY DEF Base, TypeOK, InTick
<1>2. Len(rules) \in Nat
  BY <1>1, LenProperties
<1>3. CASE at < Len(rules)
  BY <1>1, <1>2, <1>3 DEF NextRule
<1>4. CASE ~(at < Len(rules))
  BY <1>2, <1>4 DEF NextRule, Restrict, IdsOf
<1> QED
  BY <1>3, <1>4 DEF NextRule

\* The offsets are what they were.
LEMMA MovesOn ==
    ASSUME Inductive, InTick, NextRule(offsets),
           UNCHANGED <<rules, logs, written, epoch, ghosts, adds, rotations, restarts>>,
           failures' \in 0..MaxFailures
    PROVE  Inductive'
<1>1. Base
  BY DEF Inductive
<1>2. UNCHANGED <<rules, logs, written, epoch, activated, watched, shown,
                  readEpoch, recycled, adds, rotations, restarts>>
  BY DEF ghosts
<1>3. /\ reading' = NoReading /\ at' \in 0..Len(rules)
      /\ \A i \in DOMAIN offsets' : i \in DOMAIN offsets /\ offsets'[i] = offsets[i]
      /\ \A k \in DOMAIN rules :
            rules[k].id \in DOMAIN offsets' <=> rules[k].id \in DOMAIN offsets
  BY <1>1, <1>2, Moves
<1>4. TypeOK'
  <2>1. /\ reading' \in [from : 0..MaxLines, size : 0..MaxLines, epoch : 0..MaxRotations]
        /\ reading'.from <= reading'.size
    BY <1>3, Numbers DEF NoReading
  <2>2. DOMAIN offsets' \subseteq Id /\ \A i \in DOMAIN offsets' : offsets'[i] \in 0..MaxLines
    BY <1>1, <1>3 DEF Base, TypeOK
  <2> QED
    BY <1>1, <1>2, <1>3, <2>1, <2>2 DEF Base, TypeOK
<1>5. SerialsAreKnown' /\ IdsAreUnique'
  BY <1>1, <1>2 DEF Base, SerialsAreKnown, IdsAreUnique
<1>6. ASSUME NEW k \in DOMAIN rules
      PROVE  RuleFits(k)' /\ TickReads(k)'
  <2>1. RuleFits(k)
    BY DEF Inductive
  <2>2. (rules[k].id \in DOMAIN offsets') <=> (rules[k].id \in DOMAIN offsets)
    BY <1>3
  <2>3. CASE rules[k].id \in DOMAIN offsets
    BY <1>2, <1>3, <2>1, <2>2, <2>3 DEF RuleFits, TickReads
  <2>4. CASE rules[k].id \notin DOMAIN offsets
    BY <1>2, <1>3, <2>1, <2>2, <2>4 DEF RuleFits, TickReads, Fits
  <2> QED
    BY <2>3, <2>4
<1> QED
  BY <1>2, <1>4, <1>5, <1>6 DEF Inductive, Base

LEMMA StatNoNewsInductive == Inductive /\ StatNoNews => Inductive'
<1> SUFFICES ASSUME Inductive, StatNoNews
             PROVE  Inductive'
  OBVIOUS
<1>1. failures' \in 0..MaxFailures
  BY DEF Inductive, Base, TypeOK, StatNoNews, bounds
<1> QED
  BY <1>1, MovesOn DEF StatNoNews, bounds

LEMMA ReadFailsInductive == Inductive /\ ReadFails => Inductive'
<1> SUFFICES ASSUME Inductive, ReadFails
             PROVE  Inductive'
  OBVIOUS
<1>1. failures' \in 0..MaxFailures
  BY Numbers DEF Inductive, Base, TypeOK, ReadFails, CallFails
<1>2. InTick
  BY DEF Inductive, Base, TypeOK, ReadFails
<1> QED
  BY <1>1, <1>2, MovesOn DEF ReadFails
\* The rule that the tick has come to.
LEMMA AtCurrent ==
    ASSUME Base, InTick
    PROVE  /\ at \in DOMAIN rules /\ Current.id \in Id /\ Current.name \in Name
           /\ \A k \in DOMAIN rules : rules[k].id = Current.id => k = at
<1>1. rules \in Seq(Rule) /\ at \in 0..Len(rules) /\ at > 0
  BY DEF Base, TypeOK, InTick
<1>2. at \in DOMAIN rules
  BY <1>1, LenProperties
<1> QED
  BY <1>1, <1>2, RulesAreRules DEF Current, Base, IdsAreUnique

LEMMA SeedInductive == Inductive /\ Seed => Inductive'
<1> SUFFICES ASSUME Inductive, Seed
             PROVE  Inductive'
  OBVIOUS
<1> USE Numbers
<1> DEFINE id == Current.id
           name == Current.name
           size == Len(logs[name])
           table == With(offsets, id, size)
<1>1. Base
  BY DEF Inductive
<1>2. /\ InTick /\ reading = NoReading /\ id \notin DOMAIN offsets /\ NextRule(table)
      /\ watched' = [watched EXCEPT ![id] = written]
      /\ readEpoch' = [readEpoch EXCEPT ![id] = epoch[name]]
      /\ UNCHANGED <<rules, logs, written, epoch, activated, shown, recycled,
                     adds, rotations, failures, restarts>>
  BY DEF Seed, bounds
<1>3. /\ at \in DOMAIN rules /\ id \in Id /\ name \in Name
      /\ \A k \in DOMAIN rules : rules[k].id = id => k = at
  BY <1>1, <1>2, AtCurrent
<1>4. logs[name] \in Seq(Line) /\ size \in Nat /\ size <= written /\ written \in 0..MaxLines
  BY <1>1, <1>3, LenProperties DEF Base, TypeOK, SerialsAreKnown
<1>5. /\ DOMAIN table = DOMAIN offsets \cup {id} /\ table[id] = size
      /\ \A i \in DOMAIN offsets : table[i] = offsets[i]
  BY <1>2 DEF With
<1> HIDE DEF table
<1>6. /\ reading' = NoReading /\ at' \in 0..Len(rules)
      /\ \A i \in DOMAIN offsets' : i \in DOMAIN table /\ offsets'[i] = table[i]
      /\ \A k \in DOMAIN rules :
            rules[k].id \in DOMAIN offsets' <=> rules[k].id \in DOMAIN table
  BY <1>1, <1>2, Moves
<1> HIDE DEF id, name
<1>7. /\ watched' \in [Id -> 0..MaxLines] /\ readEpoch' \in [Id -> 0..MaxRotations]
      /\ watched'[id] = written /\ readEpoch'[id] = epoch[name]
      /\ \A i \in Id : i # id => watched'[i] = watched[i] /\ readEpoch'[i] = readEpoch[i]
  BY <1>1, <1>2, <1>3 DEF Base, TypeOK
<1>8. TypeOK'
  <2>1. /\ reading' \in [from : 0..MaxLines, size : 0..MaxLines, epoch : 0..MaxRotations]
        /\ reading'.from <= reading'.size
    BY <1>6 DEF NoReading
  <2>2. DOMAIN offsets \subseteq Id /\ \A i \in DOMAIN offsets : offsets[i] \in 0..MaxLines
    BY <1>1 DEF Base, TypeOK
  <2>3. DOMAIN offsets' \subseteq Id /\ \A i \in DOMAIN offsets' : offsets'[i] \in 0..MaxLines
    BY <1>3, <1>4, <1>5, <1>6, <2>2
  <2> QED
    BY <1>1, <1>2, <1>6, <1>7, <2>1, <2>3 DEF Base, TypeOK
<1>9. SerialsAreKnown'
  <2>1. ASSUME NEW i \in Id
        PROVE  watched'[i] <= written
    <3>1. watched[i] <= written
      BY <1>1 DEF Base, SerialsAreKnown
    <3>2. written \in Nat
      BY <1>4
    <3> QED
      BY <1>7, <3>1, <3>2
  <2> QED
    BY <1>1, <1>2, <2>1 DEF Base, SerialsAreKnown
<1>10. IdsAreUnique'
  BY <1>1, <1>2 DEF Base, IdsAreUnique
<1>11. ASSUME NEW k \in DOMAIN rules
       PROVE  RuleFits(k)' /\ TickReads(k)'
  <2>1. TickReads(k)'
    BY <1>6 DEF TickReads
  <2>2. RuleFits(k)
    BY DEF Inductive
  <2>3. CASE rules[k].id = id
    <3>1. k = at /\ rules[k].name = name
      BY <1>3, <2>3 DEF Current, name
    <3>2. Typed(id \in DOMAIN offsets, offsets[id], logs[name], epoch[name], readEpoch[id],
                activated[id], watched[id], shown[id], id \in recycled)
      BY <1>1, <2>3, <3>1, Values
    <3>3. Typed(FALSE, offsets[id], logs[name], epoch[name], readEpoch[id],
                activated[id], watched[id], shown[id], id \in recycled)
      BY <1>2, <3>2 DEF Typed
    <3>4. Fits(FALSE, offsets[id], logs[name], epoch[name], readEpoch[id], activated[id],
               watched[id], shown[id], id \in recycled)
      BY <1>2, <2>2, <2>3, <3>1 DEF RuleFits, Fits
    <3>5. WrittenBy(logs[name], written) /\ written \in Nat
      BY <1>1, <1>3, <1>4 DEF Base, SerialsAreKnown, WrittenBy
    <3>6. Fits(TRUE, Len(logs[name]), logs[name], epoch[name], epoch[name], activated[id],
               written, shown[id], id \in recycled)
      BY <3>3, <3>4, <3>5, FitsSeed
    <3>7. id \in DOMAIN offsets' /\ offsets'[id] = size
      BY <1>5, <1>6, <2>3
    <3> QED
      BY <1>2, <1>7, <2>1, <2>3, <3>1, <3>6, <3>7 DEF RuleFits, Fits
  <2>4. CASE rules[k].id # id
    <3> DEFINE i == rules[k].id
    <3>1. i \in Id
      BY <1>1, Values
    <3>2. watched'[i] = watched[i] /\ readEpoch'[i] = readEpoch[i]
      BY <1>7, <2>4, <3>1
    <3>3. /\ (i \in DOMAIN offsets') <=> (i \in DOMAIN offsets)
          /\ i \in DOMAIN offsets => offsets'[i] = offsets[i]
      BY <1>5, <1>6, <2>4
    <3>4. CASE i \in DOMAIN offsets
      BY <1>2, <2>1, <2>2, <3>2, <3>3, <3>4 DEF RuleFits
    <3>5. CASE i \notin DOMAIN offsets
      BY <1>2, <2>1, <2>2, <3>2, <3>3, <3>5 DEF RuleFits, Fits
    <3> QED
      BY <3>4, <3>5
  <2> QED
    BY <2>3, <2>4
<1> QED
  BY <1>2, <1>8, <1>9, <1>10, <1>11 DEF Inductive, Base

LEMMA StatNewsInductive == Inductive /\ StatNews => Inductive'
<1> SUFFICES ASSUME Inductive, StatNews
             PROVE  Inductive'
  OBVIOUS
<1> USE Numbers
<1> DEFINE id == Current.id
           name == Current.name
           size == Len(logs[name])
<1>1. Base
  BY DEF Inductive
<1>2. /\ InTick /\ id \in DOMAIN offsets
      /\ reading' = [from |-> IF size < offsets[id] THEN 0 ELSE offsets[id], size |-> size,
                     epoch |-> IF size < offsets[id] THEN epoch[name] ELSE readEpoch[id]]
      /\ UNCHANGED <<rules, logs, offsets, at, written, epoch, activated, watched, shown,
                     readEpoch, recycled, adds, rotations, failures, restarts>>
  BY DEF StatNews, NewsFrom, ghosts, bounds
<1>3. /\ at \in DOMAIN rules /\ id \in Id /\ name \in Name /\ rules[at].id = id
      /\ rules[at].name = name
  BY <1>1, <1>2, AtCurrent DEF Current
<1>4. /\ size \in 0..MaxLines /\ offsets[id] \in 0..MaxLines
      /\ epoch[name] \in 0..MaxRotations /\ readEpoch[id] \in 0..MaxRotations
  <2>1. /\ logs \in [Name -> Seq(Line)] /\ epoch \in [Name -> 0..MaxRotations]
        /\ readEpoch \in [Id -> 0..MaxRotations] /\ written \in 0..MaxLines
        /\ \A i \in DOMAIN offsets : offsets[i] \in 0..MaxLines
    BY <1>1 DEF Base, TypeOK
  <2>2. size \in Nat /\ size <= written
    <3>1. logs[name] \in Seq(Line)
      BY <1>3, <2>1
    <3>2. size \in Nat
      BY <3>1, LenProperties
    <3>3. size <= written
      BY <1>1, <1>3 DEF Base, SerialsAreKnown
    <3> QED
      BY <3>2, <3>3
  <2> HIDE DEF id, name, size
  <2>3. size \in 0..MaxLines
    BY <2>1, <2>2
  <2> QED
    BY <1>2, <1>3, <2>1, <2>3
<1> HIDE DEF id, name, size
<1>5. TypeOK'
  <2>1. /\ reading' \in [from : 0..MaxLines, size : 0..MaxLines, epoch : 0..MaxRotations]
        /\ reading'.from <= reading'.size
    BY <1>2, <1>4
  <2>2. InTick' /\ Current'.id \in DOMAIN offsets'
    BY <1>2 DEF InTick, Current, id
  <2> QED
    BY <1>1, <1>2, <2>1, <2>2 DEF Base, TypeOK
<1>6. SerialsAreKnown' /\ IdsAreUnique'
  BY <1>1, <1>2 DEF Base, SerialsAreKnown, IdsAreUnique
<1>7. ASSUME NEW k \in DOMAIN rules
      PROVE  RuleFits(k)' /\ TickReads(k)'
  <2>1. RuleFits(k)
    BY DEF Inductive
  <2>2. RuleFits(k)'
    BY <1>2, <2>1 DEF RuleFits
  <2>3. ASSUME k = at
        PROVE  Reads(offsets[id], logs[name], epoch[name], readEpoch[id], activated[id],
                     shown[id], id \in recycled, reading'.from, reading'.size, reading'.epoch)
    <3>1. Typed(id \in DOMAIN offsets, offsets[id], logs[name], epoch[name], readEpoch[id],
                activated[id], watched[id], shown[id], id \in recycled)
      BY <1>1, <1>3, Values
    <3>2. Typed(TRUE, offsets[id], logs[name], epoch[name], readEpoch[id],
                activated[id], watched[id], shown[id], id \in recycled)
      BY <1>2, <3>1 DEF Typed
    <3>3. Fits(TRUE, offsets[id], logs[name], epoch[name], readEpoch[id], activated[id],
               watched[id], shown[id], id \in recycled)
      BY <1>2, <1>3, <2>1, <2>3 DEF RuleFits, Fits
    <3>4. Reads(offsets[id], logs[name], epoch[name], readEpoch[id], activated[id], shown[id],
                id \in recycled, IF Len(logs[name]) < offsets[id] THEN 0 ELSE offsets[id],
                Len(logs[name]),
                IF Len(logs[name]) < offsets[id] THEN epoch[name] ELSE readEpoch[id])
      BY <3>2, <3>3, ReadsStat
    <3> QED
      BY <1>2, <3>4 DEF size
  <2> QED
    BY <1>2, <1>3, <2>2, <2>3 DEF TickReads
<1> QED
  BY <1>2, <1>5, <1>6, <1>7 DEF Inductive, Base

LEMMA ReadInductive == Inductive /\ Read => Inductive'
<1> SUFFICES ASSUME Inductive, Read
             PROVE  Inductive'
  OBVIOUS
<1> USE Numbers
<1> DEFINE id == Current.id
           name == Current.name
           news == AlertsAfter(logs[name], reading.from)
           table == With(offsets, id, reading.size)
           more == ShownFrom(shown[id], logs[name], reading.from)
<1>1. Base
  BY DEF Inductive
<1>2. /\ reading # NoReading /\ InTick /\ id \in DOMAIN offsets /\ NextRule(table)
      /\ readEpoch' = [readEpoch EXCEPT ![id] = reading.epoch]
      /\ UNCHANGED <<rules, logs, written, epoch, activated, watched, recycled,
                     adds, rotations, failures, restarts>>
  BY <1>1 DEF Read, bounds, Base, TypeOK
<1>3. /\ at \in DOMAIN rules /\ id \in Id /\ name \in Name /\ rules[at].id = id
      /\ rules[at].name = name /\ \A k \in DOMAIN rules : rules[k].id = id => k = at
  BY <1>1, <1>2, AtCurrent DEF Current
<1>4. /\ Typed(TRUE, offsets[id], logs[name], epoch[name], readEpoch[id],
               activated[id], watched[id], shown[id], id \in recycled)
      /\ Places(reading.from, reading.size, reading.epoch)
  <2>1. /\ Typed(id \in DOMAIN offsets, offsets[id], logs[name], epoch[name], readEpoch[id],
                 activated[id], watched[id], shown[id], id \in recycled)
        /\ Places(reading.from, reading.size, reading.epoch)
    BY <1>1, <1>3, Values
  <2> QED
    BY <1>2, <2>1 DEF Typed
<1>5. shown' = [shown EXCEPT ![id] = more]
  BY DEF Read, ShownFrom
<1>6. /\ DOMAIN table = DOMAIN offsets \cup {id} /\ table[id] = reading.size
      /\ \A i \in DOMAIN offsets : i # id => table[i] = offsets[i]
  BY DEF With
<1> HIDE DEF table
<1>7. /\ reading' = NoReading /\ at' \in 0..Len(rules)
      /\ \A i \in DOMAIN offsets' : i \in DOMAIN table /\ offsets'[i] = table[i]
      /\ \A k \in DOMAIN rules :
            rules[k].id \in DOMAIN offsets' <=> rules[k].id \in DOMAIN table
  BY <1>1, <1>2, Moves
<1> HIDE DEF id, name, news, more
<1>8. RuleFits(at) /\ TickReads(at)
  BY <1>3 DEF Inductive
<1>10. /\ more \in Shown
       /\ Fits(TRUE, reading.size, logs[name], epoch[name], reading.epoch, activated[id],
               watched[id], more, id \in recycled)
  <2>1. Fits(TRUE, offsets[id], logs[name], epoch[name], readEpoch[id], activated[id],
             watched[id], shown[id], id \in recycled)
    BY <1>2, <1>3, <1>8 DEF RuleFits, Fits
  <2>2. Reads(offsets[id], logs[name], epoch[name], readEpoch[id], activated[id], shown[id],
              id \in recycled, reading.from, reading.size, reading.epoch)
    BY <1>2, <1>3, <1>8 DEF TickReads
  <2>3. /\ ShownFrom(shown[id], logs[name], reading.from) \in Shown
        /\ Fits(TRUE, reading.size, logs[name], epoch[name], reading.epoch, activated[id],
                watched[id], ShownFrom(shown[id], logs[name], reading.from), id \in recycled)
    BY <1>4, <2>1, <2>2, FitsRead
  <2> QED
    BY <2>3 DEF more
<1>11. /\ shown' \in [Id -> [Serial -> Nat]] /\ shown'[id] = more
       /\ readEpoch' \in [Id -> 0..MaxRotations] /\ readEpoch'[id] = reading.epoch
       /\ \A i \in Id : i # id => shown'[i] = shown[i] /\ readEpoch'[i] = readEpoch[i]
  <2>1. reading.epoch \in 0..MaxRotations
    BY <1>1 DEF Base, TypeOK
  <2> QED
    BY <1>1, <1>2, <1>3, <1>5, <1>10, <2>1 DEF Base, TypeOK, Shown
<1>12. TypeOK'
  <2>1. /\ reading' \in [from : 0..MaxLines, size : 0..MaxLines, epoch : 0..MaxRotations]
        /\ reading'.from <= reading'.size
    BY <1>7 DEF NoReading
  <2>2. /\ DOMAIN offsets \subseteq Id /\ \A i \in DOMAIN offsets : offsets[i] \in 0..MaxLines
        /\ reading.size \in 0..MaxLines
    BY <1>1 DEF Base, TypeOK
  <2>3. DOMAIN offsets' \subseteq Id /\ \A i \in DOMAIN offsets' : offsets'[i] \in 0..MaxLines
    BY <1>3, <1>6, <1>7, <2>2
  <2> QED
    BY <1>1, <1>2, <1>7, <1>11, <2>1, <2>3 DEF Base, TypeOK
<1>13. SerialsAreKnown'
  <2>1. ASSUME NEW s \in Serial, more[s] > 0
        PROVE  s <= written
    <3>1. CASE s \in news
      <4>1. PICK i \in {j \in (reading.from + 1)..Len(logs[name]) : logs[name][j].alert} :
                   s = logs[name][i].serial
        BY <3>1 DEF news, AlertsAfter
      <4>2. i \in DOMAIN logs[name]
        BY <1>4, LenProperties DEF Typed, Places
      <4> QED
        BY <1>1, <1>3, <4>1, <4>2 DEF Base, SerialsAreKnown
    <3>2. CASE s \notin news
      BY <1>1, <1>3, <2>1, <3>2 DEF more, news, ShownFrom, Base, SerialsAreKnown
    <3> QED
      BY <3>1, <3>2
  <2>2. ASSUME NEW i \in Id, NEW s \in Serial, shown'[i][s] > 0
        PROVE  s <= written
    <3>1. CASE i = id
      BY <1>11, <2>1, <2>2, <3>1
    <3>2. CASE i # id
      BY <1>1, <1>11, <2>2, <3>2 DEF Base, SerialsAreKnown
    <3> QED
      BY <3>1, <3>2
  <2> QED
    BY <1>1, <1>2, <2>2 DEF Base, SerialsAreKnown
<1>14. IdsAreUnique'
  BY <1>1, <1>2 DEF Base, IdsAreUnique
<1>15. ASSUME NEW k \in DOMAIN rules
       PROVE  RuleFits(k)' /\ TickReads(k)'
  <2>1. TickReads(k)'
    BY <1>7 DEF TickReads
  <2>2. CASE rules[k].id = id
    <3>1. k = at /\ rules[k].name = name
      BY <1>3, <2>2
    <3>2. id \in DOMAIN offsets' /\ offsets'[id] = reading.size
      BY <1>6, <1>7, <2>2
    <3> QED
      BY <1>2, <1>10, <1>11, <2>1, <2>2, <3>1, <3>2 DEF RuleFits, Fits
  <2>3. CASE rules[k].id # id
    <3> DEFINE i == rules[k].id
    <3>1. i \in Id
      BY <1>1, Values
    <3>2. shown'[i] = shown[i] /\ readEpoch'[i] = readEpoch[i]
      BY <1>11, <2>3, <3>1
    <3>3. /\ (i \in DOMAIN offsets') <=> (i \in DOMAIN offsets)
          /\ i \in DOMAIN offsets => offsets'[i] = offsets[i]
      BY <1>6, <1>7, <2>3
    <3>4. RuleFits(k)
      BY DEF Inductive
    <3>5. CASE i \in DOMAIN offsets
      BY <1>2, <2>1, <3>2, <3>3, <3>4, <3>5 DEF RuleFits
    <3>6. CASE i \notin DOMAIN offsets
      BY <1>2, <2>1, <3>2, <3>3, <3>4, <3>6 DEF RuleFits, Fits
    <3> QED
      BY <3>5, <3>6
  <2> QED
    BY <2>2, <2>3
<1> QED
  BY <1>2, <1>12, <1>13, <1>14, <1>15 DEF Inductive, Base
-----------------------------------------------------------------------------
(* Theorems                                                                *)

LEMMA NextInductive == Inductive /\ [Next]_vars => Inductive'
<1> SUFFICES ASSUME Inductive, [Next]_vars
             PROVE  Inductive'
  OBVIOUS
<1>1. CASE AddRule
  BY <1>1, AddRuleInductive
<1>2. CASE StopRule
  BY <1>2, StopRuleInductive
<1>3. CASE Restart
  BY <1>3, RestartInductive
<1>4. CASE DaemonLogs
  BY <1>4, DaemonLogsInductive
<1>5. CASE Rotate
  BY <1>5, RotateInductive
<1>6. CASE TickProceeds
  BY <1>6, BeginTickInductive, EmptyTickInductive, SeedInductive, StatNoNewsInductive,
     StatNewsInductive, ReadInductive DEF TickProceeds
<1>7. CASE ReadFails
  BY <1>7, ReadFailsInductive
<1>8. CASE UNCHANGED vars
  <2>1. UNCHANGED <<rules, logs, offsets, at, reading, written, epoch, activated, watched, shown,
                    readEpoch, recycled, adds, rotations, failures, restarts>>
    BY <1>8 DEF vars, tickVars, ghosts, bounds
  <2>2. TypeOK'
    BY <2>1 DEF Inductive, Base, TypeOK, InTick, Current, NoReading
  <2>3. SerialsAreKnown' /\ IdsAreUnique'
    BY <2>1 DEF Inductive, Base, SerialsAreKnown, IdsAreUnique
  <2>4. ASSUME NEW k \in DOMAIN rules
        PROVE  RuleFits(k)' /\ TickReads(k)'
    <3>1. RuleFits(k) /\ TickReads(k)
      BY DEF Inductive
    <3> QED
      BY <2>1, <3>1 DEF RuleFits, TickReads
  <2> QED
    BY <2>1, <2>2, <2>3, <2>4 DEF Inductive, Base
<1> QED
  BY <1>1, <1>2, <1>3, <1>4, <1>5, <1>6, <1>7, <1>8 DEF Next

LEMMA AlwaysInductive == Spec => []Inductive
BY InitInductive, NextInductive, PTL DEF Spec

LEMMA InductiveImplies ==
    ASSUME Inductive
    PROVE  IInv /\ NothingSkipped /\ NothingReplayed
<1> USE Numbers
<1>1. Base
  BY DEF Inductive
<1>2. ASSUME NEW k \in DOMAIN rules
      PROVE  RuleFits(k) /\ TickReads(k)
  BY DEF Inductive
<1>3. ShownOnce
  BY <1>2 DEF ShownOnce, RuleFits, TickReads, Fits, Reads
<1>4. OffsetsAreTracked
  <2>1. ASSUME NEW k \in DOMAIN rules, rules[k].id \notin recycled,
               rules[k].id \in DOMAIN offsets
        PROVE  Tracked(k, offsets[rules[k].id], readEpoch[rules[k].id])
    BY <1>2, <2>1 DEF Tracked, RuleFits, Fits
  <2>2. ASSUME NEW k \in DOMAIN rules, rules[k].id \notin recycled, k = at, reading # NoReading
        PROVE  /\ Tracked(k, reading.from, reading.epoch)
               /\ reading.epoch = epoch[rules[k].name] =>
                     reading.size <= Len(logs[rules[k].name])
               /\ \/ reading.from = 0
                  \/ /\ reading.from = offsets[rules[k].id]
                     /\ reading.epoch = readEpoch[rules[k].id]
    BY <1>2, <2>2 DEF Tracked, TickReads, Reads
  <2> QED
    BY <2>1, <2>2 DEF OffsetsAreTracked
<1>5. AtMostTwice
  BY <1>2 DEF AtMostTwice, RuleFits, Fits
<1>6. NothingSkipped
  BY <1>2 DEF NothingSkipped, Watched, RuleFits, Fits
<1>7. NothingReplayed
  BY <1>2 DEF NothingReplayed, RuleFits, Fits
<1> QED
  BY <1>1, <1>3, <1>4, <1>5, <1>6, <1>7 DEF IInv, Base

\* The types, the numbering of the lines, the unique ids, how far each rule has
\* read its file and how often it has shown what is in it: this holds whatever
\* is written, rotated, added, stopped or restarted between the system calls of
\* _check_for_new_alerts.
THEOREM InvariantHolds == Spec => []IInv
<1>1. Inductive => IInv
  BY InductiveImplies
<1> QED
  BY <1>1, AlwaysInductive, PTL

\* No alert falls between two readings of a watched rule's log file.
THEOREM NoAlertIsSkipped == Spec => []NothingSkipped
<1>1. Inductive => NothingSkipped
  BY InductiveImplies
<1> QED
  BY <1>1, AlwaysInductive, PTL

\* No rule shows an alert that was in its log file before it came.
THEOREM NoAlertIsReplayed == Spec => []NothingReplayed
<1>1. Inductive => NothingReplayed
  BY InductiveImplies
<1> QED
  BY <1>1, AlwaysInductive, PTL

\* No alert is shown a third time.
THEOREM NoAlertThrice == Spec => []AtMostTwice
<1>1. Inductive => AtMostTwice
  BY InductiveImplies DEF IInv
<1> QED
  BY <1>1, AlwaysInductive, PTL
=============================================================================
