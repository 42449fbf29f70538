----------------------------- MODULE Console_proof -----------------------------
(***************************************************************************)
(* Proofs about Console and the three modules it composes, for any plugin  *)
(* modules and whatever they offer, containers, processes, bounds and      *)
(* commands: a plugin that fails takes nothing away from the others, what  *)
(* is reported of Docker and of processes was so, no process but the named *)
(* one is killed, and every command reaches a handler if there is one.     *)
(***************************************************************************)
EXTENDS Console, TLAPS, SequenceTheorems, FiniteSetTheorems

-----------------------------------------------------------------------------
(* Plugins                                                                 *)

RegistryInv == RegistryTypeOK /\ RegistryIsFilled /\ EngineIsFilled

\* The modules stand at the places 1 to Len(modules), each at one of them.
LEMMA Places ==
    /\ Len(modules) \in Nat /\ DOMAIN modules = 1..Len(modules)
    /\ \A i \in DOMAIN modules : modules[i] \in Module
    /\ \A i, j \in DOMAIN modules : modules[i] = modules[j] => i = j
    /\ \A m \in Module : \E i \in DOMAIN modules : modules[i] = m
    /\ 1 \in DOMAIN modules
<1>1. modules \in Seq(Module) /\ IsInjective(modules)
  BY PluginAssumption
<1>2. Len(modules) \in Nat /\ DOMAIN modules = 1..Len(modules)
  BY <1>1, LenProperties
<1>3. \A i \in DOMAIN modules : modules[i] \in Module
  BY <1>1, <1>2, ElementOfSeq
<1>4. \A i, j \in DOMAIN modules : modules[i] = modules[j] => i = j
  BY <1>1 DEF IsInjective
<1>5. \A m \in Module : \E i \in DOMAIN modules : modules[i] = m
  BY DEF Module, ToSet
<1>6. PICK i \in DOMAIN modules : modules[i] = Docker
  BY <1>5, ConsoleAssumption
<1> QED
  BY <1>2, <1>3, <1>4, <1>5, <1>6

LEMMA RegistryInitInv ==
    ASSUME RegistryInit
    PROVE  RegistryInv
<1>1. RegistryTypeOK
  BY Places DEF RegistryInit, RegistryTypeOK, Part
<1>2. \A i \in DOMAIN modules, part \in Part : ~Past(i, part)
  BY Places DEF RegistryInit, Past, Part
<1>3. \A part \in Part : DOMAIN registry[part] = {}
  BY DEF RegistryInit, Part
<1>4. ~EngineLoaded /\ Discovering
  BY DEF RegistryInit, EngineLoaded, Discovering
<1> QED
  BY <1>1, <1>2, <1>3, <1>4 DEF RegistryInv, RegistryIsFilled, EngineIsFilled

\* The entries of a part are registered when the stage of that part is over.
LEMMA PastMeans ==
    ASSUME NEW part \in Part, NEW i
    PROVE  /\ Past(i, part) <=> \/ i < turn
                                \/ i = turn /\ part = "commands" /\ stage \in {"metrics", "actions", "hook"}
                                \/ i = turn /\ part = "metrics" /\ stage \in {"actions", "hook"}
                                \/ i = turn /\ part = "actions" /\ stage = "hook"
           /\ Past(i, part)' <=> \/ i < turn'
                                 \/ i = turn' /\ part = "commands" /\ stage' \in {"metrics", "actions", "hook"}
                                 \/ i = turn' /\ part = "metrics" /\ stage' \in {"actions", "hook"}
                                 \/ i = turn' /\ part = "actions" /\ stage' = "hook"
<1>1. CASE part = "commands"
  BY <1>1 DEF Past
<1>2. CASE part = "metrics"
  BY <1>2 DEF Past
<1>3. CASE part = "actions"
  BY <1>3 DEF Past
<1> QED
  BY <1>1, <1>2, <1>3 DEF Part

\* A step of the discovery undoes no place: it registers the entries of one part
\* at the place it has come to, or goes on to the next place.
LEMMA PastStaysPut ==
    ASSUME RegistryTypeOK, NEW i \in DOMAIN modules, NEW part \in Part
    PROVE  /\ Past(i, part) => i <= turn
           /\ stage = part => (Past(i, part) <=> i < turn)
           /\ turn' = turn /\ <<stage, stage'>> \in {<<"import", "construct">>, <<"construct", "commands">>}
              => (Past(i, part)' <=> Past(i, part))
           /\ turn' = turn /\ <<stage, stage'>> \in {<<"commands", "metrics">>, <<"metrics", "actions">>, <<"actions", "hook">>}
              => (Past(i, part)' <=> Past(i, part) \/ (i = turn /\ stage = part))
           /\ turn' = turn + 1 /\ stage' \in {"import", "ready"} => (Past(i, part)' <=> i <= turn)
<1>1. turn \in Nat /\ i \in Nat
  BY Places DEF RegistryTypeOK
<1>2. Past(i, part) => i <= turn
  BY <1>1, PastMeans
<1>3. stage = part => (Past(i, part) <=> i < turn)
  BY <1>1, PastMeans DEF Part
<1>4. turn' = turn /\ <<stage, stage'>> \in {<<"import", "construct">>, <<"construct", "commands">>}
      => (Past(i, part)' <=> Past(i, part))
  BY <1>1, PastMeans
<1>5. ASSUME turn' = turn,
             <<stage, stage'>> \in {<<"commands", "metrics">>, <<"metrics", "actions">>, <<"actions", "hook">>}
      PROVE  Past(i, part)' <=> Past(i, part) \/ (i = turn /\ stage = part)
  <2>1. CASE part = "commands"
    BY <1>1, <1>5, <2>1, PastMeans
  <2>2. CASE part = "metrics"
    BY <1>1, <1>5, <2>2, PastMeans
  <2>3. CASE part = "actions"
    BY <1>1, <1>5, <2>3, PastMeans
  <2> QED
    BY <2>1, <2>2, <2>3 DEF Part
<1>6. turn' = turn + 1 /\ stage' \in {"import", "ready"} => (Past(i, part)' <=> i <= turn)
  BY <1>1, PastMeans
<1> QED
  BY <1>2, <1>3, <1>4, <1>5, <1>6

\* As long as no entry is made, a place may only be passed by a module that fails.
LEMMA FilledStays ==
    ASSUME RegistryInv, UNCHANGED registry, broken \subseteq broken',
           \A i \in DOMAIN modules, part \in Part :
              /\ Past(i, part) => Past(i, part)'
              /\ Past(i, part)' => Past(i, part) \/ modules[i] \in broken'
    PROVE  RegistryIsFilled'
<1> SUFFICES ASSUME NEW part \in Part
             PROVE  /\ \A k \in DOMAIN registry[part] : \E i \in DOMAIN modules : Wins(i, part, k)'
                    /\ \A i \in DOMAIN modules : Past(i, part)' =>
                          \A k \in offers[modules[i]][part] :
                             /\ modules[i] \notin broken' => k \in DOMAIN registry[part]
                             /\ Offering(part, k) \cap broken' = {} =>
                                   \E j \in DOMAIN modules : Wins(j, part, k)' /\ Precedes(part, j, i)
  BY DEF RegistryIsFilled
<1>1. \A k : \A i \in DOMAIN modules : Wins(i, part, k) => Wins(i, part, k)'
  BY DEF Wins
<1>2. \A k \in DOMAIN registry[part] : \E i \in DOMAIN modules : Wins(i, part, k)'
  BY <1>1 DEF RegistryInv, RegistryIsFilled
<1>3. ASSUME NEW i \in DOMAIN modules, Past(i, part)', NEW k \in offers[modules[i]][part]
      PROVE  /\ modules[i] \notin broken' => k \in DOMAIN registry[part]
             /\ Offering(part, k) \cap broken' = {} =>
                   \E j \in DOMAIN modules : Wins(j, part, k)' /\ Precedes(part, j, i)
  <2>1. modules[i] \in Offering(part, k)
    BY Places DEF Offering
  <2>2. CASE modules[i] \in broken'
    BY <2>1, <2>2
  <2>3. CASE modules[i] \notin broken'
    <3>1. Past(i, part)
      BY <1>3, <2>3
    <3>2. /\ modules[i] \notin broken => k \in DOMAIN registry[part]
          /\ Offering(part, k) \cap broken = {} =>
                \E j \in DOMAIN modules : Wins(j, part, k) /\ Precedes(part, j, i)
      BY <1>3, <3>1 DEF RegistryInv, RegistryIsFilled
    <3> QED
      BY <1>1, <2>3, <3>2
  <2> QED
    BY <2>2, <2>3
<1> QED
  BY <1>2, <1>3

\* The engine that is imported now finds what the metrics' places have left; what
\* it has copied before stays.
LEMMA EngineStays ==
    ASSUME RegistryInv, broken \subseteq broken', tooLate \subseteq tooLate',
           \/ ~EngineLoaded /\ metric' = metric /\ stage' # "ready"
           \/ /\ (metric' = metric /\ stage' # "ready") \/ LoadsEngine
              /\ \A i \in DOMAIN modules : Past(i, "metrics")' =>
                    Past(i, "metrics") \/ modules[i] \in broken' \cup tooLate'
    PROVE  EngineIsFilled' /\ (\A k \in DOMAIN metric' : metric'[k] \in Module \cup {Engine})
<1>1. ASSUME EngineLoaded \/ ~Discovering
      PROVE  /\ \A i \in DOMAIN modules :
                   Past(i, "metrics") /\ modules[i] \notin broken \cup tooLate =>
                      offers[modules[i]]["metrics"] \ BuiltIn \subseteq DOMAIN metric
             /\ \A k \in DOMAIN metric \ BuiltIn : metric[k] \in Offering("metrics", k)
             /\ BuiltIn \subseteq DOMAIN metric /\ \A k \in BuiltIn : metric[k] = Engine
  BY <1>1 DEF RegistryInv, EngineIsFilled
<1>2. \A k \in DOMAIN metric : metric[k] \in Module \cup {Engine}
  BY DEF RegistryInv, RegistryTypeOK
<1>3. CASE EngineLoaded
  <2>1. metric' = metric
    BY <1>3 DEF LoadsEngine
  <2> QED
    BY <1>1, <1>2, <1>3, <2>1 DEF EngineIsFilled, EngineLoaded, Offering, Module
<1>4. CASE ~EngineLoaded /\ metric' = metric /\ stage' # "ready"
  BY <1>2, <1>4 DEF EngineIsFilled, EngineLoaded, Discovering
<1>5. CASE /\ ~EngineLoaded /\ LoadsEngine
           /\ \A i \in DOMAIN modules : Past(i, "metrics")' =>
                 Past(i, "metrics") \/ modules[i] \in broken' \cup tooLate'
  <2>1. metric' = Pulled(registry["metrics"])
    BY <1>5 DEF LoadsEngine
  <2>2. /\ DOMAIN metric' = BuiltIn \cup DOMAIN registry["metrics"]
        /\ \A k \in BuiltIn : metric'[k] = Engine
        /\ \A k \in DOMAIN registry["metrics"] \ BuiltIn : metric'[k] = registry["metrics"][k]
    BY <2>1 DEF Pulled
  <2>3. \A k \in DOMAIN registry["metrics"] :
           registry["metrics"][k] \in Module /\ registry["metrics"][k] \in Offering("metrics", k)
    <3> SUFFICES ASSUME NEW k \in DOMAIN registry["metrics"]
                 PROVE  registry["metrics"][k] \in Module /\ registry["metrics"][k] \in Offering("metrics", k)
      OBVIOUS
    <3>1. PICK i \in DOMAIN modules : Wins(i, "metrics", k)
      BY DEF RegistryInv, RegistryIsFilled, Part
    <3> QED
      BY <3>1, Places DEF Wins, Offering
  <2>4. \A i \in DOMAIN modules :
           Past(i, "metrics")' /\ modules[i] \notin broken' \cup tooLate' =>
              offers[modules[i]]["metrics"] \ BuiltIn \subseteq DOMAIN metric'
    <3> SUFFICES ASSUME NEW i \in DOMAIN modules, Past(i, "metrics")',
                        modules[i] \notin broken' \cup tooLate',
                        NEW k \in offers[modules[i]]["metrics"] \ BuiltIn
                 PROVE  k \in DOMAIN metric'
      OBVIOUS
    <3>1. Past(i, "metrics")
      BY <1>5
    <3> QED
      BY <2>2, <3>1 DEF RegistryInv, RegistryIsFilled, Part
  <2> QED
    BY <2>2, <2>3, <2>4 DEF EngineIsFilled, Offering, Module
<1> QED
  BY <1>3, <1>4, <1>5

LEMMA ImportModuleInv ==
    ASSUME RegistryInv, ImportModule
    PROVE  RegistryInv'
<1>1. /\ stage = "import" /\ stage' = "construct"
      /\ UNCHANGED <<turn, registry, broken, tooLate>>
      /\ metric' = metric \/ LoadsEngine
  BY DEF ImportModule
<1>2. \A i \in DOMAIN modules, part \in Part : Past(i, part)' <=> Past(i, part)
  BY <1>1, PastStaysPut DEF RegistryInv
<1>3. RegistryIsFilled'
  BY <1>1, <1>2, FilledStays
<1>4. EngineIsFilled' /\ (\A k \in DOMAIN metric' : metric'[k] \in Module \cup {Engine})
  BY <1>1, <1>2, EngineStays DEF Part
<1>5. RegistryTypeOK'
  BY <1>1, <1>4 DEF RegistryInv, RegistryTypeOK
<1> QED
  BY <1>3, <1>4, <1>5 DEF RegistryInv

LEMMA ConstructInv ==
    ASSUME RegistryInv, Construct
    PROVE  RegistryInv'
<1>1. /\ stage = "construct" /\ stage' = "commands"
      /\ UNCHANGED <<turn, registry, metric, broken, tooLate>>
  BY DEF Construct
<1>2. \A i \in DOMAIN modules, part \in Part : Past(i, part)' <=> Past(i, part)
  BY <1>1, PastStaysPut DEF RegistryInv
<1>3. RegistryIsFilled'
  BY <1>1, <1>2, FilledStays
<1>4. EngineIsFilled'
  BY <1>1, <1>2, EngineStays DEF Part
<1>5. RegistryTypeOK'
  BY <1>1 DEF RegistryInv, RegistryTypeOK
<1> QED
  BY <1>3, <1>4, <1>5 DEF RegistryInv

\* Whether a module has come to its end or has failed, the next one has its turn.
LEMMA NextModuleInv ==
    ASSUME RegistryInv, NextModule, UNCHANGED <<registry, tooLate>>, stage # "ready",
           broken \subseteq broken', broken' \subseteq Module,
           stage = "hook" \/ Current \in broken'
    PROVE  RegistryInv'
<1>1. turn \in 1..Len(modules) /\ Len(modules) \in Nat /\ turn \in Nat
  BY Places DEF RegistryInv, RegistryTypeOK
<1>2. /\ turn' = turn + 1 /\ stage' \in {"import", "ready"}
      /\ stage' # "ready" <=> turn' <= Len(modules)
      /\ (metric' = metric /\ stage' # "ready") \/ LoadsEngine
  BY <1>1 DEF NextModule
<1>3. \A i \in DOMAIN modules, part \in Part :
         /\ Past(i, part) => Past(i, part)'
         /\ Past(i, part)' => Past(i, part) \/ modules[i] \in broken'
  <2> SUFFICES ASSUME NEW i \in DOMAIN modules, NEW part \in Part
               PROVE  /\ Past(i, part) => Past(i, part)'
                      /\ Past(i, part)' => Past(i, part) \/ modules[i] \in broken'
    OBVIOUS
  <2>1. /\ Past(i, part) => i <= turn
        /\ Past(i, part)' <=> i <= turn
    BY <1>2, PastStaysPut DEF RegistryInv
  <2>2. i < turn \/ (stage = "hook" /\ i = turn) => Past(i, part)
    BY PastMeans DEF Part
  <2>3. i <= turn => i < turn \/ i = turn
    BY <1>1, Places
  <2> QED
    BY <2>1, <2>2, <2>3 DEF Current
<1>4. RegistryIsFilled'
  BY <1>3, FilledStays
<1>5. EngineIsFilled' /\ (\A k \in DOMAIN metric' : metric'[k] \in Module \cup {Engine})
  BY <1>2, <1>3, EngineStays DEF Part
<1>6. RegistryTypeOK'
  BY <1>1, <1>2, <1>5 DEF RegistryInv, RegistryTypeOK
<1> QED
  BY <1>4, <1>5, <1>6 DEF RegistryInv

\* What the part that a module has just registered is like: a command and an
\* action are its own from now on, a metric is unless it was there.
LEMMA MergeFills ==
    ASSUME RegistryInv, Merge, NEW part, part = stage
    PROVE  /\ \A k \in DOMAIN registry'[part] : \E i \in DOMAIN modules : Wins(i, part, k)'
           /\ \A i \in DOMAIN modules : Past(i, part)' =>
                 \A k \in offers[modules[i]][part] :
                    /\ modules[i] \notin broken' => k \in DOMAIN registry'[part]
                    /\ Offering(part, k) \cap broken' = {} =>
                          \E j \in DOMAIN modules : Wins(j, part, k)' /\ Precedes(part, j, i)
           /\ \A k \in DOMAIN registry'[part] : registry'[part][k] \in Module
<1> DEFINE keys == offers[Current][part]
<1>1. /\ part \in Part /\ turn' = turn /\ broken' = broken
      /\ turn \in DOMAIN modules /\ turn \in Nat
      /\ <<stage, stage'>> \in {<<"commands", "metrics">>, <<"metrics", "actions">>, <<"actions", "hook">>}
  <2>1. turn \in 1..Len(modules) /\ Len(modules) \in Nat
    BY Places DEF Merge, RegistryInv, RegistryTypeOK, Part
  <2> QED
    BY <2>1, Places DEF Merge, Part
<1>2. \A i \in DOMAIN modules : /\ Past(i, part) <=> i < turn
                                /\ Past(i, part)' <=> i <= turn
                                /\ i \in Nat
  <2> TAKE i \in DOMAIN modules
  <2>1. i \in Nat
    BY Places
  <2> QED
    BY <1>1, <2>1, PastStaysPut DEF RegistryInv
<1>3. registry'[part] = IF part = "metrics" THEN Kept(registry[part], keys, Current)
                                             ELSE Replaced(registry[part], keys, Current)
  BY <1>1 DEF Merge, RegistryInv, RegistryTypeOK
<1>4. DOMAIN registry'[part] = DOMAIN registry[part] \cup keys
  BY <1>3 DEF Kept, Replaced
<1>5. ASSUME NEW k \in DOMAIN registry[part], part = "metrics" \/ k \notin keys
      PROVE  registry'[part][k] = registry[part][k]
  BY <1>3, <1>5 DEF Kept, Replaced
<1>6. ASSUME NEW k \in keys, part # "metrics" \/ k \notin DOMAIN registry[part]
      PROVE  Wins(turn, part, k)'
  <2>1. registry'[part][k] = Current
    BY <1>3, <1>6 DEF Kept, Replaced
  <2> QED
    BY <1>1, <1>2, <1>4, <2>1 DEF Wins, Current
<1>7. ASSUME NEW k \in DOMAIN registry[part], part = "metrics" \/ k \notin keys,
             NEW i \in DOMAIN modules, Wins(i, part, k)
      PROVE  Wins(i, part, k)'
  BY <1>1, <1>2, <1>4, <1>5, <1>7 DEF Wins
<1>8. \A k \in DOMAIN registry'[part] : \E i \in DOMAIN modules : Wins(i, part, k)'
  <2> TAKE k \in DOMAIN registry'[part]
  <2>1. CASE k \in keys /\ (part # "metrics" \/ k \notin DOMAIN registry[part])
    BY <1>1, <1>6, <2>1
  <2>2. CASE k \in DOMAIN registry[part] /\ (part = "metrics" \/ k \notin keys)
    BY <1>1, <1>7, <2>2 DEF RegistryInv, RegistryIsFilled
  <2> QED
    BY <1>4, <2>1, <2>2
<1>9. ASSUME NEW i \in DOMAIN modules, Past(i, part)', NEW k \in offers[modules[i]][part]
      PROVE  /\ modules[i] \notin broken' => k \in DOMAIN registry'[part]
             /\ Offering(part, k) \cap broken' = {} =>
                   \E j \in DOMAIN modules : Wins(j, part, k)' /\ Precedes(part, j, i)
  <2>1. i < turn \/ i = turn
    BY <1>1, <1>2, <1>9
  <2>2. i < turn =>
           /\ modules[i] \notin broken => k \in DOMAIN registry[part]
           /\ Offering(part, k) \cap broken = {} =>
                 \E j \in DOMAIN modules : Wins(j, part, k) /\ Precedes(part, j, i)
    BY <1>1, <1>2 DEF RegistryInv, RegistryIsFilled
  <2>3. i = turn => k \in keys
    BY DEF Current
  <2>4. modules[i] \notin broken' => k \in DOMAIN registry'[part]
    BY <1>1, <1>4, <2>1, <2>2, <2>3
  <2>5. ASSUME Offering(part, k) \cap broken' = {}
        PROVE  \E j \in DOMAIN modules : Wins(j, part, k)' /\ Precedes(part, j, i)
    <3>1. CASE part # "metrics" /\ k \in keys
      <4>1. Precedes(part, turn, i)
        BY <1>1, <1>2, <1>9, <3>1 DEF Precedes
      <4> QED
        BY <1>1, <1>6, <3>1, <4>1
    <3>2. CASE part = "metrics" /\ i = turn /\ k \notin DOMAIN registry[part]
      <4>1. Precedes(part, turn, i)
        BY <1>1, <1>2, <1>9, <3>2 DEF Precedes
      <4> QED
        BY <1>1, <1>6, <2>3, <3>2, <4>1
    <3>3. CASE part = "metrics" /\ i = turn /\ k \in DOMAIN registry[part]
      <4>1. PICK j \in DOMAIN modules : Wins(j, part, k)
        BY <1>1, <3>3 DEF RegistryInv, RegistryIsFilled
      <4>2. j < turn
        BY <1>2, <4>1 DEF Wins
      <4>3. Precedes(part, j, i)
        BY <1>1, <1>2, <3>3, <4>2 DEF Precedes
      <4> QED
        BY <1>7, <3>3, <4>1, <4>3
    <3>4. CASE i < turn /\ (part = "metrics" \/ k \notin keys)
      <4>1. PICK j \in DOMAIN modules : Wins(j, part, k) /\ Precedes(part, j, i)
        BY <1>1, <2>2, <2>5, <3>4
      <4>2. k \in DOMAIN registry[part]
        BY <4>1 DEF Wins
      <4> QED
        BY <1>7, <3>4, <4>1, <4>2
    <3> QED
      BY <2>1, <2>3, <3>1, <3>2, <3>3, <3>4
  <2> QED
    BY <2>4, <2>5
<1>10. \A k \in DOMAIN registry'[part] : registry'[part][k] \in Module
  BY <1>8, Places DEF Wins
<1> QED
  BY <1>8, <1>9, <1>10

LEMMA MergeInv ==
    ASSUME RegistryInv, Merge
    PROVE  RegistryInv'
<1>1. /\ stage \in Part /\ turn' = turn /\ metric' = metric /\ broken' = broken
      /\ DOMAIN registry' = Part
      /\ \A part \in Part \ {stage} : registry'[part] = registry[part]
      /\ tooLate \subseteq tooLate'
  BY DEF Merge, RegistryInv, RegistryTypeOK
<1>2. turn \in DOMAIN modules
  BY <1>1, Places DEF RegistryInv, RegistryTypeOK, Part
<1>3. <<stage, stage'>> \in {<<"commands", "metrics">>, <<"metrics", "actions">>, <<"actions", "hook">>}
  BY DEF Merge, Part
<1>4. \A i \in DOMAIN modules, part \in Part : Past(i, part)' <=> Past(i, part) \/ (i = turn /\ stage = part)
  BY <1>1, <1>3, PastStaysPut DEF RegistryInv
<1>5. ASSUME NEW part \in Part, part # stage
      PROVE  /\ \A k \in DOMAIN registry'[part] : \E i \in DOMAIN modules : Wins(i, part, k)'
             /\ \A i \in DOMAIN modules : Past(i, part)' =>
                   \A k \in offers[modules[i]][part] :
                      /\ modules[i] \notin broken' => k \in DOMAIN registry'[part]
                      /\ Offering(part, k) \cap broken' = {} =>
                            \E j \in DOMAIN modules : Wins(j, part, k)' /\ Precedes(part, j, i)
  <2>1. \A k : \A i \in DOMAIN modules : Wins(i, part, k)' <=> Wins(i, part, k)
    BY <1>1, <1>4, <1>5 DEF Wins
  <2> QED
    BY <1>1, <1>4, <1>5, <2>1 DEF RegistryInv, RegistryIsFilled
<1>6. RegistryIsFilled'
  BY <1>1, <1>5, MergeFills DEF RegistryIsFilled
<1>7. EngineIsFilled'
  <2>1. CASE ~EngineLoaded
    BY <1>1, <1>3, <2>1, EngineStays
  <2>2. CASE EngineLoaded
    <3>1. \A i \in DOMAIN modules : Past(i, "metrics")' =>
             Past(i, "metrics") \/ modules[i] \in broken' \cup tooLate'
      BY <1>4, <2>2 DEF Part, Merge, Current
    <3> QED
      BY <1>1, <1>3, <3>1, EngineStays
  <2> QED
    BY <2>1, <2>2
<1>8. RegistryTypeOK'
  <2>1. \A part \in Part : \A k \in DOMAIN registry'[part] : registry'[part][k] \in Module
    BY <1>1, MergeFills DEF RegistryInv, RegistryTypeOK
  <2>2. tooLate' \subseteq Module
    BY <1>2, Places DEF Merge, Current, RegistryInv, RegistryTypeOK
  <2>3. stage # "ready" /\ stage' \in {"metrics", "actions", "hook"}
    BY <1>3
  <2> QED
    BY <1>1, <2>1, <2>2, <2>3 DEF RegistryInv, RegistryTypeOK
<1> QED
  BY <1>6, <1>7, <1>8 DEF RegistryInv

LEMMA RegistryStep ==
    ASSUME RegistryInv, RegistryNext
    PROVE  RegistryInv'
<1>1. CASE Hook
  BY <1>1, NextModuleInv DEF Hook, RegistryInv, RegistryTypeOK
<1>2. CASE ModuleFails
  <2>1. stage # "ready"
    BY <1>2 DEF ModuleFails, Part
  <2>2. turn \in DOMAIN modules
    BY <2>1, Places DEF RegistryInv, RegistryTypeOK
  <2>3. broken' = broken \cup {Current} /\ Current \in Module
    BY <1>2, <2>2, Places DEF ModuleFails, Current
  <2>4. broken \subseteq Module
    BY DEF RegistryInv, RegistryTypeOK
  <2>5. NextModule /\ UNCHANGED <<registry, tooLate>>
    BY <1>2 DEF ModuleFails
  <2> QED
    BY <2>1, <2>3, <2>4, <2>5, NextModuleInv
<1> QED
  BY <1>1, <1>2, ImportModuleInv, ConstructInv, MergeInv DEF RegistryNext

\* When the discovery is over, every place has had its turn.
LEMMA PluginsContained ==
    ASSUME RegistryInv
    PROVE  PluginsAreContained
<1> SUFFICES ASSUME ~Discovering
             PROVE  PluginsAreContained
  BY DEF PluginsAreContained
<1>1. \A i \in DOMAIN modules, part \in Part : Past(i, part)
  <2>1. turn \in Nat /\ turn > Len(modules) /\ Len(modules) \in Nat
    BY Places DEF Discovering, RegistryInv, RegistryTypeOK
  <2> QED
    BY <2>1, Places DEF Past
<1>2. ASSUME NEW part \in Part, NEW m \in Module, NEW k \in offers[m][part],
             Offering(part, k) \cap broken = {}
      PROVE  /\ k \in DOMAIN registry[part]
             /\ \E i \in DOMAIN modules :
                   /\ registry[part][k] = modules[i]
                   /\ \A j \in DOMAIN modules :
                         k \in offers[modules[j]][part] => Precedes(part, i, j)
  <2>1. \A j \in DOMAIN modules : k \in offers[modules[j]][part] =>
           \E i \in DOMAIN modules : Wins(i, part, k) /\ Precedes(part, i, j)
    BY <1>1, <1>2 DEF RegistryInv, RegistryIsFilled
  <2>2. PICK j0 \in DOMAIN modules : modules[j0] = m
    BY Places
  <2>3. PICK i \in DOMAIN modules : Wins(i, part, k)
    BY <2>1, <2>2
  <2>4. \A n \in DOMAIN modules : Wins(n, part, k) => n = i
    BY <2>3, Places DEF Wins
  <2>5. \A j \in DOMAIN modules : k \in offers[modules[j]][part] => Precedes(part, i, j)
    BY <2>1, <2>4
  <2> QED
    BY <2>3, <2>5 DEF Wins
<1>3. ASSUME NEW m \in Module \ (broken \cup tooLate), NEW k \in offers[m]["metrics"] \ BuiltIn
      PROVE  k \in DOMAIN metric /\ metric[k] \in Offering("metrics", k)
  <2>1. PICK i \in DOMAIN modules : modules[i] = m
    BY Places
  <2>2. Past(i, "metrics")
    BY <1>1 DEF Part
  <2>3. k \in DOMAIN metric
    BY <1>3, <2>1, <2>2 DEF RegistryInv, EngineIsFilled
  <2> QED
    BY <1>3, <2>3 DEF RegistryInv, EngineIsFilled
<1>4. \A k \in BuiltIn : metric[k] = Engine
  BY DEF RegistryInv, EngineIsFilled
<1>5. \A part \in Part : \A k \in DOMAIN registry[part] : k \in offers[registry[part][k]][part]
  BY DEF RegistryInv, RegistryIsFilled, Wins
<1> QED
  BY <1>2, <1>3, <1>4, <1>5 DEF PluginsAreContained

-----------------------------------------------------------------------------
(* Docker                                                                  *)

DockerInv == DockerTypeOK /\ DockerCollects /\ DockerIsTrue

LEMMA DockerIdleInv ==
    ASSUME DockerIdle
    PROVE  DockerInv
<1>1. state \in [Thing -> {"running", "stopped", "gone"}]
  BY DEF DockerIdle, NoThings
<1>2. changes \in 0..MaxChanges
  BY DockerAssumption DEF DockerIdle
<1>3. DockerTypeOK
  BY <1>1, <1>2 DEF DockerIdle, DockerTypeOK, Ending, NoEnding, Words
<1> QED
  BY <1>3 DEF DockerInv, DockerCollects, DockerIsTrue, DockerIdle, NoEnding

LEMMA DockerRestsIdles ==
    ASSUME DockerRests
    PROVE  DockerIdle'
BY DEF DockerRests, DockerIdle, NoThings

LEMMA ListedThings ==
    ASSUME DockerTypeOK, NEW r \in Report \cup {"none"}
    PROVE  Listed(r, state) \subseteq Thing
BY DockerAssumption DEF DockerTypeOK, Report, Listing, Inspecting, RunningOnly, Listed

LEMMA AskDockerInv ==
    ASSUME DockerInv, DockerIdle, NEW r \in Report, AskDocker(r)
    PROVE  DockerInv'
<1>1. /\ installed' \subseteq {"sdk", "cli"} /\ routes' \subseteq installed'
      /\ state' \in [Thing -> {"running", "stopped", "gone"}]
      /\ ending' = NoEnding
      /\ report' = r /\ dstage' \in {"sdk", "check"}
      /\ always' = Listed(r, state)' /\ ever' = Listed(r, state)'
      /\ wasCut' = ("cli" \notin routes')
      /\ pending' = {} /\ rows' = {} /\ answer' = "none" /\ changes' = 0
  BY DockerAssumption DEF AskDocker, DockerIdle
<1>2. Listed(r, state)' \subseteq Thing
  BY <1>1, DockerAssumption DEF Report, Listing, Inspecting, RunningOnly, Listed
<1>3. DockerTypeOK'
  BY <1>1, <1>2, DockerAssumption DEF DockerTypeOK, Ending, NoEnding, Words
<1>4. DockerCollects'
  BY <1>1 DEF DockerCollects
<1>5. DockerIsTrue'
  BY <1>1 DEF DockerIsTrue, NoEnding
<1> QED
  BY <1>3, <1>4, <1>5 DEF DockerInv

LEMMA ThingChangesInv ==
    ASSUME DockerInv, ThingChanges
    PROVE  DockerInv'
<1>1. /\ dstage \in {"check", "sdk", "rows", "cli"}
      /\ state' \in [Thing -> {"running", "stopped", "gone"}]
      /\ always' = always \cap Listed(report, state')
      /\ ever' = ever \cup Listed(report, state')
      /\ changes' \in 0..MaxChanges
      /\ UNCHANGED <<installed, routes, report, dstage, pending, rows, answer, ending, wasCut>>
  BY DockerAssumption DEF ThingChanges, DockerInv, DockerTypeOK
<1>2. /\ always' \subseteq always /\ ever \subseteq ever'
      /\ always' \subseteq Listed(report, state') /\ Listed(report, state') \subseteq ever'
  BY <1>1
<1>3. /\ Listed(report, state') = Listed(report, state)'
      /\ Listed(report, state') \subseteq Thing
  BY <1>1, DockerAssumption DEF Listed, DockerInv, DockerTypeOK, Report, Listing, Inspecting, RunningOnly
<1>4. DockerTypeOK'
  BY <1>1, <1>2, <1>3 DEF DockerInv, DockerTypeOK
<1>5. DockerCollects'
  <2>1. /\ answer = "none" /\ always \subseteq ever
        /\ "cli" \notin routes => wasCut
        /\ IF dstage = "rows" THEN always \subseteq pending \cup rows /\ pending \cup rows \subseteq ever
                              ELSE pending = {} /\ rows = {}
    BY <1>1 DEF DockerInv, DockerCollects
  <2> QED
    BY <1>1, <1>2, <1>3, <2>1 DEF DockerCollects
<1>6. DockerIsTrue'
  BY <1>1 DEF DockerInv, DockerCollects, DockerIsTrue
<1> QED
  BY <1>4, <1>5, <1>6 DEF DockerInv

LEMMA DaemonChangesInv ==
    ASSUME DockerInv, DaemonChanges
    PROVE  DockerInv'
<1>1. /\ dstage \in {"check", "sdk", "rows", "cli"}
      /\ routes' \subseteq installed
      /\ wasCut' = (wasCut \/ "cli" \notin routes')
      /\ changes' \in 0..MaxChanges
      /\ UNCHANGED <<installed, state, report, dstage, pending, rows, answer, ending, always, ever>>
  BY DockerAssumption DEF DaemonChanges, DockerInv, DockerTypeOK
<1>2. DockerTypeOK'
  BY <1>1 DEF DockerInv, DockerTypeOK
<1>3. DockerCollects'
  <2>1. Listed(report, state)' = Listed(report, state)
    BY <1>1 DEF Listed
  <2> QED
    BY <1>1, <2>1 DEF DockerInv, DockerCollects
<1>4. DockerIsTrue'
  BY <1>1 DEF DockerInv, DockerCollects, DockerIsTrue
<1> QED
  BY <1>2, <1>3, <1>4 DEF DockerInv

\* However the docker command ends, it is blamed on what it says, and what it says
\* is so unless a file is missing or the container has said it.
LEMMA EndingsAreTrue ==
    ASSUME DockerTypeOK, NEW e \in Endings
    PROVE  /\ e \in Ending /\ (e.own => report = "logs")
           /\ \A what \in Conclusions(e) :
                 /\ what \in {"rows", "missing", "unavailable", "unreachable", "error", "raised"}
                 /\ what = "unavailable" => "cli" \notin installed \/ e.own
                 /\ what = "unreachable" =>
                       "cli" \in installed /\ ("cli" \notin routes \/ e.says = "no file" \/ e.own)
                 /\ what = "missing" => report = "logs" /\ (state[Logged] = "gone" \/ e.own)
                 /\ what = "raised" => e.own
<1> DEFINE Own == [code : {"0", "else"}, says : Words, own : {TRUE}]
\* The command speaks for itself,
<1>1. CASE "cli" \notin installed
  <2>1. e \in [code : {"127"}, says : {"no binary"}, own : {FALSE}]
    BY <1>1 DEF Endings, DockerTypeOK
  <2>2. e \in Ending /\ e.code = "127" /\ e.says = "no binary" /\ ~e.own
    BY <2>1 DEF Ending, Words
  <2>3. Classified(e) = "unavailable"
    BY <2>2 DEF Classified
  <2>4. Conclusions(e) = {"unavailable"}
    BY <2>2, <2>3 DEF Conclusions
  <2> QED
    BY <1>1, <2>2, <2>4
<1>2. ASSUME "cli" \in installed,
             NEW words \in SUBSET {"no daemon", "no container"}, e \in Failing(words),
             "no daemon" \in words => "cli" \notin routes,
             "no container" \in words => report = "logs" /\ state[Logged] = "gone"
      PROVE  /\ e \in Ending /\ (e.own => report = "logs")
             /\ \A what \in Conclusions(e) :
                   /\ what \in {"missing", "unreachable", "error"}
                   /\ what = "unreachable" => "cli" \notin routes \/ e.says = "no file"
                   /\ what = "missing" => report = "logs" /\ state[Logged] = "gone"
  <2>1. /\ e \in Ending /\ e.code = "else" /\ ~e.own
        /\ e.says \in {"no daemon", "no container", "other", "no file"}
        /\ e.says = "no daemon" => "cli" \notin routes
        /\ e.says = "no container" => report = "logs" /\ state[Logged] = "gone"
    BY <1>2 DEF Failing, Ending, Words
  <2>2. Classified(e) = IF e.says \in {"no daemon", "no file"} THEN "unreachable" ELSE "error"
    BY <2>1 DEF Classified
  <2>3. Conclusions(e) =
           IF e.says = "no container" /\ report = "logs" THEN {"missing"} ELSE {Classified(e)}
    BY <2>1 DEF Conclusions
  <2> QED
    BY <2>1, <2>2, <2>3
<1>3. CASE e = NoEnding
  <2>1. e \in Ending /\ e.code = "0" /\ e.says = "other" /\ ~e.own
    BY <1>3 DEF NoEnding, Ending, Words
  <2>2. Conclusions(e) \subseteq {"rows", "error"}
    BY <2>1 DEF Conclusions, Classified
  <2> QED
    BY <2>1, <2>2
\* ... or the container does.
<1>4. CASE "cli" \in installed /\ report = "logs" /\ e \in Own
  <2>1. e \in Ending /\ e.own
    BY <1>4 DEF Ending
  <2>2. Classified(e) \in {"rows", "unavailable", "unreachable", "error"}
    BY DEF Classified
  <2>3. Conclusions(e) \subseteq {"rows", "missing", "unavailable", "unreachable", "error", "raised"}
    BY <2>2 DEF Conclusions
  <2> QED
    BY <1>4, <2>1, <2>3
<1>5. CASE "cli" \in installed \ routes
  <2>1. e \in Failing({"no daemon"})
    BY <1>5 DEF Endings
  <2> QED
    BY <1>2, <1>5, <2>1
<1>6. CASE "cli" \in routes /\ report # "logs"
  <2>1. "cli" \in installed /\ (e \in Failing({}) \/ e = NoEnding)
    BY <1>6 DEF Endings, DockerTypeOK
  <2> QED
    BY <1>2, <1>3, <2>1
<1>7. CASE "cli" \in routes /\ report = "logs" /\ state[Logged] = "gone"
  <2>1. "cli" \in installed /\ e \in Failing({"no container"})
    BY <1>7 DEF Endings, DockerTypeOK
  <2> QED
    BY <1>2, <1>7, <2>1
<1>8. CASE "cli" \in routes /\ report = "logs" /\ state[Logged] # "gone"
  <2>1. "cli" \in installed /\ (e \in Failing({}) \/ e = NoEnding \/ e \in Own)
    BY <1>8 DEF Endings, DockerTypeOK
  <2> QED
    BY <1>2, <1>3, <1>4, <1>8, <2>1
<1> QED
  BY <1>1, <1>5, <1>6, <1>7, <1>8

LEMMA ProbesDockerInv ==
    ASSUME DockerInv, ProbesDocker
    PROVE  DockerInv'
<1>1. /\ UNCHANGED <<installed, routes, state, report, always, ever, wasCut, changes>>
      /\ dstage \in {"check", "sdk", "rows", "cli"}
  BY DEF ProbesDocker, Probes, At, CheckInstalled, FallsBack, SdkLists, SdkInspects, SdkListed,
         SdkDelivers, CliAnswers
<1>2. /\ Listed(report, state)' = Listed(report, state)
      /\ Listed(report, state) \subseteq Thing
  BY <1>1, ListedThings DEF Listed, DockerInv, DockerTypeOK
<1>3. /\ answer = "none"
      /\ always \subseteq Listed(report, state) /\ Listed(report, state) \subseteq ever
      /\ "cli" \notin routes => wasCut
      /\ IF dstage = "rows" THEN always \subseteq pending \cup rows /\ pending \cup rows \subseteq ever
                            ELSE pending = {} /\ rows = {}
  BY <1>1 DEF DockerInv, DockerCollects
<1>4. pending \subseteq Thing /\ rows \subseteq Thing /\ ending \in Ending
  BY DEF DockerInv, DockerTypeOK
\* What a step must leave behind if the command goes on, and if it is over.
<1>5. ASSUME dstage' \in {"sdk", "rows", "cli"}, answer' = answer, ending' = ending,
             pending' \subseteq Thing, rows' \subseteq Thing,
             IF dstage' = "rows" THEN always \subseteq pending' \cup rows' /\ pending' \cup rows' \subseteq ever
                                 ELSE pending' = {} /\ rows' = {}
      PROVE  DockerInv'
  <2>1. DockerTypeOK'
    BY <1>1, <1>5 DEF DockerInv, DockerTypeOK
  <2>2. DockerCollects'
    BY <1>1, <1>2, <1>3, <1>5 DEF DockerCollects
  <2>3. DockerIsTrue'
    BY <1>1, <1>3, <1>5 DEF DockerInv, DockerIsTrue
  <2> QED
    BY <2>1, <2>2, <2>3 DEF DockerInv
<1>6. ASSUME NEW what \in {"rows", "missing", "unavailable", "unreachable", "error", "raised"},
             ending' \in Ending, ending'.own => report = "logs",
             NEW things \in SUBSET Thing, Answers(what, things),
             what = "rows" => always \subseteq things /\ things \subseteq ever,
             what = "unavailable" => "cli" \notin installed \/ ending'.own,
             what = "unreachable" =>
                "cli" \in installed /\ (wasCut \/ ending'.says = "no file" \/ ending'.own),
             what = "missing" => report = "logs" /\ (Logged \notin always \/ ending'.own),
             what = "raised" => ending'.own
      PROVE  DockerInv'
  <2>1. dstage' = "done" /\ answer' = what /\ rows' = things /\ pending' = {}
    BY <1>6 DEF Answers
  <2>2. DockerTypeOK'
    BY <1>1, <1>6, <2>1 DEF DockerInv, DockerTypeOK
  <2>3. DockerCollects'
    BY <2>1 DEF DockerCollects
  <2>4. DockerIsTrue'
    BY <1>1, <1>6, <2>1 DEF DockerIsTrue
  <2> QED
    BY <2>2, <2>3, <2>4 DEF DockerInv
<1>7. /\ Probes(dstage) => ending' = ending
      /\ ending.own => report = "logs"
  BY DEF Probes, DockerInv, DockerIsTrue
<1>8. CASE CheckInstalled
  <2>1. ending' = ending
    BY <1>8 DEF CheckInstalled, Probes
  <2>2. CASE installed # {}
    BY <1>3, <1>4, <1>5, <1>8, <2>1, <2>2 DEF CheckInstalled, Probes, At
  <2>3. CASE installed = {}
    BY <1>4, <1>6, <1>7, <1>8, <2>1, <2>3 DEF CheckInstalled
  <2> QED
    BY <2>2, <2>3
<1>9. CASE FallsBack
  BY <1>5, <1>9 DEF FallsBack, Probes
<1>10. CASE SdkLists
  BY <1>2, <1>3, <1>5, <1>10 DEF SdkLists, Probes, At
<1>11. CASE SdkInspects
  BY <1>3, <1>4, <1>5, <1>11 DEF SdkInspects, Probes, At
<1>12. CASE SdkListed
  BY <1>3, <1>4, <1>6, <1>7, <1>12 DEF SdkListed, Probes, At
<1>13. CASE SdkDelivers
  BY <1>2, <1>3, <1>4, <1>6, <1>7, <1>13 DEF SdkDelivers, Probes
<1>14. CASE CliAnswers
  <2> DEFINE Things(what) == IF what = "rows" THEN Listed(report, state) ELSE {}
  <2>1. ending' \in Endings
    BY <1>14 DEF CliAnswers
  <2>2. PICK what \in Conclusions(ending') : Answers(what, Things(what))
    BY <1>14 DEF CliAnswers
  <2>3. ending' \in Ending /\ (ending'.own => report = "logs")
    BY <2>1, EndingsAreTrue DEF DockerInv
  <2>4. /\ what \in {"rows", "missing", "unavailable", "unreachable", "error", "raised"}
        /\ what = "unavailable" => "cli" \notin installed \/ ending'.own
        /\ what = "unreachable" =>
              "cli" \in installed /\ ("cli" \notin routes \/ ending'.says = "no file" \/ ending'.own)
        /\ what = "missing" => report = "logs" /\ (state[Logged] = "gone" \/ ending'.own)
        /\ what = "raised" => ending'.own
    BY <2>1, <2>2, EndingsAreTrue DEF DockerInv
  <2>5. report = "logs" /\ state[Logged] = "gone" => Logged \notin Listed(report, state)
    BY DEF Listed
  <2>6. Things(what) \in SUBSET Thing
    BY <1>2
  <2>7. what = "rows" => always \subseteq Things(what) /\ Things(what) \subseteq ever
    BY <1>3
  <2>8. what = "missing" => report = "logs" /\ (Logged \notin always \/ ending'.own)
    BY <1>3, <2>4, <2>5
  <2> HIDE DEF Things
  <2> QED
    BY <1>3, <1>6, <2>2, <2>3, <2>4, <2>6, <2>7, <2>8
<1> QED
  BY <1>8, <1>9, <1>10, <1>11, <1>12, <1>13, <1>14 DEF ProbesDocker

-----------------------------------------------------------------------------
(* The top of a ranking                                                    *)

\* Rows of different PIDs stand above one another in one order.
LEMMA AboveOrders ==
    ASSUME NEW x \in Row, NEW y \in Row, NEW z \in Row
    PROVE  /\ ~Above(x, x)
           /\ Above(x, y) /\ Above(y, z) => Above(x, z)
           /\ x.pid # y.pid => Above(x, y) \/ Above(y, x)
<1>1. x.share \in Nat /\ y.share \in Nat /\ z.share \in Nat
  BY DEF Row
<1>2. x.pid \in Int /\ y.pid \in Int /\ z.pid \in Int
  BY ProcessAssumption DEF Row, Pid
<1> QED
  BY <1>1, <1>2 DEF Above

\* A row is left out of the first Limit rows only if these are there, all of them
\* above it: the number of rows above a row is its place, no two rows have the
\* same place, and so the places are all taken.
LEMMA TopIsFull ==
    ASSUME NEW R \in SUBSET Row, IsFiniteSet(R),
           \A x, y \in R : x.pid = y.pid => x = y,
           NEW T, T = {r \in R : Cardinality({q \in R : Above(q, r)}) < Limit},
           NEW out \in R \ T
    PROVE  /\ Cardinality(T) = Limit
           /\ \A r \in T : Above(r, out)
<1> DEFINE Higher(r) == {q \in R : Above(q, r)}
           place == [r \in R |-> Cardinality(Higher(r))]
           n == Cardinality(R)
<1>1. \A r \in R : r \in Row
  OBVIOUS
<1>2. \A r \in R : IsFiniteSet(Higher(r)) /\ Cardinality(Higher(r)) \in Nat
  <2> TAKE r \in R
  <2>1. Higher(r) \in SUBSET R
    OBVIOUS
  <2>2. IsFiniteSet(Higher(r))
    BY <2>1, FS_Subset
  <2> QED
    BY <2>2, FS_CardinalityType
<1>3. n \in Nat /\ Limit \in Nat
  BY FS_CardinalityType, ProcessAssumption
<1>4. ASSUME NEW q \in R, NEW r \in R, Above(q, r)
      PROVE  Cardinality(Higher(q)) < Cardinality(Higher(r))
  <2>1. Higher(q) \subseteq Higher(r)
    BY <1>1, <1>4, AboveOrders
  <2>2. q \in Higher(r) /\ q \notin Higher(q)
    BY <1>1, <1>4, AboveOrders
  <2>3. /\ Cardinality(Higher(q)) <= Cardinality(Higher(r))
        /\ Cardinality(Higher(q)) # Cardinality(Higher(r))
    <3>1. Higher(q) \in SUBSET Higher(r)
      BY <2>1
    <3> QED
      BY <1>2, <2>2, <3>1, FS_Subset
  <2>4. Cardinality(Higher(q)) \in Nat /\ Cardinality(Higher(r)) \in Nat
    BY <1>2
  <2> HIDE DEF Higher
  <2> QED
    BY <2>3, <2>4
<1>5. \A r \in R : Cardinality(Higher(r)) < n
  <2> TAKE r \in R
  <2>1. Higher(r) \in SUBSET R /\ r \notin Higher(r)
    BY <1>1, AboveOrders
  <2>2. Cardinality(Higher(r)) <= n /\ Cardinality(Higher(r)) # n
    BY <2>1, FS_Subset
  <2>3. Cardinality(Higher(r)) \in Nat
    BY <1>2
  <2> HIDE DEF Higher, n
  <2> QED
    BY <1>3, <2>2, <2>3
<1>6. place \in Injection(R, 0..(n - 1))
  <2>1. place \in [R -> 0..(n - 1)]
    <3> SUFFICES ASSUME NEW r \in R
                 PROVE  Cardinality(Higher(r)) \in 0..(n - 1)
      OBVIOUS
    <3> HIDE DEF Higher, n
    <3> QED
      BY <1>2, <1>3, <1>5
  <2>2. ASSUME NEW q \in R, NEW r \in R, place[q] = place[r]
        PROVE  q = r
    <3>1. Cardinality(Higher(q)) = Cardinality(Higher(r))
      BY <2>2
    <3>2. ~Above(q, r) /\ ~Above(r, q)
      <4> HIDE DEF Higher
      <4> QED
        BY <1>2, <1>4, <3>1
    <3> QED
      BY <1>1, <3>2, AboveOrders
  <2> QED
    BY <2>1, <2>2 DEF Injection, IsInjective
<1>7. \A p \in 0..(n - 1) : \E r \in R : Cardinality(Higher(r)) = p
  <2>1. IsFiniteSet(0..(n - 1)) /\ Cardinality(0..(n - 1)) = n
    <3> HIDE DEF n
    <3> QED
      BY <1>3, FS_Interval
  <2>2. place \in Surjection(R, 0..(n - 1))
    <3> HIDE DEF place
    <3> QED
      BY <1>6, <2>1, FS_Injection
  <2> QED
    BY <2>2 DEF Surjection
<1>8. Limit <= Cardinality(Higher(out)) /\ Limit < n
  <2>1. ~(Cardinality(Higher(out)) < Limit)
    OBVIOUS
  <2> HIDE DEF Higher, n
  <2> QED
    BY <1>2, <1>3, <1>5, <2>1
<1>9. \A r \in T : r \in R /\ Cardinality(Higher(r)) < Limit
  OBVIOUS
<1>10. \A r \in R : Cardinality(Higher(r)) < Limit => r \in T
  OBVIOUS
<1>11. Cardinality(T) = Limit
  <2> DEFINE top == [r \in T |-> Cardinality(Higher(r))]
  <2>1. IsFiniteSet(0..(Limit - 1)) /\ Cardinality(0..(Limit - 1)) = Limit
    <3>1. Limit \in Nat
      BY <1>3
    <3> QED
      BY <3>1, FS_Interval
  <2>2. top \in [T -> 0..(Limit - 1)]
    <3> SUFFICES ASSUME NEW r \in T
                 PROVE  Cardinality(Higher(r)) \in 0..(Limit - 1)
      OBVIOUS
    <3> HIDE DEF Higher
    <3> QED
      BY <1>2, <1>3, <1>9
  <2>3. top \in Injection(T, 0..(Limit - 1))
    <3>1. \A q, r \in T : top[q] = top[r] => place[q] = place[r]
      BY <1>9
    <3>2. \A q, r \in T : place[q] = place[r] => q = r
      <4> HIDE DEF place
      <4> QED
        BY <1>6, <1>9 DEF Injection, IsInjective
    <3> HIDE DEF top, place
    <3> QED
      BY <2>2, <3>1, <3>2 DEF Injection, IsInjective
  <2>4. \A p \in 0..(Limit - 1) : \E r \in T : top[r] = p
    <3> TAKE p \in 0..(Limit - 1)
    <3>1. p \in 0..(n - 1) /\ p < Limit
      <4> HIDE DEF n
      <4> QED
        BY <1>3, <1>8
    <3>2. PICK r \in R : Cardinality(Higher(r)) = p
      BY <1>7, <3>1
    <3> QED
      BY <1>10, <3>1, <3>2
  <2>5. top \in Surjection(T, 0..(Limit - 1))
    BY <2>2, <2>4 DEF Surjection
  <2> HIDE DEF top
  <2> QED
    BY <2>1, <2>3, <2>5, FS_Injection
<1>12. \A r \in T : Above(r, out)
  <2> TAKE r \in T
  <2>1. r \in R /\ r # out /\ r.pid # out.pid
    BY <1>9
  <2>2. ~Above(out, r)
    <3>1. Cardinality(Higher(r)) < Limit
      BY <1>9
    <3> HIDE DEF Higher
    <3> QED
      BY <1>2, <1>3, <1>4, <1>8, <2>1, <3>1
  <2> QED
    BY <1>1, <2>1, <2>2, AboveOrders
<1> QED
  BY <1>11, <1>12

-----------------------------------------------------------------------------
(* Processes                                                               *)

ProcessInv ==
    /\ ProcessTypeOK /\ HoldersAreSeen /\ StagesFit /\ BoundIsHeld
    /\ RowsAreTrue /\ WalksLeaveNoneOut
    /\ ProcessesAreTrue /\ OnlyTheNamedIsKilled

LEMMA Numbers ==
    /\ MaxPid \in Nat /\ MaxBorn \in Nat /\ MaxPid <= MaxBorn
    /\ \A p \in Pid : p \in Nat /\ p <= MaxPid /\ p # None /\ p \in Process
    /\ \A n \in Process : n \in Nat /\ n # None /\ share[n] \in Nat
BY ProcessAssumption DEF Pid, Process, None

LEMMA SeenPairs ==
    ASSUME ProcessTypeOK, NEW q \in seen
    PROVE  /\ q[1] \in Pid /\ q[2] \in Process /\ q[2] # None /\ q[2] \in Nat
           /\ q = <<q[1], q[2]>>
<1>1. q \in Pid \X Process
  BY DEF ProcessTypeOK
<1> QED
  BY <1>1, Numbers

\* The PID that comes next is one.
LEMMA OneIsNext ==
    ASSUME ProcessTypeOK, NEW p \in todo, NEW r \in todo, IsNext(p), IsNext(r)
    PROVE  p = r
BY Numbers DEF IsNext, ProcessTypeOK

\* Before a command has an outcome there is nothing to be said of it.
LEMMA NothingToldYet ==
    ASSUME outcome = "none", killed = {}
    PROVE  ProcessesAreTrue /\ OnlyTheNamedIsKilled
BY DEF ProcessesAreTrue, OnlyTheNamedIsKilled

LEMMA NothingToldNext ==
    ASSUME outcome' = "none", killed' = {}
    PROVE  ProcessesAreTrue' /\ OnlyTheNamedIsKilled'
BY DEF ProcessesAreTrue, OnlyTheNamedIsKilled

LEMMA ProcessIdleInv ==
    ASSUME ProcessIdle
    PROVE  ProcessInv
<1>1. ProcessTypeOK
  BY Numbers DEF ProcessIdle, ProcessTypeOK
<1>2. HoldersAreSeen
  BY Numbers DEF ProcessIdle, HoldersAreSeen, None
<1>3. StagesFit /\ BoundIsHeld /\ RowsAreTrue
  BY DEF ProcessIdle, StagesFit, BoundIsHeld, RowsAreTrue, Walk, ByPid, Ranking
<1>4. WalksLeaveNoneOut
  BY DEF ProcessIdle, WalksLeaveNoneOut, Walk, Ranking
<1> QED
  BY <1>1, <1>2, <1>3, <1>4, NothingToldYet DEF ProcessInv, ProcessIdle

LEMMA ProcessRestsIdles ==
    ASSUME ProcessRests
    PROVE  ProcessIdle'
BY DEF ProcessRests, ProcessIdle

LEMMA AskProcessesInv ==
    ASSUME ProcessIdle, NEW w \in Walk \cup ByPid, NEW p \in Pid, AskProcesses(w, p)
    PROVE  ProcessInv'
<1>1. /\ holder' \in [Pid -> Process \cup {None}]
      /\ \A r \in Pid : holder'[r] \in {None, r}
      /\ walk' = w /\ wstage' = "walk" /\ seen' = Pairs'
      /\ todo' = IF w \in ByPid THEN {p} ELSE {r \in Pid : holder'[r] # None}
      /\ found' = {} /\ outcome' = "none" /\ bound' = None /\ killed' = {} /\ born' = MaxPid
  BY DEF AskProcesses, ProcessIdle, Worlds
<1>2. \A r \in Pid : holder'[r] # None => <<r, holder'[r]>> \in seen' /\ holder'[r] \in Process
  BY <1>1 DEF Pairs
<1>3. \A q \in seen' : q[1] \in Pid /\ holder'[q[1]] = q[2] /\ q[2] # None
  BY <1>1 DEF Pairs
<1>4. seen' \subseteq Pid \X Process
  BY <1>1 DEF Pairs
<1>5. ProcessTypeOK'
  BY <1>1, <1>4, Numbers DEF ProcessTypeOK
<1>6. HoldersAreSeen'
  BY <1>1, <1>2, Numbers DEF HoldersAreSeen, None
<1>7. StagesFit' /\ BoundIsHeld' /\ RowsAreTrue'
  BY <1>1 DEF StagesFit, BoundIsHeld, RowsAreTrue
<1>8. WalksLeaveNoneOut'
  <2> SUFFICES ASSUME w \in Walk
               PROVE  \A q \in Throughout' : q[1] \in todo'
    BY <1>1, FS_EmptySet DEF WalksLeaveNoneOut
  <2>1. todo' = {r \in Pid : holder'[r] # None}
    BY <1>1 DEF Walk, ByPid, Ranking
  <2> QED
    BY <1>3, <2>1 DEF Throughout
<1> QED
  BY <1>1, <1>5, <1>6, <1>7, <1>8, NothingToldNext DEF ProcessInv

\* Nobody comes to have been there throughout who was not.
LEMMA ThroughoutShrinks ==
    ASSUME ProcessTypeOK, HoldersAreSeen,
           \/ UNCHANGED <<holder, seen>>
           \/ seen' = seen /\ \E p \in Pid : holder' = [holder EXCEPT ![p] = None]
           \/ /\ seen' = seen \cup Pairs'
              /\ \E p \in Pid : holder' = [holder EXCEPT ![p] = born + 1]
    PROVE  /\ Throughout' \subseteq Throughout
           /\ UNCHANGED <<holder, seen>> => Throughout' = Throughout
           /\ \A q \in Throughout : /\ q[1] \in Pid /\ q[2] \in Process /\ q[2] # None
                                    /\ q[2] <= MaxPid /\ holder[q[1]] = q[2]
<1>1. UNCHANGED <<holder, seen>> => Throughout' = Throughout
  BY DEF Throughout
<1>2. ASSUME seen' = seen, \E p \in Pid : holder' = [holder EXCEPT ![p] = None]
      PROVE  Throughout' \subseteq Throughout
  <2> SUFFICES ASSUME NEW q \in seen, q[2] <= MaxPid, holder'[q[1]] = q[2]
               PROVE  holder[q[1]] = q[2]
    BY <1>2 DEF Throughout
  <2>1. q[1] \in Pid /\ q[2] # None
    BY SeenPairs
  <2> QED
    BY <1>2, <2>1 DEF ProcessTypeOK
<1>3. ASSUME seen' = seen \cup Pairs', \E p \in Pid : holder' = [holder EXCEPT ![p] = born + 1]
      PROVE  Throughout' \subseteq Throughout
  <2> SUFFICES ASSUME NEW q \in seen', q[2] <= MaxPid, holder'[q[1]] = q[2]
               PROVE  q \in seen /\ holder[q[1]] = q[2]
    BY DEF Throughout
  <2>1. PICK p \in Pid : holder' = [holder EXCEPT ![p] = born + 1]
    BY <1>3
  <2>2. q[1] \in Pid /\ q[2] # None /\ q = <<q[1], q[2]>>
    BY <1>3, SeenPairs DEF Pairs
  <2>3. born + 1 > MaxPid
    BY Numbers DEF HoldersAreSeen, ProcessTypeOK
  <2>4. q[1] # p
    <3>1. born + 1 \in Nat
      BY Numbers DEF ProcessTypeOK
    <3>2. q[1] = p => q[2] = born + 1
      BY <2>1 DEF ProcessTypeOK
    <3> QED
      BY <2>3, <3>1, <3>2, Numbers
  <2>5. holder[q[1]] = q[2]
    BY <2>1, <2>2, <2>4 DEF ProcessTypeOK
  <2> QED
    BY <2>2, <2>5 DEF HoldersAreSeen
<1>4. \A q \in Throughout : /\ q[1] \in Pid /\ q[2] \in Process /\ q[2] # None
                            /\ q[2] <= MaxPid /\ holder[q[1]] = q[2]
  BY SeenPairs DEF Throughout
<1> QED
  BY <1>1, <1>2, <1>3, <1>4

LEMMA ProcessEndsInv ==
    ASSUME ProcessInv, ProcessEnds
    PROVE  ProcessInv'
<1>1. PICK p \in Pid : holder[p] # None /\ holder' = [holder EXCEPT ![p] = None]
  BY DEF ProcessEnds
<1>2. /\ wstage # "done" /\ ProcessTypeOK /\ HoldersAreSeen
      /\ UNCHANGED <<born, walk, wstage, todo, found, outcome, seen, bound, killed>>
  BY DEF ProcessEnds, ProcessInv
<1>3. Throughout' \subseteq Throughout
  BY <1>1, <1>2, ThroughoutShrinks
<1>4. /\ holder' \in [Pid -> Process \cup {None}]
      /\ \A r \in Pid : holder'[r] = IF r = p THEN None ELSE holder[r]
  BY <1>1, <1>2 DEF ProcessTypeOK
<1>5. ProcessTypeOK'
  BY <1>2, <1>4 DEF ProcessTypeOK
<1>6. HoldersAreSeen'
  BY <1>2, <1>4, Numbers DEF HoldersAreSeen, ProcessTypeOK, None
<1>7. StagesFit' /\ RowsAreTrue'
  BY <1>2 DEF ProcessInv, StagesFit, RowsAreTrue
<1>8. BoundIsHeld'
  <2> SUFFICES ASSUME wstage \in {"again", "bound", "named"}
               PROVE  /\ bound # None
                      /\ \A r \in todo : IsNext(r) =>
                            /\ <<r, bound>> \in seen
                            /\ holder'[r] \in {bound, None} \cup {n \in Process : n > MaxPid}
                            /\ holder'[r] = bound /\ wstage = "named" => \A row \in found : row.process = bound
    BY <1>2 DEF BoundIsHeld, IsNext
  <2>1. todo \subseteq Pid
    BY <1>2 DEF ProcessTypeOK
  <2> QED
    BY <1>4, <2>1 DEF ProcessInv, BoundIsHeld
<1>9. WalksLeaveNoneOut'
  BY <1>2, <1>3 DEF ProcessInv, WalksLeaveNoneOut, HasRow
<1> QED
  BY <1>2, <1>5, <1>6, <1>7, <1>8, <1>9, NothingToldNext DEF ProcessInv, StagesFit

LEMMA ProcessBeginsInv ==
    ASSUME ProcessInv, ProcessBegins
    PROVE  ProcessInv'
<1>1. PICK p \in Pid : holder[p] = None /\ holder' = [holder EXCEPT ![p] = born + 1]
  BY DEF ProcessBegins
<1>2. /\ wstage # "done" /\ ProcessTypeOK /\ HoldersAreSeen
      /\ born < MaxBorn /\ born' = born + 1 /\ seen' = seen \cup Pairs'
      /\ UNCHANGED <<walk, wstage, todo, found, outcome, bound, killed>>
  BY DEF ProcessBegins, ProcessInv
<1>3. Throughout' \subseteq Throughout
  BY <1>1, <1>2, ThroughoutShrinks
<1>4. /\ born + 1 \in Process /\ born + 1 > MaxPid /\ born + 1 > born /\ born + 1 # None
      /\ born \in Nat /\ born + 1 <= MaxBorn
      /\ bound <= born /\ bound \in Nat
  BY <1>2, Numbers DEF ProcessTypeOK, HoldersAreSeen, Process, None
<1>5. /\ holder' \in [Pid -> Process \cup {None}]
      /\ \A r \in Pid : holder'[r] = IF r = p THEN born + 1 ELSE holder[r]
  BY <1>1, <1>2, <1>4 DEF ProcessTypeOK
<1>6. \A r \in Pid : holder'[r] # None => <<r, holder'[r]>> \in Pairs'
  BY DEF Pairs
<1>7. ProcessTypeOK'
  <2>1. Pairs' \subseteq Pid \X Process
    BY <1>5 DEF Pairs
  <2>2. seen' \subseteq Pid \X Process
    BY <1>2, <2>1 DEF ProcessTypeOK
  <2>3. born' \in 0..MaxBorn
    BY <1>2, <1>4, Numbers
  <2> QED
    BY <1>2, <1>5, <2>2, <2>3 DEF ProcessTypeOK
<1>8. HoldersAreSeen'
  <2>1. born' >= MaxPid /\ bound' <= born'
    BY <1>2, <1>4, Numbers
  <2>2. ASSUME NEW r \in Pid
        PROVE  holder'[r] <= born'
    <3>1. holder[r] <= born /\ holder[r] \in Process \cup {None}
      BY <1>2 DEF HoldersAreSeen, ProcessTypeOK
    <3>2. holder[r] \in Nat
      BY <3>1, Numbers DEF None
    <3> QED
      BY <1>2, <1>4, <1>5, <3>1, <3>2
  <2> QED
    BY <1>2, <1>6, <2>1, <2>2 DEF HoldersAreSeen
<1>9. StagesFit'
  BY <1>2 DEF ProcessInv, StagesFit
<1>10. RowsAreTrue'
  BY <1>2 DEF ProcessInv, RowsAreTrue
<1>11. BoundIsHeld'
  <2> SUFFICES ASSUME wstage \in {"again", "bound", "named"}
               PROVE  /\ bound # None
                      /\ \A r \in todo : IsNext(r) =>
                            /\ <<r, bound>> \in seen'
                            /\ holder'[r] \in {bound, None} \cup {n \in Process : n > MaxPid}
                            /\ holder'[r] = bound /\ wstage = "named" => \A row \in found : row.process = bound
    BY <1>2 DEF BoundIsHeld, IsNext
  <2>1. todo \subseteq Pid
    BY <1>2 DEF ProcessTypeOK
  <2>2. born + 1 # bound
    BY <1>4
  <2> QED
    BY <1>2, <1>4, <1>5, <2>1, <2>2 DEF ProcessInv, BoundIsHeld
<1>12. WalksLeaveNoneOut'
  BY <1>2, <1>3 DEF ProcessInv, WalksLeaveNoneOut, HasRow
<1> QED
  BY <1>2, <1>7, <1>8, <1>9, <1>10, <1>11, <1>12, NothingToldNext DEF ProcessInv, StagesFit

LEMMA SkipGoneInv ==
    ASSUME ProcessInv, SkipGone
    PROVE  ProcessInv'
<1>1. PICK p \in todo : IsNext(p) /\ Gone(p) /\ todo' = todo \ {p}
  BY DEF SkipGone
<1>2. /\ walk \in Walk /\ wstage = "walk" /\ ProcessTypeOK /\ HoldersAreSeen
      /\ UNCHANGED <<holder, born, walk, wstage, found, outcome, seen, bound, killed>>
  BY DEF SkipGone, ProcessInv
<1>3. Throughout' = Throughout /\ \A q \in Throughout : holder[q[1]] = q[2] /\ q[2] # None
  BY <1>2, ThroughoutShrinks
<1>4. walk \notin ByPid
  BY <1>2 DEF Walk, Ranking, ByPid
<1>5. ProcessTypeOK' /\ HoldersAreSeen'
  BY <1>1, <1>2 DEF ProcessTypeOK, HoldersAreSeen
<1>6. StagesFit' /\ BoundIsHeld' /\ RowsAreTrue'
  BY <1>2, <1>4 DEF ProcessInv, StagesFit, BoundIsHeld, RowsAreTrue
<1>7. WalksLeaveNoneOut'
  <2>1. \A q \in Throughout : q[1] # p
    BY <1>1, <1>3 DEF Gone
  <2> QED
    BY <1>1, <1>2, <1>3, <2>1 DEF ProcessInv, WalksLeaveNoneOut, HasRow
<1> QED
  BY <1>2, <1>5, <1>6, <1>7, NothingToldNext DEF ProcessInv, StagesFit

\* A row that is noted for the process that has the PID, or had it.
LEMMA NotedRow ==
    ASSUME ProcessInv, NEW p \in todo, NEW x \in Process, NEW s \in Nat, Noted(p, x, s),
           \A row \in found : row.pid \notin todo, IsFiniteSet(found),
           \A row, other \in found : row.pid = other.pid => row = other
    PROVE  /\ found' \subseteq Row /\ found \subseteq found'
           /\ \E row \in found' : row.pid = p /\ row.process = x /\ row.share = s
           /\ \A row \in found' : row \in found \/ (row.pid = p /\ row.process = x /\ row.share = s)
           /\ IsFiniteSet(found')
           /\ \A row, other \in found' : row.pid = other.pid => row = other
<1> DEFINE new == [pid |-> p, process |-> x, share |-> s]
<1>1. found' = found \cup {new}
  BY DEF Noted
<1>2. p \in Pid /\ found \subseteq Row
  BY DEF ProcessInv, ProcessTypeOK
<1>3. new \in Row /\ new.pid = p /\ new.process = x /\ new.share = s
  BY <1>2 DEF Row
<1>4. IsFiniteSet(found')
  BY <1>1, FS_AddElement
<1> HIDE DEF new
<1> QED
  BY <1>1, <1>2, <1>3, <1>4

LEMMA ReadOneInv ==
    ASSUME ProcessInv, ReadOne
    PROVE  ProcessInv'
<1>1. /\ walk \in Walk /\ wstage = "walk" /\ ProcessTypeOK /\ HoldersAreSeen
      /\ UNCHANGED <<holder, born, walk, outcome, seen, killed>>
  BY DEF ReadOne, ProcessInv
<1>2. PICK p \in todo :
         /\ IsNext(p) /\ ~Gone(p)
         /\ IF walk \in {"list", "search"}
            THEN /\ Noted(p, holder[p], 0)
                 /\ todo' = todo \ {p}
                 /\ UNCHANGED <<wstage, bound>>
            ELSE /\ bound' = holder[p]
                 /\ wstage' = "again"
                 /\ UNCHANGED <<found, todo>>
  BY DEF ReadOne
<1>3. p \in Pid /\ holder[p] \in Process /\ holder[p] # None /\ <<p, holder[p]>> \in seen
  BY <1>1, <1>2 DEF ProcessTypeOK, HoldersAreSeen, Gone
<1>4. Throughout' = Throughout /\ \A q \in Throughout : holder[q[1]] = q[2]
  BY <1>1, ThroughoutShrinks
<1>5. walk \notin ByPid
  BY <1>1 DEF Walk, Ranking, ByPid
<1>6. outcome' = "none" /\ killed' = {}
  BY <1>1 DEF ProcessInv, StagesFit
<1>7. /\ IsFiniteSet(found)
      /\ \A row, other \in found : row.pid = other.pid => row = other
      /\ \A row \in found : row.pid \notin todo
      /\ walk # "cpu" =>
            \A q \in Throughout :
               q[1] \in todo \/ HasRow(q) \/ (walk = "mem" /\ q[2] \in Hidden)
  BY <1>1 DEF ProcessInv, WalksLeaveNoneOut
<1>8. CASE walk \in {"list", "search"}
  <2>1. Noted(p, holder[p], 0) /\ todo' = todo \ {p} /\ UNCHANGED <<wstage, bound>>
    BY <1>2, <1>8
  <2>2. /\ found' \subseteq Row /\ found \subseteq found'
        /\ \E row \in found' : row.pid = p /\ row.process = holder[p] /\ row.share = 0
        /\ \A row \in found' : row \in found \/ (row.pid = p /\ row.process = holder[p] /\ row.share = 0)
        /\ IsFiniteSet(found')
        /\ \A row, other \in found' : row.pid = other.pid => row = other
    BY <1>3, <1>7, <2>1, NotedRow
  <2>3. ProcessTypeOK' /\ HoldersAreSeen'
    BY <1>1, <2>1, <2>2 DEF ProcessTypeOK, HoldersAreSeen
  <2>4. StagesFit' /\ BoundIsHeld'
    BY <1>1, <1>5, <1>6, <2>1 DEF StagesFit, BoundIsHeld
  <2>5. RowsAreTrue'
    BY <1>1, <1>3, <2>2 DEF ProcessInv, RowsAreTrue
  <2>6. WalksLeaveNoneOut'
    <3>1. \A q \in Throughout : HasRow(q) => HasRow(q)'
      BY <1>1, <2>2 DEF HasRow
    <3>2. \A q \in Throughout : q[1] = p => HasRow(q)'
      BY <1>1, <1>4, <1>8, <2>2 DEF HasRow
    <3>3. \A row \in found' : row.pid \notin todo'
      BY <1>7, <2>1, <2>2
    <3>4. \A q \in Throughout' : q[1] \in todo' \/ HasRow(q)'
      BY <1>4, <1>7, <1>8, <2>1, <3>1, <3>2
    <3> QED
      BY <2>2, <3>3, <3>4 DEF WalksLeaveNoneOut
  <2> QED
    BY <1>6, <2>3, <2>4, <2>5, <2>6, NothingToldNext DEF ProcessInv
<1>9. CASE walk \notin {"list", "search"}
  <2>1. bound' = holder[p] /\ wstage' = "again" /\ UNCHANGED <<found, todo>>
    BY <1>2, <1>9
  <2>2. walk \in Ranking \cup {"threads"}
    BY <1>1, <1>9 DEF Walk
  <2>3. ProcessTypeOK' /\ HoldersAreSeen'
    BY <1>1, <1>3, <2>1 DEF ProcessTypeOK, HoldersAreSeen
  <2>4. StagesFit' /\ RowsAreTrue'
    BY <1>1, <1>5, <1>6, <2>1, <2>2 DEF ProcessInv, StagesFit, RowsAreTrue
  <2>5. BoundIsHeld'
    <3>1. \A r \in todo : IsNext(r) => r = p
      BY <1>1, <1>2, OneIsNext
    <3> QED
      BY <1>1, <1>3, <2>1, <3>1 DEF BoundIsHeld, IsNext
  <2>6. WalksLeaveNoneOut'
    BY <1>1, <1>4, <1>7, <2>1 DEF WalksLeaveNoneOut, HasRow
  <2> QED
    BY <1>6, <2>3, <2>4, <2>5, <2>6, NothingToldNext DEF ProcessInv
<1> QED
  BY <1>8, <1>9

LEMMA ReadAgainInv ==
    ASSUME ProcessInv, ReadAgain
    PROVE  ProcessInv'
<1>1. /\ wstage = "again" /\ wstage' = "walk" /\ bound' = None
      /\ ProcessTypeOK /\ HoldersAreSeen
      /\ UNCHANGED <<holder, born, walk, outcome, seen, killed>>
  BY DEF ReadAgain, ProcessInv
<1>2. PICK p \in todo : /\ IsNext(p) /\ ~Unreadable(p)
                        /\ \E s \in Measured(holder[p]) : Noted(p, bound, s)
                        /\ todo' = todo \ {p}
  BY DEF ReadAgain
<1>3. PICK s \in Measured(holder[p]) : Noted(p, bound, s)
  BY <1>2
<1>4. p \in Pid /\ holder[p] \in Process /\ holder[p] # None /\ <<p, holder[p]>> \in seen
  BY <1>1, <1>2 DEF ProcessTypeOK, HoldersAreSeen, Unreadable, Gone
<1>5. /\ bound \in Process /\ <<p, bound>> \in seen
      /\ holder[p] = bound \/ holder[p] > MaxPid
  BY <1>1, <1>2, <1>4 DEF ProcessInv, BoundIsHeld, ProcessTypeOK
<1>6. /\ s \in Nat /\ s \in {0, share[holder[p]]}
      /\ walk = "mem" => s = share[holder[p]]
  BY <1>3, <1>4, Numbers DEF Measured
<1>7. walk \in {"cpu", "mem", "threads"} /\ walk \in Walk /\ walk \notin ByPid
  BY <1>1 DEF ProcessInv, StagesFit, Ranking, Walk, ByPid
<1>8. outcome' = "none" /\ killed' = {}
  BY <1>1 DEF ProcessInv, StagesFit
<1>9. /\ IsFiniteSet(found)
      /\ \A row, other \in found : row.pid = other.pid => row = other
      /\ \A row \in found : row.pid \notin todo
      /\ walk # "cpu" =>
            \A q \in Throughout :
               q[1] \in todo \/ HasRow(q) \/ (walk = "mem" /\ q[2] \in Hidden)
  BY <1>1, <1>7 DEF ProcessInv, WalksLeaveNoneOut
<1>10. /\ Throughout' = Throughout
       /\ \A q \in Throughout : holder[q[1]] = q[2] /\ q[2] <= MaxPid /\ q[2] \in Process
  BY <1>1, ThroughoutShrinks
<1>11. /\ found' \subseteq Row /\ found \subseteq found'
       /\ \E row \in found' : row.pid = p /\ row.process = bound /\ row.share = s
       /\ \A row \in found' : row \in found \/ (row.pid = p /\ row.process = bound /\ row.share = s)
       /\ IsFiniteSet(found')
       /\ \A row, other \in found' : row.pid = other.pid => row = other
  BY <1>3, <1>5, <1>6, <1>9, NotedRow
<1>12. ProcessTypeOK'
  BY <1>1, <1>2, <1>11 DEF ProcessTypeOK
<1>13. HoldersAreSeen'
  BY <1>1, Numbers DEF HoldersAreSeen, ProcessTypeOK, None
<1>14. StagesFit' /\ BoundIsHeld'
  BY <1>1, <1>7, <1>8 DEF StagesFit, BoundIsHeld
<1>15. RowsAreTrue'
  <2>1. s # 0 => \E q \in seen : q[1] = p /\ share[q[2]] = s
    <3>1. <<p, holder[p]>>[1] = p /\ <<p, holder[p]>>[2] = holder[p]
      OBVIOUS
    <3> QED
      BY <1>4, <1>6, <3>1
  <2> QED
    BY <1>1, <1>5, <1>11, <2>1 DEF ProcessInv, RowsAreTrue
<1>16. WalksLeaveNoneOut'
  <2> SUFFICES ASSUME walk # "cpu"
               PROVE  \A q \in Throughout' : q[1] \in todo' \/ HasRow(q)' \/ (walk = "mem" /\ q[2] \in Hidden)
    BY <1>1, <1>2, <1>9, <1>11 DEF WalksLeaveNoneOut
  <2>1. \A q \in Throughout : HasRow(q) => HasRow(q)'
    BY <1>1, <1>11 DEF HasRow
  <2>2. ASSUME NEW q \in Throughout, q[1] = p
        PROVE  HasRow(q)'
    <3>1. holder[p] = q[2] /\ q[2] = bound
      <4>1. holder[p] = q[2] /\ q[2] <= MaxPid /\ q[2] \in Nat
        BY <1>10, <2>2, Numbers
      <4>2. ~(holder[p] > MaxPid)
        BY <4>1, Numbers
      <4> QED
        BY <1>5, <4>1, <4>2
    <3> QED
      BY <1>1, <1>6, <1>7, <1>11, <2>2, <3>1 DEF HasRow
  <2> QED
    BY <1>2, <1>9, <1>10, <2>1, <2>2
<1> QED
  BY <1>8, <1>12, <1>13, <1>14, <1>15, <1>16, NothingToldNext DEF ProcessInv

\* A process that could not be read again was not there throughout, or is hidden.
LEMMA GoneAgainInv ==
    ASSUME ProcessInv, GoneAgain
    PROVE  ProcessInv'
<1>1. /\ wstage = "again" /\ ProcessTypeOK /\ HoldersAreSeen
      /\ outcome = "none" /\ killed = {}
  BY DEF GoneAgain, ProcessInv, StagesFit
<1>2. PICK p \in todo : IsNext(p) /\ Unreadable(p) /\ Misses(todo \ {p})
  BY DEF GoneAgain
<1>3. /\ todo' = todo \ {p} /\ bound' = None
      /\ IF walk = "threads" THEN outcome' = "error" /\ wstage' = "done"
                             ELSE wstage' = "walk" /\ outcome' = "none"
      /\ UNCHANGED <<holder, born, walk, found, seen, killed>>
  BY <1>1, <1>2 DEF Misses, Tells
<1>4. /\ Throughout' = Throughout
      /\ \A q \in Throughout : holder[q[1]] = q[2] /\ q[2] # None
  BY <1>3, <1>1, ThroughoutShrinks
<1>5. walk \in Walk /\ walk \notin ByPid
  BY <1>1 DEF ProcessInv, StagesFit, Ranking, Walk, ByPid
<1>6. ProcessTypeOK'
  BY <1>1, <1>3 DEF ProcessTypeOK
<1>7. HoldersAreSeen'
  BY <1>1, <1>3, Numbers DEF HoldersAreSeen, ProcessTypeOK, None
<1>8. RowsAreTrue' /\ BoundIsHeld'
  BY <1>3 DEF ProcessInv, RowsAreTrue, BoundIsHeld
<1>9. CASE walk = "threads"
  <2>1. outcome' = "error" /\ wstage' = "done"
    BY <1>3, <1>9
  <2>2. StagesFit' /\ WalksLeaveNoneOut'
    BY <1>3, <1>5, <2>1 DEF StagesFit, WalksLeaveNoneOut
  <2>3. \E q \in seen : q \notin Throughout \/ q[2] \in Hidden
    <3>1. CASE Gone(p)
      <4>1. <<p, bound>> \in seen /\ <<p, bound>>[1] = p /\ <<p, bound>>[2] = bound /\ bound # None
        BY <1>1, <1>2 DEF ProcessInv, BoundIsHeld
      <4>2. <<p, bound>> \notin Throughout
        BY <3>1, <4>1 DEF Throughout, Gone
      <4> QED
        BY <4>1, <4>2
    <3>2. CASE ~Gone(p) /\ holder[p] \in Hidden
      <4>1. <<p, holder[p]>> \in seen /\ <<p, holder[p]>>[2] = holder[p]
        BY <1>1, <3>2 DEF ProcessTypeOK, HoldersAreSeen, Gone
      <4> QED
        BY <3>2, <4>1
    <3> QED
      BY <1>2, <3>1, <3>2 DEF Unreadable
  <2>4. ProcessesAreTrue' /\ OnlyTheNamedIsKilled'
    BY <1>1, <1>3, <1>4, <2>1, <2>3 DEF ProcessesAreTrue, OnlyTheNamedIsKilled
  <2> QED
    BY <1>6, <1>7, <1>8, <2>2, <2>4 DEF ProcessInv
<1>10. CASE walk # "threads"
  <2>1. outcome' = "none" /\ wstage' = "walk"
    BY <1>3, <1>10
  <2>2. StagesFit'
    BY <1>1, <1>3, <1>5, <2>1 DEF StagesFit
  <2>3. \A q \in Throughout : walk = "mem" /\ q[1] = p => q[2] \in Hidden
    BY <1>2, <1>4 DEF Unreadable, Gone
  <2>4. walk \in {"cpu", "mem"}
    BY <1>1, <1>10 DEF ProcessInv, StagesFit, Ranking
  <2>5. WalksLeaveNoneOut'
    <3>1. /\ IsFiniteSet(found)
          /\ \A row, other \in found : row.pid = other.pid => row = other
          /\ \A row \in found : row.pid \notin todo
          /\ walk # "cpu" =>
                \A q \in Throughout :
                   q[1] \in todo \/ HasRow(q) \/ (walk = "mem" /\ q[2] \in Hidden)
      BY <1>1, <1>5 DEF ProcessInv, WalksLeaveNoneOut
    <3>2. \A q : HasRow(q)' <=> HasRow(q)
      BY <1>3 DEF HasRow
    <3> QED
      BY <1>3, <1>4, <2>3, <2>4, <3>1, <3>2 DEF WalksLeaveNoneOut
  <2> QED
    BY <1>1, <1>3, <1>6, <1>7, <1>8, <2>1, <2>2, <2>5, NothingToldNext DEF ProcessInv
<1> QED
  BY <1>9, <1>10

LEMMA WalkEndsInv ==
    ASSUME ProcessInv, WalkEnds
    PROVE  ProcessInv'
<1>1. /\ walk \in Walk /\ wstage = "walk" /\ todo = {} /\ found' = Shown(found)
      /\ outcome' = "rows" /\ wstage' = "done"
      /\ ProcessTypeOK /\ HoldersAreSeen /\ RowsAreTrue /\ killed = {}
      /\ UNCHANGED <<holder, born, walk, todo, seen, bound, killed>>
  BY DEF WalkEnds, Tells, ProcessInv, StagesFit
<1>2. found' \subseteq found
  BY <1>1 DEF Shown
<1>3. walk \notin ByPid
  BY <1>1 DEF Walk, Ranking, ByPid
<1>4. Throughout' = Throughout
  BY <1>1, ThroughoutShrinks
<1>5. ProcessTypeOK' /\ HoldersAreSeen'
  BY <1>1, <1>2 DEF ProcessTypeOK, HoldersAreSeen
<1>6. StagesFit' /\ BoundIsHeld' /\ WalksLeaveNoneOut'
  BY <1>1, <1>3 DEF StagesFit, BoundIsHeld, WalksLeaveNoneOut
<1>7. RowsAreTrue'
  BY <1>1, <1>2 DEF RowsAreTrue
<1>8. OnlyTheNamedIsKilled'
  BY <1>1 DEF OnlyTheNamedIsKilled
<1>9. ASSUME walk # "cpu", NEW q \in Throughout
      PROVE  \/ \E row \in found' : row.pid = q[1] /\ row.process = q[2]
             \/ walk = "mem" /\ q[2] \in Hidden
             \/ /\ Cardinality(found') = Limit
                /\ \A row \in found' :
                      Above(row, [pid |-> q[1], share |-> IF walk = "mem" THEN share[q[2]] ELSE 0])
  <2>1. \/ HasRow(q)
        \/ walk = "mem" /\ q[2] \in Hidden
    BY <1>1, <1>9 DEF ProcessInv, WalksLeaveNoneOut
  <2>2. CASE HasRow(q)
    <3>1. PICK row \in found :
             /\ row.pid = q[1] /\ row.process = q[2]
             /\ walk # "threads" => row.share = IF walk = "mem" THEN share[q[2]] ELSE 0
      BY <2>2 DEF HasRow
    <3>2. CASE row \in found'
      BY <3>1, <3>2
    <3>3. CASE row \notin found'
      <4>1. /\ walk \notin {"search", "threads"}
            /\ found' = {r \in found : Cardinality({o \in found : Above(o, r)}) < Limit}
        BY <1>1, <3>3 DEF Shown
      <4>2. /\ found \in SUBSET Row /\ IsFiniteSet(found)
            /\ \A x, y \in found : x.pid = y.pid => x = y
        BY <1>1 DEF ProcessInv, ProcessTypeOK, WalksLeaveNoneOut
      <4>3. Cardinality(found') = Limit /\ \A r \in found' : Above(r, row)
        BY <3>3, <4>1, <4>2, TopIsFull
      <4>4. \A r : Above(r, row) <=>
                   Above(r, [pid |-> q[1], share |-> IF walk = "mem" THEN share[q[2]] ELSE 0])
        BY <3>1, <4>1 DEF Above
      <4> QED
        BY <4>3, <4>4
    <3> QED
      BY <3>2, <3>3
  <2> QED
    BY <2>1, <2>2
<1>10. ProcessesAreTrue'
  BY <1>1, <1>4, <1>7, <1>9 DEF ProcessesAreTrue, RowsAreTrue, Above
<1> QED
  BY <1>5, <1>6, <1>7, <1>8, <1>10 DEF ProcessInv

\* A command on one PID has that one to look at all along.
LEMMA ByPidHasOne ==
    ASSUME ProcessInv, wstage # "idle", walk \in ByPid
    PROVE  \E p \in Pid : todo = {p} /\ IsNext(p) /\ (holder[p] # None => holder[p] \in Process)
<1>1. PICK p \in Pid : todo = {p}
  BY DEF ProcessInv, StagesFit
<1>2. IsNext(p)
  BY <1>1, Numbers DEF IsNext
<1> QED
  BY <1>1, <1>2 DEF ProcessInv, ProcessTypeOK

LEMMA BindInv ==
    ASSUME ProcessInv, Bind
    PROVE  ProcessInv'
<1>1. /\ walk \in ByPid /\ wstage = "walk" /\ ProcessTypeOK /\ HoldersAreSeen
      /\ outcome = "none" /\ killed = {} /\ found = {} /\ walk \notin Walk
      /\ UNCHANGED <<holder, born, walk, todo, found, seen, killed>>
  BY DEF Bind, ProcessInv, StagesFit, ByPid, Walk, Ranking
<1>2. PICK p \in Pid : todo = {p} /\ IsNext(p) /\ (holder[p] # None => holder[p] \in Process)
  BY <1>1, ByPidHasOne
<1>3. /\ Throughout' = Throughout
      /\ \A q \in Throughout : holder[q[1]] = q[2] /\ q[2] # None
  BY <1>1, ThroughoutShrinks
<1>4. RowsAreTrue' /\ WalksLeaveNoneOut'
  BY <1>1 DEF RowsAreTrue, WalksLeaveNoneOut
<1>5. CASE Gone(p)
  <2>1. outcome' = "missing" /\ wstage' = "done" /\ bound' = bound
    BY <1>2, <1>5 DEF Bind, Tells
  <2>2. ProcessTypeOK' /\ HoldersAreSeen'
    BY <1>1, <2>1 DEF ProcessTypeOK, HoldersAreSeen
  <2>3. StagesFit' /\ BoundIsHeld'
    BY <1>1, <1>2, <2>1 DEF StagesFit, BoundIsHeld
  <2>4. ProcessesAreTrue' /\ OnlyTheNamedIsKilled'
    BY <1>1, <1>2, <1>3, <1>5, <2>1 DEF ProcessesAreTrue, OnlyTheNamedIsKilled, Gone
  <2> QED
    BY <1>4, <2>2, <2>3, <2>4 DEF ProcessInv
<1>6. CASE ~Gone(p)
  <2>1. outcome' = "none" /\ wstage' = "bound" /\ bound' = holder[p]
    BY <1>1, <1>2, <1>6 DEF Bind
  <2>2. holder[p] # None /\ holder[p] \in Process /\ <<p, holder[p]>> \in seen /\ holder[p] <= born
    BY <1>1, <1>2, <1>6 DEF HoldersAreSeen, Gone
  <2>3. ProcessTypeOK' /\ HoldersAreSeen'
    BY <1>1, <2>1, <2>2 DEF ProcessTypeOK, HoldersAreSeen
  <2>4. StagesFit' /\ BoundIsHeld'
    BY <1>1, <1>2, <2>1, <2>2 DEF StagesFit, BoundIsHeld
  <2> QED
    BY <1>1, <1>4, <2>1, <2>3, <2>4, NothingToldNext DEF ProcessInv
<1> QED
  BY <1>5, <1>6

LEMMA ReadNameInv ==
    ASSUME ProcessInv, ReadName
    PROVE  ProcessInv'
<1>1. /\ wstage = "bound" /\ walk \in ByPid /\ walk \notin Walk /\ ProcessTypeOK /\ HoldersAreSeen
      /\ outcome = "none" /\ killed = {} /\ RowsAreTrue
      /\ UNCHANGED <<holder, born, walk, todo, seen, bound, killed>>
  BY DEF ReadName, ProcessInv, StagesFit, ByPid, Walk, Ranking
<1>2. PICK p \in Pid : todo = {p} /\ IsNext(p) /\ (holder[p] # None => holder[p] \in Process)
  BY <1>1, ByPidHasOne
<1>3. IF Gone(p)
      THEN Tells("missing") /\ UNCHANGED found
      ELSE /\ found' = {[pid |-> p, process |-> holder[p], share |-> 0]}
           /\ IF walk = "info" THEN Tells("details")
                               ELSE wstage' = "named" /\ UNCHANGED outcome
  BY <1>2 DEF ReadName
<1>4. /\ Throughout' = Throughout
      /\ \A q \in Throughout : holder[q[1]] = q[2] /\ q[2] # None
  BY <1>1, ThroughoutShrinks
<1>5. HoldersAreSeen' /\ WalksLeaveNoneOut'
  BY <1>1 DEF HoldersAreSeen, WalksLeaveNoneOut
<1>6. CASE Gone(p)
  <2>1. outcome' = "missing" /\ wstage' = "done" /\ found' = found
    BY <1>3, <1>6 DEF Tells
  <2>2. ProcessTypeOK' /\ RowsAreTrue'
    BY <1>1, <2>1 DEF ProcessTypeOK, RowsAreTrue
  <2>3. StagesFit' /\ BoundIsHeld'
    BY <1>1, <1>2, <2>1 DEF StagesFit, BoundIsHeld
  <2>4. ProcessesAreTrue' /\ OnlyTheNamedIsKilled'
    BY <1>1, <1>2, <1>4, <1>6, <2>1 DEF ProcessesAreTrue, OnlyTheNamedIsKilled, Gone
  <2> QED
    BY <1>5, <2>2, <2>3, <2>4 DEF ProcessInv
<1>7. CASE ~Gone(p)
  <2>1. /\ \A row \in found' : row.pid = p /\ row.process = holder[p] /\ row.share = 0
        /\ found' \subseteq Row
    BY <1>2, <1>3, <1>7 DEF Row, Gone
  <2>2. holder[p] # None /\ holder[p] \in Process /\ <<p, holder[p]>> \in seen
    BY <1>1, <1>2, <1>7 DEF HoldersAreSeen, Gone
  <2>3. \/ wstage' = "done" /\ outcome' = "details"
        \/ walk = "kill" /\ wstage' = "named" /\ outcome' = "none"
    BY <1>1, <1>3, <1>7 DEF Tells, ByPid
  <2>4. ProcessTypeOK'
    BY <1>1, <2>1, <2>3 DEF ProcessTypeOK
  <2>5. RowsAreTrue'
    BY <1>1, <2>1, <2>2 DEF RowsAreTrue
  <2>6. StagesFit'
    BY <1>1, <1>2, <2>3 DEF StagesFit
  <2>7. BoundIsHeld'
    <3>1. bound # None /\ <<p, bound>> \in seen
          /\ holder[p] \in {bound, None} \cup {n \in Process : n > MaxPid}
      BY <1>1, <1>2 DEF ProcessInv, BoundIsHeld
    <3> QED
      BY <1>1, <1>2, <2>1, <3>1 DEF BoundIsHeld
  <2>8. ProcessesAreTrue' /\ OnlyTheNamedIsKilled'
    BY <1>1, <2>1, <2>2, <2>3 DEF ProcessesAreTrue, OnlyTheNamedIsKilled
  <2> QED
    BY <1>5, <2>4, <2>5, <2>6, <2>7, <2>8 DEF ProcessInv
<1> QED
  BY <1>6, <1>7

LEMMA DeniedInv ==
    ASSUME ProcessInv, Denied
    PROVE  ProcessInv'
<1>1. /\ walk \in ByPid /\ walk \notin Walk /\ wstage \in {"bound", "named"} /\ killed = {}
      /\ outcome' = "denied" /\ wstage' = "done"
      /\ UNCHANGED <<holder, born, walk, todo, found, seen, bound, killed>>
  BY DEF Denied, Tells, ProcessInv, StagesFit, ByPid, Walk, Ranking
<1>2. ProcessTypeOK' /\ HoldersAreSeen' /\ RowsAreTrue' /\ WalksLeaveNoneOut'
  BY <1>1 DEF ProcessInv, ProcessTypeOK, HoldersAreSeen, RowsAreTrue, WalksLeaveNoneOut
<1>3. StagesFit' /\ BoundIsHeld'
  BY <1>1 DEF ProcessInv, StagesFit, BoundIsHeld
<1>4. ProcessesAreTrue' /\ OnlyTheNamedIsKilled'
  BY <1>1 DEF ProcessesAreTrue, OnlyTheNamedIsKilled
<1> QED
  BY <1>2, <1>3, <1>4 DEF ProcessInv

\* The signal is sent only while the PID is still that of the process it was
\* looked up for, and then the name that was read is that process's.
LEMMA TerminateInv ==
    ASSUME ProcessInv, Terminate
    PROVE  ProcessInv'
<1>1. /\ wstage = "named" /\ walk = "kill" /\ walk \in ByPid /\ walk \notin Walk
      /\ ProcessTypeOK /\ HoldersAreSeen /\ RowsAreTrue /\ killed = {}
      /\ UNCHANGED <<born, walk, todo, found, seen, bound>>
  BY DEF Terminate, ProcessInv, StagesFit, ByPid, Walk, Ranking
<1>2. PICK p \in Pid : todo = {p} /\ IsNext(p)
  BY <1>1, ByPidHasOne
<1>3. IF holder[p] = bound
      THEN Tells("killed") /\ killed' = {bound} /\ holder' = [holder EXCEPT ![p] = None]
      ELSE Tells("missing") /\ UNCHANGED <<killed, holder>>
  BY <1>2 DEF Terminate
<1>4. /\ bound # None /\ bound \in Process /\ <<p, bound>> \in seen
      /\ holder[p] \in {bound, None} \cup {n \in Process : n > MaxPid}
      /\ holder[p] = bound => \A row \in found : row.process = bound
  BY <1>1, <1>2 DEF ProcessInv, BoundIsHeld, ProcessTypeOK
<1>5. wstage' = "done"
  BY <1>3 DEF Tells
<1>6. RowsAreTrue' /\ WalksLeaveNoneOut' /\ BoundIsHeld'
  BY <1>1, <1>5 DEF RowsAreTrue, WalksLeaveNoneOut, BoundIsHeld
<1>7. StagesFit'
  BY <1>1, <1>2, <1>5 DEF StagesFit
<1>8. CASE holder[p] = bound
  <2>1. outcome' = "killed" /\ killed' = {bound} /\ holder' = [holder EXCEPT ![p] = None]
    BY <1>3, <1>8 DEF Tells
  <2>2. /\ holder' \in [Pid -> Process \cup {None}]
        /\ \A r \in Pid : holder'[r] = IF r = p THEN None ELSE holder[r]
    BY <1>1, <2>1 DEF ProcessTypeOK
  <2>3. ProcessTypeOK'
    BY <1>1, <1>4, <1>5, <2>1, <2>2 DEF ProcessTypeOK
  <2>4. HoldersAreSeen'
    BY <1>1, <2>2, Numbers DEF HoldersAreSeen, ProcessTypeOK, None
  <2>5. ProcessesAreTrue'
    BY <2>1 DEF ProcessesAreTrue
  <2>6. OnlyTheNamedIsKilled'
    BY <1>1, <1>2, <1>4, <1>8, <2>1 DEF OnlyTheNamedIsKilled
  <2> QED
    BY <1>6, <1>7, <2>3, <2>4, <2>5, <2>6 DEF ProcessInv
<1>9. CASE holder[p] # bound
  <2>1. outcome' = "missing" /\ UNCHANGED <<killed, holder>>
    BY <1>3, <1>9 DEF Tells
  <2>2. ProcessTypeOK' /\ HoldersAreSeen'
    BY <1>1, <1>5, <2>1 DEF ProcessTypeOK, HoldersAreSeen
  <2>3. \A q \in Throughout' : q[1] # p
    <3>1. /\ Throughout' = Throughout
          /\ \A q \in Throughout : holder[q[1]] = q[2] /\ q[2] # None /\ q[2] <= MaxPid /\ q[2] \in Process
      BY <1>1, <2>1, ThroughoutShrinks
    <3>2. ASSUME NEW q \in Throughout, q[1] = p
          PROVE  FALSE
      <4>1. q[2] \in Nat /\ q[2] <= MaxPid /\ holder[p] = q[2] /\ holder[p] # None
        BY <3>1, <3>2, Numbers
      <4>2. holder[p] > MaxPid
        BY <1>4, <1>9, <4>1
      <4> QED
        BY <4>1, <4>2, Numbers
    <3> QED
      BY <3>1, <3>2
  <2>4. ProcessesAreTrue' /\ OnlyTheNamedIsKilled'
    BY <1>1, <1>2, <2>1, <2>3 DEF ProcessesAreTrue, OnlyTheNamedIsKilled
  <2> QED
    BY <1>6, <1>7, <2>2, <2>4 DEF ProcessInv
<1> QED
  BY <1>8, <1>9

LEMMA ProcessStepInv ==
    ASSUME ProcessInv, ProcessNext
    PROVE  ProcessInv'
BY ProcessEndsInv, ProcessBeginsInv, SkipGoneInv, ReadOneInv, ReadAgainInv, GoneAgainInv,
   WalkEndsInv, BindInv, ReadNameInv, DeniedInv, TerminateInv
   DEF ProcessNext, ProbesProcesses

-----------------------------------------------------------------------------
(* The session                                                             *)

\* A part that a step leaves alone keeps its invariant, and rests if it did.
LEMMA RegistryStays ==
    ASSUME RegistryInv, UNCHANGED registryVars
    PROVE  /\ RegistryInv' /\ (Discovering' <=> Discovering)
           /\ CommandsFindTheirWay /\ UNCHANGED <<consoleVars, answer>> => CommandsFindTheirWay'
<1>1. UNCHANGED <<turn, stage, registry, metric, broken, tooLate>>
  BY DEF registryVars
<1>2. RegistryTypeOK'
  BY <1>1 DEF RegistryInv, RegistryTypeOK
<1>3. \A i \in DOMAIN modules, part \in Part : Past(i, part)' <=> Past(i, part)
  BY <1>1 DEF Past
<1>4. RegistryIsFilled'
  BY <1>1, <1>3, FilledStays
<1>5. EngineIsFilled'
  BY <1>1, <1>3 DEF RegistryInv, EngineIsFilled, EngineLoaded, Discovering, Part
<1>6. CommandsFindTheirWay /\ UNCHANGED <<consoleVars, answer>> => CommandsFindTheirWay'
  BY <1>1 DEF CommandsFindTheirWay, consoleVars, Offering
<1> QED
  BY <1>1, <1>2, <1>4, <1>5, <1>6 DEF RegistryInv, Discovering

LEMMA DockerStays ==
    ASSUME DockerInv, UNCHANGED dockerVars
    PROVE  /\ DockerInv' /\ (DockerIdle' <=> DockerIdle)
           /\ UNCHANGED <<report, answer>>
<1>1. UNCHANGED <<installed, routes, state, report, dstage, pending, rows, answer,
                  ending, always, ever, wasCut, changes>>
  BY DEF dockerVars
<1>2. Listed(report, state)' = Listed(report, state)
  BY <1>1 DEF Listed
<1>3. DockerTypeOK' /\ DockerCollects' /\ DockerIsTrue'
  BY <1>1, <1>2 DEF DockerInv, DockerTypeOK, DockerCollects, DockerIsTrue
<1> QED
  BY <1>1, <1>3 DEF DockerInv, DockerIdle, NoThings

LEMMA ProcessStays ==
    ASSUME ProcessInv, UNCHANGED processVars
    PROVE  ProcessInv' /\ (ProcessIdle' <=> ProcessIdle)
<1>1. UNCHANGED <<holder, born, walk, wstage, todo, found, outcome, seen, bound, killed>>
  BY DEF processVars
<1>2. Throughout' = Throughout /\ (\A q : HasRow(q)' <=> HasRow(q)) /\ (\A p : IsNext(p)' <=> IsNext(p))
  BY <1>1 DEF Throughout, HasRow, IsNext
<1>3. ProcessTypeOK' /\ HoldersAreSeen' /\ StagesFit' /\ RowsAreTrue'
  BY <1>1 DEF ProcessInv, ProcessTypeOK, HoldersAreSeen, StagesFit, RowsAreTrue
<1>4. BoundIsHeld' /\ WalksLeaveNoneOut'
  BY <1>1, <1>2 DEF ProcessInv, BoundIsHeld, WalksLeaveNoneOut
<1>5. ProcessesAreTrue' /\ OnlyTheNamedIsKilled'
  BY <1>1, <1>2 DEF ProcessInv, ProcessesAreTrue, OnlyTheNamedIsKilled, Above
<1> QED
  BY <1>1, <1>3, <1>4, <1>5 DEF ProcessInv, ProcessIdle

Namespaces == {"cpu", "mem", "disk", "gpu", "proc", "net", "system", "sensor", "service", "utility"}

\* What the commands that are nothing but a method come to.
LEMMA HostOutcomes ==
    /\ DOMAIN HostCommands = Namespaces
    /\ \A c \in Command : Outcomes(c) \subseteq {"text", "parse error", "error"}
BY DEF HostCommands, Namespaces, Outcomes

\* No command is none.
LEMMA CommandForms ==
    ASSUME NEW c \in Command
    PROVE  c[1] # "none" /\ c # Nothing
<1>1. CASE c \in {<<ns, word>> : ns \in {"?"}, word \in {"?"}}
  BY <1>1 DEF Nothing
<1>2. CASE c \in UNION {{<<ns, word>> : word \in HostCommands[ns]} : ns \in DOMAIN HostCommands}
  <2>1. PICK ns \in DOMAIN HostCommands : c \in {<<ns, word>> : word \in HostCommands[ns]}
    BY <1>2
  <2>2. PICK word \in HostCommands[ns] : c = <<ns, word>>
    BY <2>1
  <2>3. ns \in Namespaces
    BY HostOutcomes
  <2>4. ns # "none"
    BY <2>3 DEF Namespaces
  <2> QED
    BY <2>2, <2>4 DEF Nothing
<1>3. CASE c \in {<<"docker", r>> : r \in Reports \ {"count"}}
  BY <1>3 DEF Nothing
<1>4. CASE c \in {<<"check", r>> : r \in Reports \cap {"count"}}
  BY <1>4 DEF Nothing
<1>5. CASE c \in {<<"walk", w>> : w \in Walks}
  BY <1>5 DEF Nothing
<1>6. CASE c \in {<<"ec2", word>> : word \in Ec2}
  BY <1>6 DEF Nothing
<1> QED
  BY <1>1, <1>2, <1>3, <1>4, <1>5, <1>6 DEF Command

ConsoleInv ==
    /\ RegistryInv /\ DockerInv /\ ProcessInv
    /\ ConsoleTypeOK /\ AtRest
    /\ CommandsFindTheirWay

LEMMA ConsoleInit ==
    ASSUME Init
    PROVE  ConsoleInv
<1>1. RegistryInv /\ Discovering
  BY RegistryInitInv DEF Init, RegistryInit, Discovering
<1>2. DockerInv /\ ProcessInv
  BY DockerIdleInv, ProcessIdleInv DEF Init
<1>3. ConsoleTypeOK
  BY DEF Init, ConsoleTypeOK
<1>4. AtRest
  BY <1>1 DEF Init, AtRest, Nothing, DockerIdle
<1>5. CommandsFindTheirWay
  BY DEF Init, CommandsFindTheirWay
<1> QED
  BY <1>1, <1>2, <1>3, <1>4, <1>5 DEF ConsoleInv

\* What a plugin offers that has not failed is registered when the discovery is
\* over, and what is registered was offered.
LEMMA HandlersAtReady ==
    ASSUME RegistryInv, NEW key
    PROVE  /\ ~Discovering /\ key \notin DOMAIN registry["commands"]
              => Offering("commands", key) \subseteq broken
           /\ key \in DOMAIN registry["commands"]
              => registry["commands"][key] \in Offering("commands", key)
<1>1. ASSUME ~Discovering, key \notin DOMAIN registry["commands"], NEW m \in Offering("commands", key)
      PROVE  m \in broken
  <2>1. m \in Module /\ key \in offers[m]["commands"]
    BY <1>1 DEF Offering
  <2>2. PICK i \in DOMAIN modules : modules[i] = m
    BY <2>1, Places
  <2>3. Past(i, "commands")
    BY <1>1, Places DEF Past, Discovering, RegistryInv, RegistryTypeOK
  <2> QED
    BY <1>1, <2>1, <2>2, <2>3 DEF RegistryInv, RegistryIsFilled, Part
<1>2. ASSUME key \in DOMAIN registry["commands"]
      PROVE  registry["commands"][key] \in Offering("commands", key)
  <2>1. PICK i \in DOMAIN modules : Wins(i, "commands", key)
    BY <1>2 DEF RegistryInv, RegistryIsFilled, Part
  <2> QED
    BY <2>1, Places DEF Wins, Offering
<1> QED
  BY <1>1, <1>2

LEMMA DiscoverInv ==
    ASSUME ConsoleInv, Discover
    PROVE  ConsoleInv'
<1>1. /\ UNCHANGED <<command, reply, dockerVars, processVars>>
      /\ prompt' = IF stage' = "ready" THEN "ready" ELSE prompt
      /\ RegistryNext
  BY DEF Discover
<1>2. stage # "ready"
  BY <1>1 DEF RegistryNext, ImportModule, Construct, Merge, Hook, ModuleFails, Part
<1>3. prompt = "starting" /\ command = Nothing /\ reply = "none"
  BY <1>2 DEF ConsoleInv, AtRest, Discovering, ConsoleTypeOK
<1>4. RegistryInv' /\ DockerInv' /\ ProcessInv'
      /\ (DockerIdle' <=> DockerIdle) /\ UNCHANGED <<report, answer>> /\ (ProcessIdle' <=> ProcessIdle)
  BY <1>1, RegistryStep, DockerStays, ProcessStays DEF ConsoleInv
<1>5. ConsoleTypeOK'
  BY <1>1 DEF ConsoleInv, ConsoleTypeOK
<1>6. AtRest'
  BY <1>1, <1>3, <1>4 DEF ConsoleInv, AtRest, Discovering
<1>7. CommandsFindTheirWay'
  BY <1>1, <1>3 DEF CommandsFindTheirWay, Nothing
<1> QED
  BY <1>4, <1>5, <1>6, <1>7 DEF ConsoleInv

\* A command that is answered at once.
LEMMA PrintedInv ==
    ASSUME ConsoleInv, prompt = "ready", command' \in Command,
           command'[1] # "docker" \/ reply' = "handler",
           NEW what, Prints(what),
           what \in {"text", "parse error", "error", "handler", "no handler", "checked"},
           UNCHANGED <<registryVars, dockerVars, processVars>>,
           what = "handler" => Offering("commands", command') \ {Docker} # {},
           what = "no handler" => Offering("commands", command') \subseteq broken
    PROVE  ConsoleInv'
<1>1. prompt' = "answered" /\ reply' = what /\ what # "none"
  BY DEF Prints
<1>2. /\ RegistryInv' /\ DockerInv' /\ ProcessInv'
      /\ (Discovering' <=> Discovering) /\ (DockerIdle' <=> DockerIdle) /\ UNCHANGED <<report, answer>>
      /\ (ProcessIdle' <=> ProcessIdle)
  BY RegistryStays, DockerStays, ProcessStays DEF ConsoleInv
<1>3. command = Nothing /\ ~Discovering
  BY DEF ConsoleInv, AtRest
<1>4. DockerIdle /\ ProcessIdle
  BY <1>3 DEF ConsoleInv, AtRest, Nothing
<1>5. command' # Nothing
  BY CommandForms
<1>6. ConsoleTypeOK'
  BY <1>1 DEF ConsoleTypeOK
<1>7. AtRest'
  BY <1>1, <1>2, <1>3, <1>4, <1>5 DEF AtRest, DockerIdle
<1>8. CommandsFindTheirWay'
  BY <1>1 DEF CommandsFindTheirWay, Offering, registryVars
<1> QED
  BY <1>2, <1>6, <1>7, <1>8 DEF ConsoleInv

LEMMA SubmitHostInv ==
    ASSUME ConsoleInv, SubmitHost
    PROVE  ConsoleInv'
<1>1. prompt = "ready" /\ command' \in Command /\ UNCHANGED <<registryVars, dockerVars, processVars>>
  BY DEF SubmitHost
<1>2. CASE command'[1] = "?" /\ Prints("parse error")
  BY <1>1, <1>2, PrintedInv
<1>3. CASE /\ command'[1] \in DOMAIN HostCommands
           /\ \E what \in Outcomes(command') : Prints(what)
  <2>1. PICK what \in Outcomes(command') : Prints(what)
    BY <1>3
  <2>2. command'[1] # "docker"
    BY <1>3, HostOutcomes DEF Namespaces
  <2>3. what \in {"text", "parse error", "error"}
    BY <1>1, <2>1, HostOutcomes
  <2> QED
    BY <1>1, <2>1, <2>2, <2>3, PrintedInv
<1> QED
  BY <1>2, <1>3 DEF SubmitHost

\* A command that asks about Docker, or about processes, is underway.
LEMMA DockerAsked ==
    ASSUME ConsoleInv, prompt = "ready", command' \in Command,
           NEW r \in Report, command' \in {"docker", "check"} \X {r}, AskDocker(r),
           prompt' = "running", UNCHANGED <<reply, registryVars, processVars>>
    PROVE  ConsoleInv'
<1>1. /\ RegistryInv' /\ ProcessInv'
      /\ (Discovering' <=> Discovering) /\ (ProcessIdle' <=> ProcessIdle)
  BY RegistryStays, ProcessStays DEF ConsoleInv
<1>2. command = Nothing /\ ~Discovering /\ reply = "none"
  BY DEF ConsoleInv, AtRest
<1>3. DockerIdle /\ ProcessIdle
  BY <1>2 DEF ConsoleInv, AtRest, Nothing
<1>4. DockerInv'
  BY <1>3, AskDockerInv DEF ConsoleInv
<1>5. command' # Nothing
  BY CommandForms
<1>6. ConsoleTypeOK'
  BY DEF ConsoleInv, ConsoleTypeOK
<1>7. AtRest'
  <2>1. report' = r /\ command'[1] \in {"docker", "check"} /\ command'[2] = r
    BY DEF AskDocker
  <2> QED
    BY <1>1, <1>2, <1>3, <1>5, <2>1 DEF AtRest
<1>8. CommandsFindTheirWay'
  BY <1>2 DEF CommandsFindTheirWay
<1> QED
  BY <1>1, <1>4, <1>6, <1>7, <1>8 DEF ConsoleInv

LEMMA SubmitDockerInv ==
    ASSUME ConsoleInv, SubmitDocker
    PROVE  ConsoleInv'
<1>1. prompt = "ready" /\ UNCHANGED <<registryVars, processVars>>
  BY DEF SubmitDocker
<1>2. PICK r \in Reports \ {"count"} :
         /\ command' = <<"docker", r>>
         /\ IF HandlerOf(command') = Docker
            THEN prompt' = "running" /\ AskDocker(r) /\ UNCHANGED reply
            ELSE Prints("handler") /\ UNCHANGED dockerVars
  BY DEF SubmitDocker
<1>3. command' \in Command /\ command'[1] = "docker" /\ r \in Report
  BY <1>2, ConsoleAssumption DEF Command
<1>4. CASE HandlerOf(command') = Docker
  BY <1>1, <1>2, <1>3, <1>4, DockerAsked
<1>5. CASE HandlerOf(command') # Docker
  <2>1. command' \in DOMAIN registry["commands"] /\ registry["commands"][command'] # Docker
    BY <1>5 DEF HandlerOf
  <2>2. registry["commands"][command'] \in Offering("commands", command')
    BY <2>1, HandlersAtReady DEF ConsoleInv
  <2>3. Offering("commands", command') \ {Docker} # {}
    BY <2>1, <2>2
  <2>4. Prints("handler") /\ UNCHANGED dockerVars /\ reply' = "handler"
    BY <1>2, <1>5 DEF Prints
  <2> QED
    BY <1>1, <1>3, <2>3, <2>4, PrintedInv
<1> QED
  BY <1>4, <1>5

LEMMA SubmitCheckInv ==
    ASSUME ConsoleInv, SubmitCheck
    PROVE  ConsoleInv'
<1>1. /\ prompt = "ready" /\ "count" \in Reports /\ command' = <<"check", "count">>
      /\ UNCHANGED <<registryVars, processVars>>
  BY DEF SubmitCheck
<1>2. command' \in Command /\ command'[1] = "check" /\ "count" \in Report
  BY <1>1, ConsoleAssumption DEF Command
<1>3. \/ prompt' = "running" /\ AskDocker("count") /\ UNCHANGED reply
      \/ Prints("checked") /\ UNCHANGED dockerVars
  BY DEF SubmitCheck
<1> QED
  BY <1>1, <1>2, <1>3, DockerAsked, PrintedInv

LEMMA SubmitWalkInv ==
    ASSUME ConsoleInv, SubmitWalk
    PROVE  ConsoleInv'
<1>1. /\ prompt = "ready" /\ prompt' = "running"
      /\ UNCHANGED <<reply, registryVars, dockerVars>>
  BY DEF SubmitWalk
<1>2. PICK w \in Walks, p \in Pid : command' = <<"walk", w>> /\ AskProcesses(w, p)
  BY DEF SubmitWalk
<1>3. w \in Walk \cup ByPid /\ command' \in Command /\ command'[1] = "walk"
  BY <1>2, ConsoleAssumption DEF Command
<1>4. /\ RegistryInv' /\ DockerInv'
      /\ (Discovering' <=> Discovering) /\ (DockerIdle' <=> DockerIdle) /\ UNCHANGED <<report, answer>>
  BY <1>1, RegistryStays, DockerStays DEF ConsoleInv
<1>5. command = Nothing /\ ~Discovering /\ reply = "none"
  BY <1>1 DEF ConsoleInv, AtRest
<1>6. DockerIdle /\ ProcessIdle
  BY <1>5 DEF ConsoleInv, AtRest, Nothing
<1>7. ProcessInv'
  BY <1>2, <1>3, <1>6, AskProcessesInv
<1>8. command' # Nothing
  BY <1>3, CommandForms
<1>9. ConsoleTypeOK'
  BY <1>1, <1>3 DEF ConsoleInv, ConsoleTypeOK
<1>10. AtRest'
  BY <1>1, <1>3, <1>4, <1>5, <1>6, <1>8 DEF AtRest, DockerIdle
<1>11. CommandsFindTheirWay'
  BY <1>1, <1>5 DEF CommandsFindTheirWay
<1> QED
  BY <1>4, <1>7, <1>9, <1>10, <1>11 DEF ConsoleInv

LEMMA SubmitEc2Inv ==
    ASSUME ConsoleInv, SubmitEc2
    PROVE  ConsoleInv'
<1>1. prompt = "ready" /\ UNCHANGED <<registryVars, dockerVars, processVars>>
  BY DEF SubmitEc2
<1>2. PICK word \in Ec2 : command' = <<"ec2", word>>
  BY DEF SubmitEc2
<1>3. command' \in Command /\ command'[1] = "ec2" /\ command'[1] # "docker"
  BY <1>2 DEF Command
<1>4. ~Discovering
  BY <1>1 DEF ConsoleInv, AtRest
<1>5. CASE command' \in DOMAIN registry["commands"]
  <2>1. registry["commands"][command'] \in Offering("commands", command')
    BY <1>5, HandlersAtReady DEF ConsoleInv
  <2>2. Docker \notin Offering("commands", command')
    BY <1>3, ConsoleAssumption DEF Offering
  <2>3. Prints("handler") /\ Offering("commands", command') \ {Docker} # {}
    BY <1>5, <2>1, <2>2 DEF SubmitEc2
  <2> QED
    BY <1>1, <1>3, <2>3, PrintedInv
<1>6. CASE command' \notin DOMAIN registry["commands"]
  <2>1. Prints("no handler") /\ Offering("commands", command') \subseteq broken
    BY <1>4, <1>6, HandlersAtReady DEF SubmitEc2, ConsoleInv
  <2> QED
    BY <1>1, <1>3, <2>1, PrintedInv
<1> QED
  BY <1>5, <1>6

LEMMA AnsweredInv ==
    ASSUME ConsoleInv, Answered
    PROVE  ConsoleInv'
<1>1. prompt = "running" /\ UNCHANGED <<command, registryVars, dockerVars, processVars>>
  BY DEF Answered
<1>2. /\ RegistryInv' /\ DockerInv' /\ ProcessInv'
      /\ (Discovering' <=> Discovering) /\ (DockerIdle' <=> DockerIdle) /\ UNCHANGED <<report, answer>>
      /\ (ProcessIdle' <=> ProcessIdle)
  BY <1>1, RegistryStays, DockerStays, ProcessStays DEF ConsoleInv
<1>3. /\ prompt' = "answered"
      /\ reply' \in {"checked", "docker", "processes", "parse error"}
      /\ command[1] = "docker" =>
            \/ reply' = "docker"
            \/ reply' = "parse error" /\ command[2] = "logs" /\ answer = "raised"
  <2>1. CASE dstage = "done" /\ Prints(IF command[1] = "check" THEN "checked"
                                       ELSE IF answer = "raised" THEN "parse error" ELSE "docker")
    <3>1. answer = "raised" => command[2] = "logs"
      BY DEF ConsoleInv, AtRest, DockerInv, DockerIsTrue
    <3> QED
      BY <2>1, <3>1 DEF Prints
  <2>2. CASE wstage = "done" /\ Prints("processes")
    <3>1. ~ProcessIdle
      BY <2>2 DEF ProcessIdle
    <3>2. command[1] = "walk"
      BY <3>1 DEF ConsoleInv, AtRest
    <3> QED
      BY <2>2, <3>2 DEF Prints
  <2> QED
    BY <2>1, <2>2 DEF Answered
<1>4. ConsoleTypeOK'
  BY <1>1, <1>3 DEF ConsoleInv, ConsoleTypeOK
<1>5. AtRest'
  BY <1>1, <1>2, <1>3 DEF ConsoleInv, AtRest
<1>6. CommandsFindTheirWay'
  BY <1>1, <1>3 DEF CommandsFindTheirWay, dockerVars
<1> QED
  BY <1>2, <1>4, <1>5, <1>6 DEF ConsoleInv

LEMMA IdleNext == (DockerIdle' => DockerInv') /\ (ProcessIdle' => ProcessInv')
<1>1. DockerIdle => DockerInv
  BY DockerIdleInv
<1>2. ProcessIdle => ProcessInv
  BY ProcessIdleInv
<1> QED
  BY <1>1, <1>2, PTL

LEMMA PromptInv ==
    ASSUME ConsoleInv, Prompt
    PROVE  ConsoleInv'
<1>1. /\ prompt = "answered" /\ prompt' = "ready" /\ command' = Nothing /\ reply' = "none"
      /\ DockerRests /\ ProcessRests /\ UNCHANGED registryVars
  BY DEF Prompt
<1>2. DockerIdle' /\ ProcessIdle'
  BY <1>1, DockerRestsIdles, ProcessRestsIdles
<1>3. RegistryInv' /\ (Discovering' <=> Discovering)
  BY <1>1, RegistryStays DEF ConsoleInv
<1>4. DockerInv' /\ ProcessInv'
  BY <1>2, IdleNext
<1>5. ConsoleTypeOK'
  BY <1>1 DEF ConsoleTypeOK
<1>6. AtRest'
  BY <1>1, <1>2, <1>3 DEF ConsoleInv, AtRest, DockerIdle
<1>7. CommandsFindTheirWay'
  BY <1>1 DEF CommandsFindTheirWay, Nothing
<1> QED
  BY <1>3, <1>4, <1>5, <1>6, <1>7 DEF ConsoleInv

\* The probes work only while a command asks them.
LEMMA DockerStepInv ==
    ASSUME ConsoleInv, DockerStep
    PROVE  ConsoleInv'
<1>1. UNCHANGED <<consoleVars, registryVars, processVars>> /\ DockerNext
  BY DEF DockerStep
<1>2. /\ RegistryInv' /\ ProcessInv'
      /\ (Discovering' <=> Discovering) /\ (ProcessIdle' <=> ProcessIdle)
  BY <1>1, RegistryStays, ProcessStays DEF ConsoleInv
<1>3. DockerInv'
  BY <1>1, ThingChangesInv, DaemonChangesInv, ProbesDockerInv DEF ConsoleInv, DockerNext
<1>4. dstage \in {"check", "sdk", "rows", "cli"} /\ report' = report
  BY <1>1 DEF DockerNext, ThingChanges, DaemonChanges, ProbesDocker, Probes, CheckInstalled,
              FallsBack, SdkLists, SdkInspects, SdkListed, SdkDelivers, CliAnswers, At,
              ConsoleInv, DockerInv, DockerTypeOK
<1>5. command[1] \in {"docker", "check"}
  BY <1>4 DEF ConsoleInv, AtRest, DockerIdle
<1>6. ConsoleTypeOK'
  BY <1>1 DEF ConsoleInv, ConsoleTypeOK, consoleVars
<1>7. AtRest'
  BY <1>1, <1>2, <1>4, <1>5 DEF ConsoleInv, AtRest, consoleVars
\* Nothing that Docker has raised is printed while it is being asked.
<1>8. CommandsFindTheirWay'
  <2>1. answer # "raised"
    BY <1>4 DEF ConsoleInv, DockerInv, DockerCollects
  <2> QED
    BY <1>1, <2>1 DEF ConsoleInv, CommandsFindTheirWay, consoleVars, registryVars, Offering
<1> QED
  BY <1>2, <1>3, <1>6, <1>7, <1>8 DEF ConsoleInv

LEMMA ProcessStepConsoleInv ==
    ASSUME ConsoleInv, ProcessStep
    PROVE  ConsoleInv'
<1>1. UNCHANGED <<consoleVars, registryVars, dockerVars>> /\ ProcessNext
  BY DEF ProcessStep
<1>2. /\ RegistryInv' /\ DockerInv' /\ CommandsFindTheirWay'
      /\ (Discovering' <=> Discovering) /\ (DockerIdle' <=> DockerIdle) /\ UNCHANGED <<report, answer>>
  BY <1>1, RegistryStays, DockerStays DEF ConsoleInv
<1>3. ProcessInv'
  BY <1>1, ProcessStepInv DEF ConsoleInv
<1>4. ~ProcessIdle
  BY <1>1 DEF ProcessIdle, ProcessNext, ProbesProcesses, ProcessEnds, ProcessBegins, SkipGone,
              ReadOne, ReadAgain, GoneAgain, WalkEnds, Bind, ReadName, Denied, Terminate
<1>5. command[1] = "walk"
  BY <1>4 DEF ConsoleInv, AtRest
<1>6. ConsoleTypeOK'
  BY <1>1 DEF ConsoleInv, ConsoleTypeOK, consoleVars
<1>7. AtRest'
  BY <1>1, <1>2, <1>5 DEF ConsoleInv, AtRest, consoleVars
<1> QED
  BY <1>2, <1>3, <1>6, <1>7 DEF ConsoleInv

LEMMA ConsoleNext ==
    ASSUME ConsoleInv, [Next]_vars
    PROVE  ConsoleInv'
<1>1. CASE UNCHANGED vars
  <2>1. UNCHANGED <<consoleVars, registryVars, dockerVars, processVars>>
    BY <1>1 DEF vars
  <2>2. UNCHANGED <<prompt, command, reply>>
    BY <2>1 DEF consoleVars
  <2>3. /\ RegistryInv' /\ DockerInv' /\ ProcessInv' /\ CommandsFindTheirWay'
        /\ (Discovering' <=> Discovering) /\ (DockerIdle' <=> DockerIdle) /\ UNCHANGED <<report, answer>>
        /\ (ProcessIdle' <=> ProcessIdle)
    BY <2>1, RegistryStays, DockerStays, ProcessStays DEF ConsoleInv
  <2>4. ConsoleTypeOK' /\ AtRest'
    BY <2>2, <2>3 DEF ConsoleInv, ConsoleTypeOK, AtRest
  <2> QED
    BY <2>3, <2>4 DEF ConsoleInv
<1> QED
  BY <1>1, DiscoverInv, SubmitHostInv, SubmitDockerInv, SubmitCheckInv, SubmitWalkInv,
     SubmitEc2Inv, AnsweredInv, PromptInv, DockerStepInv, ProcessStepConsoleInv
     DEF Next, Submit

LEMMA ConsoleAlways == Spec => []ConsoleInv
BY ConsoleInit, ConsoleNext, PTL DEF Spec

-----------------------------------------------------------------------------
(* The end of it                                                           *)

LEMMA DiscoveryNearer ==
    ASSUME RegistryInv, RegistryNext
    PROVE  DiscoveryLeft' < DiscoveryLeft
<1>1. turn \in Nat /\ Len(modules) \in Nat
  BY Places DEF RegistryInv, RegistryTypeOK
<1>2. stage \in {"import", "construct", "commands", "metrics", "actions", "hook"}
  BY DEF RegistryNext, ImportModule, Construct, Merge, Hook, ModuleFails, Part
<1>3. turn <= Len(modules)
  BY <1>2 DEF RegistryInv, RegistryTypeOK
<1>4. /\ DiscoveryLeft \in Int
      /\ DiscoveryLeft > 6 * (Len(modules) - turn)
  BY <1>1, <1>2 DEF DiscoveryLeft, Discovering
<1>5. CASE NextModule
  <2>1. CASE stage' = "ready"
    BY <1>1, <1>3, <1>4, <2>1 DEF DiscoveryLeft, Discovering
  <2>2. CASE stage' # "ready"
    <3>1. stage' = "import" /\ turn' = turn + 1
      BY <1>5, <2>2 DEF NextModule
    <3>2. DiscoveryLeft' = 6 * (Len(modules) - (turn + 1)) + 6
      BY <3>1 DEF DiscoveryLeft, Discovering
    <3> QED
      BY <1>1, <1>4, <3>2
  <2> QED
    BY <2>1, <2>2
<1>6. CASE turn' = turn /\ <<stage, stage'>> \in {<<"import", "construct">>, <<"construct", "commands">>,
              <<"commands", "metrics">>, <<"metrics", "actions">>, <<"actions", "hook">>}
  BY <1>1, <1>6 DEF DiscoveryLeft, Discovering
<1>7. NextModule \/ (turn' = turn /\ <<stage, stage'>> \in {<<"import", "construct">>, <<"construct", "commands">>,
              <<"commands", "metrics">>, <<"metrics", "actions">>, <<"actions", "hook">>})
  <2>1. Merge => turn' = turn /\ <<stage, stage'>> \in {<<"commands", "metrics">>, <<"metrics", "actions">>, <<"actions", "hook">>}
    BY DEF Merge, Part
  <2> QED
    BY <2>1 DEF RegistryNext, ImportModule, Construct, Hook, ModuleFails
<1> QED
  BY <1>5, <1>6, <1>7

LEMMA DiscoveryCounted ==
    ASSUME RegistryTypeOK
    PROVE  DiscoveryLeft \in Nat
<1>1. turn \in Nat /\ Len(modules) \in Nat
  BY Places DEF RegistryTypeOK
<1> QED
  BY <1>1 DEF RegistryTypeOK, DiscoveryLeft, Discovering

LEMMA ThingsCounted ==
    ASSUME DockerTypeOK
    PROVE  /\ Cardinality(Thing) \in Nat /\ Cardinality(pending) \in Nat
           /\ IsFiniteSet(pending) /\ Cardinality(pending) <= Cardinality(Thing)
           /\ RequestsLeft \in Nat
<1>1. IsFiniteSet(Thing) /\ pending \in SUBSET Thing
  BY DockerAssumption DEF DockerTypeOK
<1>2. /\ Cardinality(Thing) \in Nat /\ Cardinality(pending) \in Nat
      /\ IsFiniteSet(pending) /\ Cardinality(pending) <= Cardinality(Thing)
  BY <1>1, FS_CardinalityType, FS_Subset
<1> QED
  BY <1>2 DEF RequestsLeft

LEMMA DockerNearer ==
    ASSUME DockerInv, ProbesDocker
    PROVE  RequestsLeft' < RequestsLeft /\ RequestsLeft' <= RequestsLeft
<1>1. DockerTypeOK /\ DockerTypeOK'
  BY ProbesDockerInv DEF DockerInv
<1>2. /\ Cardinality(Thing) \in Nat /\ Cardinality(pending) \in Nat /\ Cardinality(pending') \in Nat
      /\ IsFiniteSet(pending) /\ Cardinality(pending') <= Cardinality(Thing)
  <2>1. pending' \in SUBSET Thing /\ IsFiniteSet(Thing)
    BY <1>1, DockerAssumption DEF DockerTypeOK
  <2>2. Cardinality(pending') \in Nat /\ Cardinality(pending') <= Cardinality(Thing)
    BY <2>1, FS_CardinalityType, FS_Subset
  <2> QED
    BY <1>1, <2>2, ThingsCounted
<1>3. CASE SdkInspects
  <2>1. PICK t \in pending : pending' = pending \ {t}
    BY <1>3 DEF SdkInspects
  <2>2. Cardinality(pending') = Cardinality(pending) - 1
    BY <1>2, <2>1, FS_RemoveElement
  <2>3. dstage = "rows" /\ dstage' = "rows"
    BY <1>3 DEF SdkInspects, Probes, At
  <2> QED
    BY <1>2, <2>2, <2>3 DEF RequestsLeft
<1>4. CASE /\ dstage \in {"check", "sdk", "rows", "cli"}
           /\ \/ dstage' = "done"
              \/ <<dstage, dstage'>> \in {<<"check", "sdk">>, <<"sdk", "rows">>, <<"sdk", "cli">>, <<"rows", "cli">>}
  BY <1>2, <1>4 DEF RequestsLeft
<1> QED
  BY <1>3, <1>4 DEF ProbesDocker, Probes, At, Answers, CheckInstalled, FallsBack, SdkLists, SdkListed,
                    SdkDelivers, CliAnswers

LEMMA DockerNoFurther ==
    ASSUME DockerInv, DockerNext
    PROVE  RequestsLeft' <= RequestsLeft
<1>1. RequestsLeft \in Nat
  BY ThingsCounted DEF DockerInv
<1>2. CASE ProbesDocker
  BY <1>2, DockerNearer
<1>3. CASE ThingChanges \/ DaemonChanges
  <2>1. RequestsLeft' = RequestsLeft
    BY <1>3 DEF ThingChanges, DaemonChanges, RequestsLeft
  <2> QED
    BY <1>1, <2>1
<1> QED
  BY <1>2, <1>3 DEF DockerNext

LEMMA PidsCounted ==
    ASSUME ProcessTypeOK
    PROVE  IsFiniteSet(todo) /\ Cardinality(todo) \in Nat /\ StepsLeft \in Nat
<1>1. IsFiniteSet(Pid) /\ todo \in SUBSET Pid
  BY FS_Interval, Numbers DEF Pid, ProcessTypeOK
<1>2. IsFiniteSet(todo) /\ Cardinality(todo) \in Nat
  BY <1>1, FS_Subset, FS_CardinalityType
<1> QED
  BY <1>2 DEF StepsLeft

LEMMA ProcessNearer ==
    ASSUME ProcessInv, ProbesProcesses \/ Denied
    PROVE  StepsLeft' < StepsLeft /\ StepsLeft' <= StepsLeft
<1>1. IsFiniteSet(todo) /\ Cardinality(todo) \in Nat
  BY PidsCounted DEF ProcessInv
<1>2. \A p \in todo : Cardinality(todo \ {p}) = Cardinality(todo) - 1
  BY <1>1, FS_RemoveElement
\* A PID has been looked at for the last time,
<1>3. CASE /\ \E p \in todo : todo' = todo \ {p}
           /\ wstage \in {"walk", "again"} /\ wstage' \in {"walk", "done"}
  <2>1. Cardinality(todo') = Cardinality(todo) - 1
    BY <1>2, <1>3
  <2> QED
    BY <1>1, <1>3, <2>1 DEF StepsLeft
\* ... or the command comes to its next stage.
<1>4. CASE /\ todo' = todo
           /\ \/ wstage \in {"walk", "again", "bound", "named"} /\ wstage' = "done"
              \/ <<wstage, wstage'>> \in {<<"walk", "again">>, <<"walk", "bound">>, <<"bound", "named">>}
  BY <1>1, <1>4 DEF StepsLeft
<1> QED
  BY <1>3, <1>4 DEF ProbesProcesses, SkipGone, ReadOne, ReadAgain, GoneAgain, Misses,
     WalkEnds, Bind, ReadName, Terminate, Denied, Tells

LEMMA ProcessNoFurther ==
    ASSUME ProcessInv, ProcessNext
    PROVE  StepsLeft' <= StepsLeft
<1>1. CASE ProcessEnds \/ ProcessBegins
  <2>1. StepsLeft' = StepsLeft
    BY <1>1 DEF ProcessEnds, ProcessBegins, StepsLeft
  <2>2. StepsLeft \in Nat
    BY PidsCounted DEF ProcessInv
  <2> QED
    BY <2>1, <2>2
<1> QED
  BY <1>1, ProcessNearer DEF ProcessNext

LEMMA SessionNearer ==
    ASSUME ConsoleInv, Next, prompt = "running", prompt' = "running"
    PROVE  RequestsLeft' <= RequestsLeft /\ StepsLeft' <= StepsLeft
<1>1. RequestsLeft \in Nat /\ StepsLeft \in Nat
  BY ThingsCounted, PidsCounted DEF ConsoleInv, DockerInv, ProcessInv
<1>2. UNCHANGED dockerVars => RequestsLeft' = RequestsLeft
  BY DEF dockerVars, RequestsLeft
<1>3. UNCHANGED processVars => StepsLeft' = StepsLeft
  BY DEF processVars, StepsLeft
<1>4. CASE DockerStep
  BY <1>1, <1>3, <1>4, DockerNoFurther DEF DockerStep, ConsoleInv
<1>5. CASE ProcessStep
  BY <1>1, <1>2, <1>5, ProcessNoFurther DEF ProcessStep, ConsoleInv
<1>6. CASE Discover
  BY <1>1, <1>2, <1>3, <1>6 DEF Discover
<1>7. ~Submit /\ ~Answered /\ ~Prompt
  BY DEF Submit, SubmitHost, SubmitDocker, SubmitCheck, SubmitWalk, SubmitEc2, Answered, Prompt, Prints
<1> QED
  BY <1>4, <1>5, <1>6, <1>7 DEF Next

-----------------------------------------------------------------------------
\* The state of a session is of the right kind, each part is at rest unless a
\* command has asked it, and what a command has collected so far about Docker or
\* about processes fits what the machine was like since it began.
THEOREM SessionInvariant == Spec => []IInv
<1>1. ConsoleInv => IInv
  BY DEF ConsoleInv, IInv, RegistryInv, DockerInv, ProcessInv
<1> QED
  BY <1>1, ConsoleAlways, PTL

\* discover_plugins: however many plugin modules there are, whatever they offer
\* and whichever of them raise, each entry goes to the one of those that offer it
\* that comes last, or first for a metric, and no failure takes away what
\* another plugin offers.
THEOREM PluginsStayContained == Spec => []PluginsAreContained
<1>1. ConsoleInv => PluginsAreContained
  BY PluginsContained DEF ConsoleInv
<1> QED
  BY <1>1, ConsoleAlways, PTL

\* docker_probe and the psutil commands: what is reported was so while the
\* command ran, whatever came, went or changed between two of its requests.
THEOREM AnswersStayTrue == Spec => []AnswersAreTrue
<1>1. ConsoleInv => AnswersAreTrue
  BY DEF ConsoleInv, AnswersAreTrue, DockerInv, ProcessInv
<1> QED
  BY <1>1, ConsoleAlways, PTL

\* proc.kill: however often the PID changes hands meanwhile, none but the process
\* it was looked up for is killed, and the name that is given is its own.
THEOREM OnlyTheNamedEverKilled == Spec => []OnlyTheNamedIsKilled
<1>1. ConsoleInv => OnlyTheNamedIsKilled
  BY DEF ConsoleInv, ProcessInv
<1> QED
  BY <1>1, ConsoleAlways, PTL

\* The transformer's docker and ec2 methods: whatever plugins there are, a Docker
\* command is answered by docker_probe or by another plugin that offers it, and an
\* ec2 command is turned away only if all that offer it have failed.
THEOREM CommandsAlwaysFindTheirWay == Spec => []CommandsFindTheirWay
<1>1. ConsoleInv => CommandsFindTheirWay
  BY DEF ConsoleInv
<1> QED
  BY <1>1, ConsoleAlways, PTL

\* discover_plugins, docker_probe and the psutil commands are loops over what they
\* have listed once: each of their steps leaves fewer to take, however much
\* changes meanwhile, and their number is a natural number.
THEOREM EndsAlwaysComeNearer ==
    Spec => EndsComeNearer /\ [](DiscoveryLeft \in Nat /\ RequestsLeft \in Nat /\ StepsLeft \in Nat)
<1>1. ASSUME ConsoleInv, Next
      PROVE  /\ RegistryNext => DiscoveryLeft' < DiscoveryLeft
             /\ ProbesDocker => RequestsLeft' < RequestsLeft
             /\ ProbesProcesses => StepsLeft' < StepsLeft
             /\ prompt = "running" /\ prompt' = "running" =>
                   RequestsLeft' <= RequestsLeft /\ StepsLeft' <= StepsLeft
  BY <1>1, DiscoveryNearer, DockerNearer, ProcessNearer, SessionNearer DEF ConsoleInv
<1>2. ConsoleInv => DiscoveryLeft \in Nat /\ RequestsLeft \in Nat /\ StepsLeft \in Nat
  BY DiscoveryCounted, ThingsCounted, PidsCounted DEF ConsoleInv, RegistryInv, DockerInv, ProcessInv
<1>3. ConsoleInv /\ [Next]_vars =>
         [/\ RegistryNext => DiscoveryLeft' < DiscoveryLeft
          /\ ProbesDocker => RequestsLeft' < RequestsLeft
          /\ ProbesProcesses => StepsLeft' < StepsLeft
          /\ prompt = "running" /\ prompt' = "running" =>
                RequestsLeft' <= RequestsLeft /\ StepsLeft' <= StepsLeft]_vars
  BY <1>1
<1> QED
  BY <1>2, <1>3, ConsoleAlways, PTL DEF Spec, EndsComeNearer

================================================================================
