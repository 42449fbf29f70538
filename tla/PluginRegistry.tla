---------------------------- MODULE PluginRegistry ----------------------------
(***************************************************************************)
(* How plugins come to be known: the import of the package imports every   *)
(* module of nano_logic.plugins, makes an object of the plugin it defines  *)
(* and merges what that offers into the registries of nano_logic.plugins   *)
(* (discover_plugins, register_plugin).  The engine copies the metrics     *)
(* into its own registry once, at the end of its import.                   *)
(***************************************************************************)
EXTENDS Naturals, Sequences, SequencesExt

CONSTANTS
    modules,    \* the plugin modules, in the order of pkgutil.iter_modules
    offers,     \* the keys of each: its commands, metrics and actions
    BuiltIn,    \* the metrics that the engine registers itself
    Engine      \* who answers for those

Module == ToSet(modules)
Part == {"commands", "metrics", "actions"}

ASSUME PluginAssumption ==
    /\ modules \in Seq(Module) /\ IsInjective(modules)
    /\ Engine \notin Module

VARIABLES
    turn,       \* the place of the module that the discovery has come to
    stage,      \* how far that one is
    registry,   \* COMMAND_HANDLERS, METRIC_PROBES, ACTION_HANDLERS: key -> module
    metric,     \* _METRIC_REGISTRY of the engine, once that is imported
    \* the rest observes the behaviour
    broken,     \* modules that have raised an exception
    tooLate     \* modules whose metrics came after the engine had copied them

registryVars == <<turn, stage, registry, metric, broken, tooLate>>

-----------------------------------------------------------------------------
Current == modules[turn]
Discovering == stage # "ready"
EngineLoaded == metric # <<>>

\* dict.setdefault for each key, and plain assignment.
Kept(dict, keys, m) ==
    [k \in DOMAIN dict \cup keys |-> IF k \in DOMAIN dict THEN dict[k] ELSE m]
Replaced(dict, keys, m) ==
    [k \in DOMAIN dict \cup keys |-> IF k \in keys THEN m ELSE dict[k]]

\* register_plugin_metrics, after the built-in metrics.
Pulled(probes) ==
    [k \in BuiltIn \cup DOMAIN probes |-> IF k \in BuiltIn THEN Engine ELSE probes[k]]

RegistryTypeOK ==
    /\ turn \in 1..Len(modules) + 1
    /\ stage \in {"import", "construct", "commands", "metrics", "actions", "hook", "ready"}
    /\ stage # "ready" <=> turn <= Len(modules)
    /\ DOMAIN registry = Part
    /\ \A part \in Part : \A k \in DOMAIN registry[part] : registry[part][k] \in Module
    /\ \A k \in DOMAIN metric : metric[k] \in Module \cup {Engine}
    /\ broken \subseteq Module /\ tooLate \subseteq Module

\* The modules that offer a key.
Offering(part, k) == {m \in Module : k \in offers[m][part]}

\* The module at place i has registered its entries of a part, or has failed.
Past(i, part) ==
    \/ i < turn
    \/ i = turn /\ stage \in [commands |-> {"metrics", "actions", "hook"},
                             metrics |-> {"actions", "hook"},
                             actions |-> {"hook"}][part]

\* Place i comes before place j for the entries of a part, or is it.
Precedes(part, i, j) == IF part = "metrics" THEN i <= j ELSE j <= i

\* The entry for k is that of place i: of all that offer it up to now, the one
\* that precedes.
Wins(i, part, k) ==
    /\ Past(i, part) /\ k \in offers[modules[i]][part]
    /\ k \in DOMAIN registry[part] /\ registry[part][k] = modules[i]

\* What is registered is owned by a module that offers it; what a module that has
\* not failed offers is registered, and as long as none that offers it has
\* failed, for the one that precedes.
RegistryIsFilled ==
    \A part \in Part :
        /\ \A k \in DOMAIN registry[part] : \E i \in DOMAIN modules : Wins(i, part, k)
        /\ \A i \in DOMAIN modules : Past(i, part) =>
              \A k \in offers[modules[i]][part] :
                 /\ modules[i] \notin broken => k \in DOMAIN registry[part]
                 /\ Offering(part, k) \cap broken = {} =>
                       \E j \in DOMAIN modules : Wins(j, part, k) /\ Precedes(part, j, i)

\* Likewise what the engine has copied.
EngineIsFilled ==
    EngineLoaded \/ ~Discovering =>
        /\ \A i \in DOMAIN modules :
              Past(i, "metrics") /\ modules[i] \notin broken \cup tooLate =>
                 offers[modules[i]]["metrics"] \ BuiltIn \subseteq DOMAIN metric
        /\ \A k \in DOMAIN metric \ BuiltIn : metric[k] \in Offering("metrics", k)
        /\ BuiltIn \subseteq DOMAIN metric /\ \A k \in BuiltIn : metric[k] = Engine

RegistryInit ==
    /\ turn = 1
    /\ stage = "import"
    /\ registry = [part \in Part |-> <<>>]
    /\ metric = <<>>
    /\ broken = {} /\ tooLate = {}

-----------------------------------------------------------------------------
\* import nano_logic.engine
LoadsEngine == metric' = IF EngineLoaded THEN metric ELSE Pulled(registry["metrics"])

\* On to the next module; after the last, the program goes on and imports the
\* engine, unless a plugin has.
NextModule ==
    /\ turn' = turn + 1
    /\ IF turn < Len(modules)
       THEN stage' = "import" /\ UNCHANGED metric
       ELSE stage' = "ready" /\ LoadsEngine

\* The import of a module that may import the engine.
ImportModule ==
    /\ stage = "import"
    /\ stage' = "construct"
    /\ UNCHANGED metric \/ LoadsEngine
    /\ UNCHANGED <<turn, registry, broken, tooLate>>

\* plugin_cls()
Construct ==
    /\ stage = "construct"
    /\ stage' = "commands"
    /\ UNCHANGED <<turn, registry, metric, broken, tooLate>>

\* A slip: the last to offer a metric has it, too.
MergeReplacing ==
    /\ stage \in Part
    /\ registry' = [registry EXCEPT ![stage] = Replaced(@, offers[Current][stage], Current)]
    /\ stage' = [commands |-> "metrics", metrics |-> "actions", actions |-> "hook"][stage]
    /\ tooLate' = IF stage = "metrics" /\ EngineLoaded THEN tooLate \cup {Current} ELSE tooLate
    /\ UNCHANGED <<turn, metric, broken>>

\* register_plugin, one kind of entry after the other: the last to offer a
\* command or an action has it, the first to offer a metric.
Merge ==
    /\ stage \in Part
    /\ registry' = [registry EXCEPT ![stage] =
                       IF stage = "metrics" THEN Kept(@, offers[Current][stage], Current)
                       ELSE Replaced(@, offers[Current][stage], Current)]
    /\ stage' = [commands |-> "metrics", metrics |-> "actions", actions |-> "hook"][stage]
    /\ tooLate' = IF stage = "metrics" /\ EngineLoaded THEN tooLate \cup {Current} ELSE tooLate
    /\ UNCHANGED <<turn, metric, broken>>

\* plugin.register(None), whose exceptions are ignored.
Hook ==
    /\ stage = "hook"
    /\ NextModule
    /\ UNCHANGED <<registry, broken, tooLate>>

\* A slip: an exception ends the discovery.
ModuleFailsForAll ==
    /\ stage \in Part \cup {"import", "construct"}
    /\ turn' = Len(modules) + 1
    /\ stage' = "ready"
    /\ LoadsEngine
    /\ broken' = broken \cup {Current}
    /\ UNCHANGED <<registry, tooLate>>

\* The module, its constructor or one of its mappings raises: it is left as far
\* registered as it is.
ModuleFails ==
    /\ stage \in Part \cup {"import", "construct"}
    /\ NextModule
    /\ broken' = broken \cup {Current}
    /\ UNCHANGED <<registry, tooLate>>

RegistryNext == ImportModule \/ Construct \/ Merge \/ Hook \/ ModuleFails

-----------------------------------------------------------------------------
(* Properties                                                              *)

\* "A broken plugin module is skipped, never allowed to break the app":
\* whatever raises before or after it, a plugin that does not raise answers for
\* what no broken one offers, as the last to offer a command or an action, as
\* the first to offer a metric; its metrics reach the engine unless the engine
\* was imported before its turn; no plugin takes a built-in metric, and every
\* entry belongs to a plugin that offers it.
PluginsAreContained ==
    ~Discovering =>
        /\ \A part \in Part, m \in Module : \A k \in offers[m][part] :
              Offering(part, k) \cap broken = {}
              => /\ k \in DOMAIN registry[part]
                 /\ \E i \in DOMAIN modules :
                       /\ registry[part][k] = modules[i]
                       /\ \A j \in DOMAIN modules :
                             k \in offers[modules[j]][part] => Precedes(part, i, j)
        /\ \A m \in Module \ (broken \cup tooLate) : \A k \in offers[m]["metrics"] \ BuiltIn :
              k \in DOMAIN metric /\ metric[k] \in Offering("metrics", k)
        /\ \A k \in BuiltIn : metric[k] = Engine
        /\ \A part \in Part : \A k \in DOMAIN registry[part] :
              k \in offers[registry[part][k]][part]

\* The steps that the discovery has still to take, at most.
DiscoveryLeft ==
    IF Discovering
    THEN 6 * (Len(modules) - turn)
         + [import |-> 6, construct |-> 5, commands |-> 4, metrics |-> 3, actions |-> 2, hook |-> 1][stage]
    ELSE 0
=============================================================================
