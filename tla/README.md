# nano-dsl in TLA+

A specification of nano-dsl: the monitoring daemon, the rules it shares with
the user interfaces, the evaluation of alerts, the way an alert gets back to the
dashboard, the servers that the programs start on each other's ports, what they
know of remote nodes, the web dashboard's request threads, and a session at a
prompt with its plugins and its questions about Docker and processes.  The modules
are translated from the Python sources under `src/nano_logic/`; `PROJECT.json`
maps every definition that models code to the lines it stands for.

    cd tla
    tlc -workers 2 -config DaemonLock.cfg MCDaemonLock     # any run: see "Runs"
    tlapm RuleFile_proof.tla                               # any *_proof module

## The system

nano-dsl is a set of processes on one machine that share a state directory.

| Part | State it keeps | Operations | Talks to |
|---|---|---|---|
| Terminal dashboard (`dashboard.py`) | its `ACTIVE_RULES`, log offsets per rule id, console, history | mount, submit a command, a tick per second | spawns the daemon; reads and writes `rules.json`; tails the rule logs |
| Interactive CLI (`cli.py`) | its `ACTIVE_RULES` | read-eval-print, `check`, `status` | `rules.json`; starts or probes the receiver |
| Daemon (`daemon.py`, `daemon_lock.py`) | the flock'd `daemon.pid`, its `ACTIVE_RULES`, `last_mtime`, `_last_triggered_at` | a round per second: reload, evaluate, log | `rules.json`, rule logs, notification plugins |
| Engine (`engine.py`) | `ACTIVE_RULES`, metric registry, cooldown stamps (per process) | add, remove, save, load, evaluate | everything above |
| Web dashboard (`web.py`, `ui/web/`) | the engine's state of its process, sensor cache, active server | HTTP threads that reload the rules and report | `rules.json`, rule logs, node store |
| Receiver and node store (`receiver.py`) | nodes with metrics and time stamps, active server, last sync | ingest, query, sync from another process | agents, EC2 plugin, web dashboard |
| Agent (`agent.py`) | nothing but its configuration | collect and push, for ever | receiver |
| Plugins (`plugins/`) | registries of commands, metrics, actions | discover, register; Docker, EC2, webhook, Slack, Discord | Docker, HTTP endpoints, node store |
| DSL (`dsl.py`), probes (`monitoring/`) | none | parse and execute one command | engine, operating system |

Nothing but files joins the dashboard, the CLI and the daemon: `rules.json`
carries the rules one way, the rule logs carry the alerts back, `daemon.pid`
keeps the daemon single.  None of these files but the last is locked, and a
process that also serves the web page works on one `ACTIVE_RULES` from several
threads.  So what is hard in this system is what happens *between* the system
calls of two processes: a save between a `stat` and a load, a line appended
between a `stat` and a read, two saves at once, a process that dies half-way, an
id that is given out again while another process remembers its last owner.

What makes each part correct:

* daemon lock — one daemon, a PID file that tells the truth, no waiting, no
  cleaning up after a crash;
* rule file — an acknowledged rule stays until it is stopped; ids are unique;
  the daemon evaluates the rules in the file;
* evaluation — no repeats within the cooldown, every first breach reported, a
  standing breach reported for ever, one reading per metric and round;
* alert tail — every alert of a watched rule is shown, at most twice, and no old one;
* node store — no node appears online that was not heard of, an accepted push is kept,
  one miss is tolerated, and readers catch up;
* servers — a port is a known server's, the first to come serves, a start-up ends;
* web dashboard — an answer holds no rule that was gone before it was asked for,
  temperatures are recent while a page is open, every request is answered;
* registry — built-in metrics win, a broken plugin takes nothing from another;
* docker and process probes — what is reported was so while the command ran, a
  failure is blamed on what failed, and only the named process is killed;
* prompt — every command finds an answer, and the prompt comes back.

## Modules

| Module | Models | Depends on |
|---|---|---|
| `Singleton` | the promise of `daemon_lock.py`: one owner at a time | |
| `DaemonLock` | `acquire_daemon_lock`, `run_daemon`, spawning by dashboards | `Singleton` (refinement) |
| `RuleFile` | `add_rule`, `remove_rule`, `save_rules`, `load_rules` in every process and thread that calls them; the daemon's mtime poll | |
| `AlertEngine` | `evaluate_active_rules` and the daemon's round | |
| `AlertTail` | `_check_for_new_alerts` and the rule logs | |
| `Servers` | which process listens on which port: the start of receivers and web dashboards by import, start-up, hand and command | |
| `NodeStore` | `NodeStore` of each process, the agents' pushes, `sync_from_receiver` between processes | |
| `PluginRegistry` | `discover_plugins`, `register_plugin`, the engine's copy of the metrics | |
| `DockerProbe` | every report of `docker_probe.py`: SDK, fallback to the command, classification of failures | |
| `ProcessProbe` | the commands and probes that walk over processes, `proc.info`, `proc.kill` | |
| `Console` | a session: import, prompt, dispatch of each command, answer | composes the three above |
| `SensorCache` | the temperatures behind the web page and their reader threads | |
| `WebDashboard` | the request threads of `web.py` over one list of rules and one sensor cache | extends `SensorCache` |
| `MC...` | constants for TLC | the module it is named after |
| `..._proof` | theorems, checked by TLAPS | the module it is named after |

How state and actions correspond to the code:

**DaemonLock.**  `pc` is how far a daemon process has come in
`acquire_daemon_lock` (`opened` after `os.open`, `locked` after `flock`,
`truncated` after `ftruncate`, `monitoring` inside `_monitor_loop`, `unlocked`
after `LOCK_UN`), `flocked` the process whose open file has the lock, `pidFile`
the process named in `daemon.pid`.  One action per system call; `Killed` may come
between any two, and drops the lock as the kernel does.

**RuleFile.**  `mem` is each interface's `ACTIVE_RULES`, `phase` and `job` where
its own thread is in a command, `web` and `held` where each HTTP thread is in
`load_rules`, `disk` and `mtime` the file, `daemon`, `dmem`, `seen`, `lastMtime`
the daemon with its list and what its last `stat` returned.  `add_rule` is three
steps — choose the id, append, save — because another thread of the process can
come between; `remove_rule` is search, pop, save; saving is two steps, since
`open("w")` empties the file before the flush writes it.  `cut` and `acked`
record what users were told and whether a save was interrupted.

**AlertEngine.**  `file` is `rules.json`, `rules` the daemon's list,
`metricValues` the dictionary of one round, `since` the age of each entry of
`_last_triggered_at` at the time `now` was taken, `lag` what the round has taken
since then, `triggered` the list that is logged afterwards.  `now` is taken before
the first metric is read (`engine.py:175`, `185-186`), so both readings (`Fetch`, up
to `MaxFetchTime`) and notifications (`Fires`, up to `MaxActionTime`) add to `lag`.
Each metric is read, and each rule judged, in a step of its own (`Unreadable`,
`Clears`, `Suppressed`, `Fires`), so that the daemon can die or a user can edit in
between.  Time is relative: only ages up to
the cooldown are kept, which makes the state space finite with no bound on the
length of a behaviour.  `heard`, `fired`, `unheard`, `seenIds`, `recycled` only
observe.

**AlertTail.**  `logs` are the rule logs in lines, `offsets` is
`_alert_log_offsets`, `at` the rule the tick has come to, `reading` what its
`stat` has returned.  `stat` and `read` are two steps with the daemon in
between.  The user's commands run on the tick's event loop and so only between
ticks.  `watched`, `activated`, `shown`, `epoch`, `readEpoch`, `recycled` observe:
`epoch` counts the rotations of a log, `readEpoch` is the one that a rule's offset
belongs to.

**Servers.**  `listener` is the kernel's table of ports, `phase` and `launch` how
far a process has come and what it was started as, `active` its
`_ACTIVE_SERVER` while that runs, `hand` the server that `receiver.main` makes
itself, `web` its dashboard, `chosen` the port that `_find_free_port` found and
let go.  `Import` is the import of the package, which starts a receiver in
*every* program; `HasItsReceiver`, `GetsReceiver`, `GetsNoReceiver`, `RunsByHand`
and `Probe` are the receiver's part of the programs' `main`, `ChoosePort`,
`NoPortLeft` and `BindWeb` the dashboard's.  A process can be killed, and another
program can take or leave a port, between any two of them.  `outcome` and
`vacated` observe.

**NodeStore.**  `owner` is the process that has the receiver's port (which
`Servers` shows to be one), `store` each process's `_nodes` with the age of
`last_seen` instead of the time, `sinceSync` the age of `_last_sync_time`,
`phase` and `answer` where each reading thread is in `sync_from_receiver` and the
snapshot it was sent, `agent` and `timer` where each agent is in its loop.
Asking, answering and applying are three steps: pushes, other threads, the end of
either process or a change of owner come between.  `newest` (in the entries),
`heard`, `taken`, `early`, `spoilt` and `misses` observe.  `Tick` is a second; it
waits for agents that are due, and for nothing else.

**PluginRegistry, DockerProbe, ProcessProbe, Console.**  In `PluginRegistry`,
`turn` is the plugin module the discovery has come to, `stage` how far that one is
(imported, constructed, its commands, metrics and actions merged, its hook run),
`registry` the three dictionaries of `nano_logic.plugins`, `metric` the engine's
own.  Any stage but the hook can raise, and leaves what was merged before.  In
`DockerProbe`, `installed` and `routes` say by what the Docker daemon can be
reached, `state` is each container (or image, network, volume), and a command goes
from its check for an installation through the SDK — a list, then one more request
for each thing, with `pending` and `rows` — to the docker command, from any point at
which the SDK fails.  `ending` is how the docker command came out, by exit code and
by the words that `_classify_cli_failure` and `get_container_logs` look for; `own`
says that a container printed them, whose stderr `docker logs` passes on.  `Logged`
is the container that `docker.logs` is given.  In `ProcessProbe`, `holder` is the process that has each PID,
`todo` and `found` a walk that reads each process once, or twice, and `bound` the
process that a `psutil.Process` was made for.  Things, the Docker daemon and
processes come, go and change between any two of these steps.  `Console` joins
them: `Submit...` is the dispatch of one command to a transformer method, a
registered handler or a fallback, `Answered` and `Prompt` end it.  What surrounds a
command (`installed`, `state`, `holder`, ...) is chosen anew when one begins and
forgotten when it is over, so that sessions are not bounded.  `ending`, `always`,
`ever`, `wasCut`, `seen`, `killed`, `broken`, `tooLate` observe.

**SensorCache, WebDashboard.**  `cached` and `lastRead` are the ages of
`_CACHED_TEMPS` and `_LAST_SENSOR_READ`; `reader` is the thread each request thread
has started, from reading the sensors through storing to stamping.  Looking at the
stamp and setting it are two steps, with other threads between.  In `WebDashboard`,
`at` is where each request is between `do_GET` and its answer, `active` the one
`ACTIVE_RULES`, whose rules carry the version of the file they were loaded from,
`parsed` the version a `load_rules` has read, `index` the place of the iterator of
`get_rules_payload` and `out` what it has collected.  The writer of `rules.json`
empties the file and fills it in two steps, and may never come to the second.
`oldest`, `alone`, `read`, `gap`, `good` observe.

Some definitions are preceded by one commented "A slip": the same definition
with the kind of mistake a change to the code could bring in.  No
specification uses them.  Each property was seen to fail with one of them in
place of the definition that follows it (`mutants` in `PROJECT.json`).

## Runs

| Run | Asks | Result |
|---|---|---|
| `daemon_lock` | three processes spawned, refused, killed at will: the inductive `IInv` (one daemon, a PID file that names it), `DaemonProgress` (nobody waits; a machine that is spawned on again and again ends up monitored), refinement of `Singleton` | holds |
| `rule_file` | dashboard with an HTTP thread, CLI, daemon, failing disk: `IInv` (with the daemon's cache check), `IdsStayUnique`, `SoleEditorPersists`, `DaemonCatchesUp` | holds |
| `rule_file_two_uis` | is the file the common source of truth with two interfaces? | no: the later save erases the other's rule |
| `alert_engine` | rules edited, judged, cooling, a daemon that dies at will: the inductive `IInv`, `NoContradiction`, `RearmsWhenClear`, `FreshRulesFire`, `RepeatsAreSpaced`, `StandingBreachIsReported`, `StoppedRulesFallSilent` | holds |
| `alert_engine_reused_id` | is a rule's first breach always reported? | no: a new rule inherits the cooldown of the stopped one whose id it gets |
| `alert_tail` | a dashboard's ticks against a writing daemon and a rotated log: the inductive `IInv` (no alert a third time), `NothingSkipped`, `NothingReplayed`, `AlertsAreSurfaced` | holds |
| `servers` | two programs of any kind, other programs on the machine: `IInv` (ports and servers account for each other), `FirstComerServes`, `AnotherIsActive`, `StartUpEnds` | holds |
| `receiver_by_hand` | does a receiver run by hand leave its port only to one that goes on running? | no: it takes the server its own import has started for another one, and ends |
| `node_store` | two processes that hand the port to each other, one with a reading thread, and an agent: `IInv` (an accepted push is kept), `NoPhantomNodes`, `HealthyNodesStayOnline`, `FollowersCatchUp` | holds |
| `node_store_token` | do they catch up with `NANO_AUTH_TOKEN` set? | no: the request for a snapshot carries no token |
| `console` | a session over failing plugins, containers, a Docker daemon and processes that come and go: `IInv`, `PluginsAreContained`, `AnswersAreTrue`, `OnlyTheNamedIsKilled`, `CommandsFindTheirWay`, `EveryCommandIsAnswered` | holds |
| `web_dashboard` | request threads that reload, walk and read sensors over a file that others rewrite: the inductive `IInv`, `RulesAreTheFiles`, `SensorsAreRecent`, `EveryRequestIsAnswered` | holds |

The four disagreements, with the sentences of the documents they contradict, are
`findings` in `PROJECT.json`.  The passing runs say how far the same property
*does* hold: one editing process and no reload beside it; ids that are not given
out again; receivers asked for a port that the import does not use; no token.

### What else the code does that a reader might not expect

None of these has a run of its own.  The first three were found by the models that
the properties above are about, which except or contain them; the rest was met
while translating.

* `add_rule` takes the next id from `ACTIVE_RULES`, which `load_rules` clears and
  refills on an HTTP thread (`web.py:227`).  If the reload comes between, two rules
  get one id, or a stop pops the wrong rule, although
  `docs/quality-fixes-changelog.md:115-116` says that the invariant of unique ids
  "holds regardless of caller".  `IdsStayUnique` is about processes that do not serve
  the web page.
* A line written between the `stat` and the `read` of a tick is read by both this
  tick and the next: the docstring of `_check_for_new_alerts` says that a tick reads
  only what was appended since the last one.  `AtMostTwice`: never a third time.
* `nano-web --with-receiver` next to a running program: the bind fails and `main`
  (`web.py:672`) ends with a traceback; the help text of the option (`web.py:667`) says
  "if not running".
* In a served request `get_nodes_payload` always gets the handler's store, so that
  the synchronisation promised at `web.py:337` does not happen, and a standalone
  `nano-web` shows the nodes of its own process only.
* The docker payload's `running_count` (`web.py:324`) is 0 whenever the rows come
  from the SDK; `is_daemon_reachable` does not fall back to the docker command when
  the SDK's ping fails; with the SDK alone and no daemon Docker is "not available".
* `_run_cli` promises never to raise, and so does the module (`docker_probe.py:12`,
  "Never raise: every public entry point returns a user-facing string"), but decoding
  what the docker command has printed can (`docker_probe.py:370`; a `UnicodeDecodeError`
  is none of the exceptions that are caught).  A container that logs bytes which are
  no text is enough, with the SDK absent or failing.  Whatever a transformer method
  raises is printed as a parse error: `CommandsFindTheirWay` says that of the Docker
  commands this happens to `docker.logs` only.
* "Docker: daemon not reachable" is what any failure comes to whose stderr contains
  "no such file or directory" (`docker_probe.py:33`, `387`), also with a daemon that
  answers and misses, say, a container's log file.  The comment above the list
  (lines 27-28) says that its words "indicate a daemon/socket problem rather than a
  genuine command failure".  And `docker logs` hands on the container's own stderr,
  in which each of the words can occur: "no such container" counts even if the command
  succeeded (line 283).  `AnswersAreTrue` excepts both, by `ending`, and shows that
  nothing else misleads.
* The second `cpu_percent()` of `cpu.top` comes right after the first of
  `process_iter` and measures about nothing, so its ranking is arbitrary:
  `AnswersAreTrue` leaves out which processes `cpu.top` leaves out.
* One process that ends, or may not be read, fails `system.processes` as a whole.
* `check` in the CLI evaluates in its own process without a cooldown, and sends the
  notifications again.

### Bounds

* `daemon_lock`: two processes conflict, a third arrives while one is daemon and
  one on its way out.  Nothing else is bounded: processes come and go for ever.
* `rule_file`: two interfaces, one of them also with an HTTP thread;
  `MaxEdits = 2` commands (an addition whose id collides with, or a stop that
  meets, the other one) and `MaxStarts = 2` starts (one each, or a restart).  The
  daemon's rounds, deaths and restarts are not bounded.  One interface leaves its
  rules unnamed and the other names them all alike, so the origin of a rule shows.
* `alert_engine`: two rules at a time out of three conditions, two of them
  contradictory and on one metric; `MaxAdds = 2`, enough to add, stop, and add
  again under the same id.  `MaxFetchTime = 1` and `MaxActionTime = 1`: a reading and a
  notification each take no time or a second, so a round may be late by `MaxLag = 4`.
  `Cooldown = 6` is then the least for which the bound on repeats, `Cooldown - MaxLag = 2`,
  excludes something: a round later than the one that fired comes a second later in any
  case.  Rounds and the daemon's deaths are not bounded.
* `alert_tail`: two rules and two log names (two rules may share one),
  `MaxLines = 3` — one before the watch, one before and one after a `stat` — one
  rotation, one failed call, one restart of the dashboard.  Ticks are not bounded.
* `servers`: two processes that start, end and start again without bound, as any of
  nine launches, and an other program that can take every port.  Port 1 is the
  default receiver's, 2 another receiver's, 3 and 4 the dashboards' (`MaxTries = 2`,
  so that the search can fail).
* `node_store`: one node, since entries of different nodes do not meet; two
  processes, so that the port changes hands and back; one thread that reads the
  first one's store, so that pushes, a change of owner and the end of either
  process come between its steps.  The times are scaled (`Interval = 1`,
  `PushTime = 1`, `OnlineThreshold = 4`, `Throttle = 1`, for 5, 5, 30 and 1): what
  matters is the assumption `2 * (Interval + PushTime) <= OnlineThreshold`, here
  met without slack.  Nothing else is bounded.  Two threads of one process, whose
  answers overtake each other, are left to the proofs, which cover the invariants
  for all readers, processes and times.

* `console`: the Docker plugin and one that is discovered before it and offers a
  command and a metric of Docker's, a built-in metric and an ec2 command; either
  fails at any stage.  Two containers and `MaxChanges = 1` change during a command (of
  a thing or of the Docker daemon): one is enough to come between a list and the
  request for one of its items, or between the SDK and the command.  Two PIDs, three
  processes (one that begins during a command and may take over a PID), rankings of
  one row, one process that may not be looked into.  Of the commands, those that
  differ in their course: a report on running containers, `docker.logs`, the metric's
  count, all the walks over processes.  The number of commands is not bounded.
* `web_dashboard`: two threads under three workloads.  Two requests for the rules, over
  four versions of the file (empty, two rules, one of them, empty); two requests for the
  metrics while time passes, with `Interval = 3`, `ReadTime = 1`, `PollGap = 1` (for
  15 s, what the sensors take, and the page's poll); and one page that asks for
  everything while one edit is made.  Requests, readers and time are not bounded.
  The workloads divide what does not meet: rules and temperatures share no state.

Deadlock is checked in every run.

### Fairness

Weak fairness of what a live process does next, as its scheduler gives it: the
steps of a spawned daemon up to and out of the lock; the rest of a command once
it has begun; an HTTP request once it has begun; the daemon's loop, which has no
exit; the dashboard's tick; the start-up of a program that was launched; an
agent's loop; the readers of a node store, which the daemon's rounds and the web
page's polls are; a command at the prompt, with the probes it runs; each thread of
the web dashboard while it serves a request.  In `NodeStore` two fairness
assumptions are strong: seconds pass however busy the processes are, and a request
that is made again and again is now and then answered, and the answer applied, in
time.  No user has to type, nobody has to start, kill or rotate anything, sensors
need never answer, what a command asks about need not change, no write has to fail or
to succeed: those actions have no fairness.  Where a promise needs a process to stay up, the property says so
(`<>[](daemon # "off")`).

## Proofs

The `_proof` modules of `DaemonLock`, `RuleFile`, `AlertEngine`, `AlertTail`,
`Servers`, `NodeStore`, `Console` and `WebDashboard` are checked by TLAPS for every value of the
constants: any number of processes, threads and ports, any names, metrics,
conditions, files and times, any bounds.

*DaemonLock.*  That two processes never monitor together does not follow from
itself: a step could let a process in that locks while another one monitors.
`LockMatchesPhase` closes the gap — the lock is held exactly by the process
between its `flock` and its release, and only that process changes the PID file.
`IInv` joins it with the types and `PidFileNamesDaemon`, one step per action.
The refinement `LockImplementsSingleton` follows: `StartMonitoring` is
`BecomeDaemon`, leaving or dying in the loop is `Cease`, all else stutters.  The
only assumption is that `None` is no process.

*RuleFile.*  `IInv` has five parts.  `CacheInv` says that the mtime the daemon
has loaded never runs ahead of the file's and that a file with rules has a
positive mtime, so a write always leaves the daemon behind: `DaemonCoherent` is
preserved.  `UniqueInv` adds to `IdsStayUnique` that the id a thread has chosen
stays above all ids of its list until it is appended, and that only processes
that have started do anything; `JobMatchesPhase` that a thread in the middle of
a command has something to add or to stop.  `SoleInv` follows a sole editor through
a command: before the change its list is the file's and the rule to stop is where it
was found; after it, the list holds what the user is about to be told; and the file
is empty only while it is open for writing.  `SoleEditorPersists` follows.  Lemmas
about lists carry it: `RemoveAtKeepsUnique`, `PopToSet`, `AppendKeepsUnique`,
`NextIdIsAbove`.  The assumption, stated in each theorem, is `StampStep \subseteq Nat \ {0}`: every write moves the
file's mtime forward.  It is needed: with a step of 0 (`MCCoarseStamps`: two
writes within one tick of the file system's clock) TLC finds a save that the
daemon never loads.

*AlertEngine.*  `NoContradiction` needs to know why a rule is in `triggered`:
`TriggeredInv` says that it was breached by the value its metric has in this
round, which no later fetch of the round changes, so two rules on one metric are
breached together by that value.  The spacing of repeats needs a relation between
three clocks.  The code stamps a rule with the time its round *began*, while the
notification goes out later, after all readings and notifications up to its own;
`StampInv` bounds the difference by `MaxLag`, and `LagInv` is what bounds that: a
round has taken at most one reading and one notification for each rule it has
passed, and the reading for the rule it has come to.  From `StampInv` follow `RearmsWhenClear` and, for the step
that fires, `RepeatsAreSpaced`.  `FreshRulesFire` needs to know what a stamp says of
a rule: `OneRuleInv` says that under an id given out once the daemon's list and the
file have the same rule, and that a stamp means that it has fired; `IdsInv` that the
daemon knows no id that it has not met, so that a new rule finds a stamp only if its
id is recycled.  The assumptions are the module's own: readings
and thresholds are integers, and the cooldown and the longest that a reading and a
notification take are natural numbers.  With the cooldown below `MaxLag` the bound on
repeats says nothing, and rightly so: rounds that take a minute notify in every one.

*Servers.*  `ServersListen` is an equivalence between the kernel's table and what
the processes know; to keep it, a step that closes one server must not close
another's port, so `ServersOf` adds that no port is two servers of one process,
and that before `up` there is nothing but the receiver of the import or the
start-up.  It also says that a program run as a receiver has an `active` one on the
default port only, which is the reason for `AnotherIsActive`: on any other port,
the one that answers is not the process itself.  The assumptions are what the
command lines can ask for (`LaunchAssumption`), that `Nobody` and `Other` are no
processes, and that the default port is a port.

*NodeStore.*  `HeardInv` says of every entry, in a store or on its way, that it is
no younger than the last push of its node, and as old as that if it holds its
metrics; copying preserves it, and `NoPhantomNodes` follows.  `AcceptedIsKept`
needs `FlightInv`: a process that has the port synchronises only where it asked
before it had it, so an answer that overwrites an accepted push is one of those.
`PunctualInv` bounds the time since the last push by how far the agent has come
and what it has missed; with the assumption on the times, one miss leaves the node
online.  The code's times meet it, 2 (5 + 5) <= 30.

*AlertTail.*  That no line is shown a third time depends on how a line can be shown
twice: `ShownOnce` says that nothing behind the offset was shown more than once, and
nothing behind the size that a `stat` has just returned was shown at all, so that the
lines a read shows again come to lie before the offset with the next one.
`OffsetsAreTracked` says that an offset lies within the log it was taken from, unless
that was rotated, and that all that is behind it — or all of the log, if it was
rotated — is newer than the rule; `NothingReplayed` follows.  `NothingSkipped` is kept
because a read starts at the offset, or at the top of a log that has shrunk, and
leaves the offset at the size that came before it.  The module's bounds are the only
assumptions.

*WebDashboard.*  An answer holds only what `ACTIVE_RULES` held while the request walked
over it, and that is what any load has put there.  `LoadsAreRecent` bounds all of it
from below by `oldest`, the earliest version that a load met by the request may
deliver; `LonelyLoadsAreExact` says what a load finds that meets no other and no edit.
`RequestsBeginAfresh` and `NoFileNoRules` close the cases of a request that has read
nothing.  `ReadersAreFew` keeps a thread from having two readers.  `SensorsAreTimely`
bounds the age of the cache: readers that run together began together, because one
that runs makes the last read recent, so that a reader that stores late brings nothing
older back; between reads the cache ages with the time stamp, and then with the page.
`SensorsAreRecent` follows, from the assumption that a read takes less than the
interval of 15 seconds.

*Console.*  Its three components never act at once (`AtRest`), and each has an
invariant of its own.

*Plugins.*  `PluginsAreContained` speaks of the end of the discovery; on the way,
`RegistryIsFilled` says of the places that have been passed that an entry belongs to
one of them that offers it, that a module which has not failed has all its keys in the
registries, and that a key which no failed module offers is held by the place that
precedes all others passed so far: the last one for a command or an action, the first
for a metric.  A merge adds one place (`MergeFills`); a module that fails passes its
place without having merged, and the second clause then says nothing of its keys.
`EngineIsFilled` is the same for what the engine has copied, less what came
`tooLate`.  At the end all places are passed.  The assumptions: the modules of a
package are distinct, and the engine is none of them.

*Docker.*  `DockerCollects` bounds a report from both sides while it grows: what has
been there since the command began is among the things the SDK has listed or delivered,
and these are among what has been there at some time.  Falling back clears both, so that
the docker command starts from nothing.  What its ending says of the world is the
lemma `EndingsAreTrue`: exit code 127 means that there is no command, the words of a
daemon that cannot be connected to mean that it was cut off, and only a container's
own output says anything else.  `DockerIsTrue` follows, with the two kinds of
misleading words as its exceptions.  The assumptions: there are finitely many things,
and `Logged` is one of them.

*Processes.*  `Throughout` only shrinks, because a process that begins has a number above
all that were there (`HoldersAreSeen`).  `BoundIsHeld` says that the PID a command
has come to belongs to the process it was looked up for, or to nobody, or to one that
began later; so `terminate()`, which compares the two, ends the right one, and the name
that was read while they agreed is its own.  `WalksLeaveNoneOut` says that a walk comes
past each PID once and leaves out none that was there throughout.  That a ranking leaves
out a process only if it is full of rows above it is a counting argument (`TopIsFull`):
the number of rows above a row is less than the number of all rows, no two rows share it
because `Above` orders them, so each number up to there belongs to a row.

*The session.*  `CommandsFindTheirWay` follows from `RegistryIsFilled`, with the
assumption, which `docker_plugin.py` meets, that the Docker plugin offers commands of
the namespace `docker` only, and from `EndingsAreTrue` for the commands that raise.
`EndsAlwaysComeNearer` is what the proof system can say of `EveryCommandIsAnswered`:
the discovery and both probes have natural numbers that each of their own steps lowers
and no step of the machine raises, so none of them goes on forever, for any number of
modules, things and PIDs.  It was checked by TLC on the constants of `console` before
it was proved; no run repeats it.  That there always is a next step, and that it is
taken, stays with the run.

Only model-checked is all liveness, which the prover does not reach: `DaemonProgress`,
`DaemonCatchesUp`, `StandingBreachIsReported`, `StoppedRulesFallSilent`,
`AlertsAreSurfaced`, `StartUpEnds`, `FollowersCatchUp`, `EveryCommandIsAnswered`,
`EveryRequestIsAnswered`.  Every invariant and every other action property that a run
checks is a theorem.  What a list is after one of its elements was taken out is proved
where it is needed (`RemoveAtProperties`, in the proofs about rules, alerts and logs).

## What is abstracted, and what is left out

* The text of `rules.json` is whole, empty, mixed (two overlapping saves) or
  absent; what a parser makes of the last three is an exception that `load_rules`
  swallows.  A rule in `RuleFile` is its id and name; in `AlertEngine` its id and
  condition.  Hand-edited files, and so unknown operators, are not modelled.
* `AlertEngine` changes the file in one step and reloads it in one: that a reload
  gives the daemon the file's rules is what `RuleFile` proves.  An OSError while
  an alert is logged changes nothing there, and the clock only moves forward.
  One interface edits: a new id is above those in the file.
* `MaxFetchTime` and `MaxActionTime` stand for time-outs that the code sets, but it
  sets them per request: `docker.containers.running` may ask the SDK once for the list
  and once for each container, 10 s each, and then the docker command for 10 s
  (`docker_probe.py:22`), an ec2 metric asks the receiver for 0.5 s, a webhook has 5 s
  for each operation on its socket.  That there is a bound at all is an assumption
  about the machine; `MaxLag` is whatever follows from it.  Writing a log line and
  judging a rule take no time.
* In `AlertTail` the list of rules is changed by the user's thread only, and a
  rotated log is emptied, never cut in part.
* In `Servers` one bind is one step and always on all interfaces; a server that
  listens answers.  What it answers, and the two seconds a probe waits, are left
  out.
* In `NodeStore` all processes use one port and one token.  A push is ingested, if
  at all, before its agent gives it up.  A node is its age and whether its metrics
  are the newest; which of several online nodes `get_metric` takes is left out.
* In `PluginRegistry` a plugin's mappings are read one after the other, and what its
  `register` raises is ignored; what a third-party handler does is not ours to say.
* In `DockerProbe` a report's rows are things; what stands in a row is left out.  The
  SDK's behaviour is taken from how the code uses it: a list of containers or images
  asks for each item once more.  The docker command may fail or take too long for
  reasons of its own; that its output is text, but for a container's logs, and that it
  tells a missing container and a missing daemon apart, is assumed of it.
* In `ProcessProbe` psutil's `terminate()` compares the process and signals it in one
  step, a name is readable unless access is denied, and shares do not change while a
  command runs.
* In `Console` the transformer methods that read numbers or run one external command
  are what they can come to: a text, an error in its place (a command that is missing
  or takes too long among them), or, where nothing is caught, a parse error.
* In `WebDashboard` an edit is a new version of the file, and a payload is the rules it
  lists; Docker, nodes and files are stages without content.  A tick comes between any
  two steps of a request but its look at the time stamp and its setting it.

### Not modelled

* The browser page (`ui/web/`), the guide, the logging set-up and the scripts: they
  keep no state that another part reads.
* The dashboard's panels, console wrapping, clipboard and history, the CLI's status
  report, colours and layouts: display only.
* Reads that are one call of psutil, and what the agent collects of its machine: inputs.
* The parsing of commands, which is Lark's, and the payloads of notifications, which
  are I/O; that a notification takes time is in `AlertEngine`.
* A wall clock that is set back (`engine.py:175`): every fired rule stays silent until
  the clock has caught up.  `AlertEngine` keeps ages, not times.
* A push that is ingested after its agent has given it up and has sent a later one
  (`receiver.py:49`): older metrics replace newer ones until the next push.
* The choice of `get_metric` among several online nodes, and the merge of metadata.

## What could follow

1. `MonitorSystem`: lock, rule file, engine and tail composed, for the promise that a
   user relies on: a rule that is added and stays breached shows up in the dashboard.
   The parts' promises are the links of it already: `DaemonProgress`,
   `DaemonCatchesUp`, `StandingBreachIsReported`, `AlertsAreSurfaced`.
2. `NodeStore` with several online nodes and late pushes: that `get_metric` and
   `count_online` agree, and that `client_timestamp` could tell a late push apart.
3. Sensors that take longer to read than the interval of 15 seconds: then readers of
   different ages overtake each other, and an old temperature may replace a new one.
