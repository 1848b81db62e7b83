# A TLA+ model of RootShield

RootShield is a Linux kernel module that watches a device through kprobes and a
netfilter hook, reports and answers violations, and carries an event system, a
rule engine, a plugin manager and a self-protection layer (`src/src/`), with an
HTTP daemon, a command line tool and a netlink client beside it (`src/api`,
`src/cli`, `src/client`). Paths below are relative to the repository root
unless they name a module of this directory.

This directory holds TLA+ modules translated from that code, TLC configurations
that check them on small instances, and theorems checked by TLAPS.

## 1. Inventory

| Component | State | Operations | Interacts with | Hard behaviour |
|---|---|---|---|---|
| Event queue and worker, `src/core/events.c` 16-41, 50-197, 293-360 | ring of 256 slots, head, tail, the atomic `queue_count`, three statistics, `g_dispatcher` with its `running` flag and one delayed work item | `publish_event`, `publish_event_async`, `event_dispatch_worker`, `process_pending_events`, init, exit | published to by self-protection and both plugins; runs on its own single-threaded workqueue | many publishers, a worker that re-arms itself, a second consumer, overflow, teardown under all of them |
| Subscribers, `events.c` 203-291 | linked list, count, one heap object each | subscribe, unsubscribe, dispatch, teardown | called from the worker | the list lock is given up around each callback |
| Load and unload, `src/core/main.c` | none of its own: the order of everybody else's | `root_shield_init`, `root_shield_exit` | every component | partial failure, the rollback chain, handlers running during teardown |
| Runtime configuration, `runtime_config.c` | eleven module parameters, writable through sysfs | init, validate, apply (never called), print | read by main, monitors' responses | read more than once, written at any time |
| Notification, `notification.c` | `nl_sock` | init, cleanup, send | `log_security_event`, `kill_current_process` | test of the socket and its use are apart; no retry |
| Response, `utils/utils.c` | none | `log_security_event`, `kill_current_process` | all monitors, statistics, notification | three flags read one after the other |
| Statistics, `statistics.c` | sixteen atomic counters | init, reset, increment, print | response, main | a violation is counted for a guessed monitor |
| Monitors, `monitors/*.c` | kprobes and one netfilter hook | register, unregister, handlers | response | registration of several probes, some of which may fail |
| Plugin manager, `plugin_manager.c` | list, count, a state per plugin | register, unregister, load, unload, enable, disable, configure, send, broadcast, dependencies | plugins' operations | states changed without a lock, lock dropped around handlers |
| Plugins, `plugins/*.c` | periodic work, profile tree and models, detection counters | init, exit, start, stop, handle_event, worker | plugin manager, event system | a worker that re-arms itself against stop and exit |
| Rule engine, `rules.c` | rule sets (trees by priority and id), conditions, statistics | rules and conditions added and removed, `evaluate_event` | nobody in the tree calls it but main | lock dropped around a custom action |
| Self-protection, `self_protection.c` | 16 integrity slots, lock flag, level, statistics | register, unregister and perform checks, lock, configure | event system | a slot is published before its hash |
| API, CLI, client | SQLite tables behind one mutex; no state; no state | HTTP handlers; sequential commands; receive loop | over HTTP, sysfs, netlink | mostly I/O |

What makes the main components correct:

- *Event queue*: nothing is lost without being counted, nothing is delivered
  twice, what one thread publishes keeps its order, a pending event is eventually
  dispatched, the statistics add up, teardown ends and is safe.
- *Subscribers*: list, count and allocator agree; who stays subscribed is called
  exactly once; nobody runs on a freed subscriber.
- *Load and unload*: a failed load leaves nothing behind; no probe outlives the
  module; nothing uses what has been released; both paths end.
- *Plugin manager*: registry, count and modules agree whatever calls race; with
  calls one after the other the state tells the truth about the plugin, exit
  follows init, and handlers run only while active.
- *Rule engine*: the first matching rule by priority and id decides; each hit is
  counted once as a hit and once as an action; a rule that was hit is not freed
  while the evaluation still needs the lock to use it.
- *Self-protection*: a check that is left alone reports its region only if it
  changed or for lack of memory, and misses no change; count and slots agree; the
  module's references follow its lock.
- *Monitors and response*: a monitor is registered whole or not at all; counters
  agree; the response is what the flags select.
- *Plugins*: periodic work that queues itself is at rest once stopped; an anomaly
  is reported if and only if the model has one; nobody keeps the profiles' lock.

## 2. Modules

| Module | Models | Notes |
|---|---|---|
| `EventRing` | the circular buffer and the counters changed with it | every operator is one critical section of `queue_lock` |
| `EventSystem` | publishers, worker, flushers, timer, teardown around the ring | extends `EventRing` |
| `EventFifo` | what the event system promises: a bounded FIFO that gives up its oldest event | abstract; `EventSystem` implements it |
| `EventDispatch` | the subscriber list and `dispatch_to_subscribers` | the queue that feeds it is `EventSystem`, where a delivery is one step |
| `ModuleLifecycle` | `root_shield_init`, `root_shield_exit`, probe handlers, sysfs flags | the subsystems are names in an order, the socket is a state |
| `PluginManager` | `plugin_manager.c` driving the operations of `anti_rootkit.c` | the registry, the life cycle, walks over the list, the periodic scan |
| `RuleEngine` | the default rule set of `rules.c` and `evaluate_event` | conditions are records, the tree is the sequence it is read in |
| `SelfProtection` | integrity slots and module locking of `self_protection.c` | a region's content stands for its bytes |
| `Monitors` | probes of each monitor, counting and response (`monitors/*.c`, `utils.c`, `statistics.c`) | the probes `ModuleLifecycle` takes as one per monitor |
| `BehavioralAnalyzer` | `behavioral_analyzer.c`: the unlocked model, the profile tree, the periodic work | the control calls in all orders are `PluginManager`'s |
| `MC...` | instances for TLC of the modules above | constants, symmetry and, in four of them, a choice of who takes part |
| `..._proofs`, one for each of the eight modules from `EventSystem` on, `EventFifo` apart | theorems | each extends its module and `TLAPS`; what concerns the ring is in `EventSystem_proofs` |

Operators whose comment starts with "Mutant" are variants of the definition
after them with a plausible bug. They take part in no specification; each is
there to show that a property notices the bug.

### EventSystem

A thread is followed by a `pc`: `pub_pc` for the calls of `publish_event` and
`publish_event_async` (`pub_delayed` tells which), `con_pc` for the executions of
`event_dispatch_worker` by the workqueue thread `Worker` and by the callers of
`process_pending_events` (`Flushers`), `exit_pc` for `exit_event_system`.

| Steps | Code |
|---|---|
| `PublishBegin`, `PublishEnqueue`, `PublishCheckRunning`, `PublishArm` | the test and the id (126-133), the critical section (135-151), the test of `running` (154), `queue_delayed_work` (155) |
| `WorkerStart`, `FlushBegin` | the workqueue starts the function; 333-341 |
| `CheckCount`, `Dequeue`, `DequeueNothing`, `Dispatch` | the loop condition (300), the critical section (301-313), 316 |
| `LoadProcessed`, `StoreProcessed` | the unlocked increment (318) |
| `CheckMore`, `CheckRunning`, `Resched` | the two reads of 323; 324 |
| `ExitStop`, `ExitCancel`, `ExitFlush`, `ExitDestroy`, `ExitFree` | 91; `cancel_delayed_work_sync`; its wait; `destroy_workqueue`; 110-111 |

An event is its id and, as an annotation, the thread that publishes it: the queue
does nothing with the rest. The source name of an event is not its thread. Any
thread that checks integrity publishes as `self_protection`
(`self_protection.c:333`), and the handlers of a plugin all as that plugin. The
work item has the states the kernel's pending bit, timer and cancel mark give
it: `idle`, `delayed`, `queued`, `canceling`. Steps that touch freed memory go
to `oops` instead of being left out. `delivered` is a history variable.

The part of `exit_event_system` that frees the subscribers (101-108) is an
action of `EventDispatch`.

### EventDispatch

Subscribers are heap objects (`Nodes`), because what goes wrong in the lock gap
depends on whether a freed object is reused: a freed node has a poisoned next
pointer, a reused one that is not linked yet points to itself. `Walk` is the
part of the loop between two lock gaps, from a list position to the next
interested node or the end. `1 << event->type` is undefined for the custom types
that start at 1000 (`events.h:34`); `BitsOf` gives both outcomes that builds
produce. `due`, `called` and `undermined` are history.

### ModuleLifecycle

`UpOrder` is the order of `root_shield_init`; `step` walks it up while loading
and down in the rollback and, in the two stretches of `root_shield_exit`, over
the subsystems first and the monitors afterwards. A handler is followed through
its notifications: `send_notification` tests `nl_sock` and uses it later, and the
unload releases it, then clears the pointer. Unregistering waits for the
handlers of that monitor, as `unregister_kprobe` does; kernel versions differ on whether
`nf_unregister_net_hook` itself waits, and the models let it.
Any flag can be written at any time (`Toggle`); `toggled` remembers that one was.
`init_self_protection` is followed in its failing form too, because
`root_shield_init` handles it, although today's code always returns 0. A handler
that finds nothing to report is left out: it uses none of the state here and an
unregistration waits for it as for the others.

### PluginManager

| Steps | Code (`plugin_manager.c` unless named) |
|---|---|
| `RegisterCheck`, `RegisterDuplicate`, `RegisterInsert` | the limit before the lock; the search and the insertion under it (`register_plugin`) |
| `UnregisterBegin`, `UnregisterStop`, `UnregisterExit`, `UnregisterUnlink` | `unregister_plugin`, one step per call into the plugin |
| `Load`, `Enable`, `Disable`, `Unload`, then `EnableTries`, `UnloadDisables`, `CallInit`, `CallStart`, `CallStop`, `CallExit`, `Sets` | the control calls: find and test, call the plugin, set the state |
| `Query`, `Health` | `configure_plugin`, `get_plugin_config`, `get_plugin_stats`; `plugin_health_check` |
| `Broadcast`, `SendEvent`, `CallHandler`, `HandlerRequeues`, `Resume`, `ResumePoisoned` | `broadcast_event` and `enumerate_plugins` with their lock gaps; `send_event_to_plugin`; `anti_rootkit_handle_event` |
| `OpInit`, `OpStart`, `OpStop`, `OpExit`, `ScanFires`, `ScanEnds` | the operations of `anti_rootkit.c` on `private_data` and its delayed work |

`plugin_list_lock` protects the list only, so every test of `plugin->state`, the
call that follows and the assignment after it are separate steps. `data` says
what `private_data` points to: `exit` frees it and nothing resets the pointer, so
it stays `"freed"` until the module is loaded anew. `overlapped` and `straddled`
remember that two control calls, or a handler and a teardown, met in the plugin;
the properties of a single plugin are about the runs in which they did not, and
`bad` records the first bad access, after which nothing more is explored.

### RuleEngine

Rules are `kmalloc` objects with one life each (`mem`), so that a rule found by
`find_rule`, or hit by an evaluation that dropped the lock for its custom action,
can have been freed. `rules` is the order `rb_first` and `rb_next` give. Names are
sequences of parts, compared by `match_string` as the code compares them.

| Steps | Code (`rules.c`) |
|---|---|
| `EvaluateBegin` | the tests before the lock |
| `EvaluateNothing`, `EvaluateWild`, `EvaluateHit` | the walk: no match, a bad pointer in a condition, the first match and the load of `rules_hit` (480) |
| `EvaluateCount` | its store, and the test for a custom action |
| `EvaluateCustom` | the lock gap and what is read in it (486-488) |
| `EvaluateAct`, `EvaluateEnd` | the lock is held, or taken again, and `actions_taken` is loaded; it is stored (490) |
| `ResetBegin`, `ResetWord` | `memset` of the statistics without the lock, one word after the other (549) |

`muddled` remembers that the last reset overlapped an evaluation that was counting.

### SelfProtection

`register_integrity_check` is three steps: `RegisterClaim` (under the lock),
`RegisterHash` or `RegisterHashFails` (outside it), `RegisterCount`. A check looks
at a slot (`CheckLook`, `CheckSkip`), reads and hashes the region (`CheckRead`),
and compares (`CheckPass`, `CheckFail`), all without the lock. `refs` is the
reference count of the kernel module: its users' references and its own.
`data` is the region a checker read, from which the hash in its hands was made;
a read fails for lack of memory only with SHA-256, and is counted as a violation
(lines 176-178, 302). `base` remembers the content a slot's hash was made from,
`disturbed` that a slot changed under a checker.

### Monitors

`register_<m>_monitor` is `RegisterBegin` and one `RegisterProbe` or
`RegisterProbeFails` per probe; the rollback and `unregister_<m>_monitor` share
`UnregisterProbe`, which waits for the probe's handlers. A handler that reports
goes through `Fire`, `CountTotal`, `CountBlocked` and the chain of tests in
`kill_current_process` (`TestKill`, `TestKillAllowed`, `TestNotify`, `TestBlock`).
`GuessesOf` gives for each probe the classes the substring search of
`log_security_event` can take its message for. The third response, "blocked" in the
code's messages, is called `announced`: the code logs, notifies and counts
(`utils.c:87-94`) and stops nothing. What becomes of the operation is the
handler's return value, remembered in `stopped`: the network hook returns `NF_DROP`
after every report, the kprobe handlers return 0. Unregistering a probe is one step
here and two in `ModuleLifecycle`.

### BehavioralAnalyzer

`HandleEvent` is followed by the steps of `update_statistical_model` and
`detect_anomaly` on the global model, each of which reads or writes one field
without a lock:

| Steps | Code (`behavioral_analyzer.c`) |
|---|---|
| `ModelClear`, `ModelFirst` | the first update: the window is cleared, the first value stored (183-197) |
| `ModelStore`, `ModelAdvance` | a later update (200, 201) |
| `ModelMean`, `ModelSetMean`, `ModelVariance`, `ModelSetVariance`, `ModelDeviation`, `ModelSetDeviation` | mean, variance and deviation, each computed and then stored (204-206) |
| `NoDeviation`, `DetectAnomaly`, `ModelScore`, `ModelCompare`, `Alarm` | the test of the deviation, the score, its comparison with the threshold in force, the published event (213-229, 485-507) |
| `ProfileLock`, `ProfileFind`, `ProfileNoMemory`, `ProfileUpdate`, `ProfileUnlock` | the profile of the process, under `tree_lock` (509-553) |

Where the compiler may keep a value or read it again both are possible. A
feature's value is always 1, so the window is the set of its places that hold a
one, and mean, variance, deviation and thresholds are integers in the units the head
of the module names. `ProfileUpdate` always ends the handler: the models of a new
profile have no window (`values` is NULL) and are written through.
`BehavioralConfigure` changes the threshold and `max_profiles` at any time between
init and exit. `disturbed` remembers that another handler wrote to the model since
this one came to it. The work is `"timer"`, `"scan"` (running), `"requeue"` (about to
queue itself) or `"idle"`.

## 3. Runs

| Run | Instance | Properties |
|---|---|---|
| `events` | ring of 3 slots (2 usable), batch of 1, 3 events; 2 publishers, worker and unload at any moment, or 1 publisher, worker and flusher; with fairness | `TypeOK`, `CountIsPendingPlusDropped`, `EventsAccountedFor`, `EachEventInOnePlace`, `ThreadOrder`, `ProcessedNotOverstated`, `StatsBalance`, `NoLostWakeup`, `WorkerStoppedBeforeFree`, `RestIsFinal`, `UnloadFinishes`, `ImplementsFifo` |
| `events_resched` | 1 publisher, worker | `ReschedOnlyIfPending` is violated |
| `dispatch` | limit of 2, 4 objects, 2 names, 2 subscribing threads, 2 dispatches | `SubscriberListConsistent`, `CountOvershoot`, `CalledExactlyOnce` |
| `dispatch_callback` | the same with 3 objects | `CallbackOutsideLockIsSafe` is violated |
| `lifecycle` | 3 of the 7 monitors, handlers on 2 CPUs, 2 violations, with fairness | `NoProbeLeftBehind`, `RollbackComplete`, `OnlyExitPullsTheSocket`, `LoadAndUnloadReturn` |
| `lifecycle_unload` | 3 monitors, 1 CPU | `AllMonitorsUnregistered` is violated |
| `plugins` | limit of 1, 2 plugin modules of the same or of different names, one of them driven by 2 controllers and 1 walker | `TypeOK`, `RegistryConsistent`, `LimitOvershoot`, `SerialControlIsSafe`, `StateTellsTheTruth` |
| `plugins_enable` | 1 plugin, 1 controller | `EnableMakesActive` is violated |
| `rules` | 2 rules, 2 priorities, 3 conditions, 2 events, 2 evaluations; all calls beside 1 evaluator, or 2 evaluators, resets and rules with one kind of condition | `TypeOK`, `SetInOrder`, `FirstMatchWins`, `HitsBalance`, `HitRuleLives` |
| `selfprot` | 2 slots, 2 regions, 2 registering threads, 1 checker, with and without SHA-256 | `TypeOK`, `SlotsAccounted`, `RefsFollowLock`, `VerdictIsRight` |
| `monitors` | the process monitor, or the network and the syscall monitor; 2 CPUs, 2 violations, 1 leaked reference | `MonitorAllOrNothing`, `UndisturbedResponse`, `StatsBalance`, `OnlyUnprivilegedLeak` |
| `analyzer` | a window of 3, 2 thresholds, 2 handlers, events of 2 processes; the whole life with one handler at a time in the global model, or both in it in a started plugin | `OnlyDeadKeepTheLock`, `WorkOnlyWhileStarted`, `UndisturbedAlarm` |

**Casts.** Four instances are two in one run: a variable of the MC module (`cast`,
`enabled`) is chosen once and says who takes part, because everybody at once is more
states than a run can visit. It only forbids actions: each half is a set of
behaviours of the specification itself. What needs both halves together rests on
the theorems of section 4, which have no such restriction.

**Why the bounds are enough.** Three events overflow a ring of two, so both branches
of the full test, the wrap of both indices and the drift of the counter occur; a
batch of one is shorter than what can be pending, so a batch ends with events left.
Two publishers, and two consumers beside one, give every pair of critical sections
in both orders. `StatsBalance` ends when `process_pending_events` handles its first
event: with two consumers `processed_events` loses increments, which is what
`ProcessedNotOverstated` leaves room for. Two racing subscriptions overrun the limit
of two, and a fourth object lets one be freed and reused while three are linked.
Three monitors are a first one, whose failure returns at once, one in the middle and
a last one; two violations let one handler be in each half of its path while the
other is anywhere else. A limit of one plugin lets two registrations race past the
test, and the two modules have either one name or two; two controllers give every
pair of control calls on one plugin. Two rules are enough for a rule to be before,
equal to and behind another, and for one to be hit while the other is removed. With
two slots two registrations can claim both, and an unregistration makes the first
free again under a registration that is still to hash into it. The process monitor
has three probes, so a rollback has none, one or two to undo; the syscall monitor is
the one that does not roll back, and the network monitor the one whose handler stops
what it reports. Two handlers are a stalled one with a stale mean and another that
has moved on; in a window of three one value scores over both thresholds, two over
the smaller and three over neither, so that undisturbed handlers alarm and do not,
and disturbed ones alarm falsely, late or not at all. Deadlock is not checked: a run
ends when its events or violations are used up, when the module is gone, and after a
crash.

**Fairness.** Weak fairness of what the kernel drives: a thread inside a kernel
function, an expired timer, queued work, `insmod` and `rmmod` once begun, a probe
handler once entered. None for calls nobody has to make: publishing, flushing,
unloading, writing a flag, a probe firing.

### What the runs show

The queue is right about its events under every interleaving examined: an event
is pending, dropped and counted, in one consumer's hand, or delivered, and never
two of these; what one thread publishes stays in order although ids are given out
before the lock; the worker never sleeps on a pending event; teardown ends and
never under the worker; and the whole is a bounded FIFO that drops its oldest
event, the promise of fairness included. The
events of one source name have no such order: where two threads publish under it,
the one that drew the lower id can come to the lock last, and the subscribers see
the ids out of order.

Four runs end in a violation, each of a comment in the code:

- `events.c:322`, "Reschedule if more events pending". `queue_count` is raised
  for every event and not lowered for the overwritten one. After the first
  overflow it never comes back to zero and the worker re-arms itself every 10 ms
  on an empty ring. `CountIsPendingPlusDropped` says by exactly how much the
  counter is off; it holds, and is proved.
- `events.c:284`, "Call subscriber callback (outside spinlock for safety)". A
  node can be freed in the gap; the walk then reads its callback and its next
  pointer. `CalledExactlyOnce` says what is still guaranteed for every dispatch
  whose own node was not freed.
- `main.c:214`, "Unregister all monitors". A monitor whose flag was cleared after
  it was registered is skipped, and its probe outlives the module.
- `plugin.h:5-6`, plugins "can be enabled/disabled at runtime". `enable_plugin`
  sends a disabled plugin to `load_plugin`, which accepts only `LOADED`: the call
  returns and the plugin stays disabled until it has been unloaded.

`OnlyExitPullsTheSocket` records where the two teardown paths differ: the rollback
takes the monitors down before the socket, `root_shield_exit` the socket first, so
a handler that has tested `nl_sock` can use it when it is released.
`RollbackComplete` has the failure of the first monitor as its exception: lines
92-97 of `main.c` return without cleaning up.

The registry of plugins is consistent under every race, the limit apart, which
racing registrations pass together as subscribers do, by fewer plugins than
registrations ever were in progress at once (`LimitOvershoot`). A plugin itself is
safe only as long as control calls on it do not overlap and no handler is caught in
a stop or exit; `SerialControlIsSafe` says what is left then: calls on a plugin that
is `LOADED` or in `ERROR` (configuring before loading, exiting twice). Outside that
condition TLC reaches leaks, scans on freed data and handlers of a module that is
gone.

The rule set keeps its order and the first match is the most urgent and oldest one.
Hits and actions are counted exactly, the evaluations between the two counters
apart, as long as no reset overlaps an evaluation that is counting; one that does
leaves them apart until the next reset. The rule of a hit is safe up to the lock
gap; its custom action may find it freed (`EvaluateCustom` then ends the
exploration). The first removal of a rule with a nonzero integer condition frees
that integer as a pointer (`bad_free`, `rules.c:140`), and a number in a string
condition is used as one.

An integrity check that nobody disturbs reports its region only if it changed, or if
there was no memory to hash it: `-ENOMEM` counts as a violation like a change, so an
unchanged region can be reported, and `VerdictIsRight` has that as its exception. A
disturbed one may be wrong: the slot is visible before its hash, a slot cleared
meanwhile counts as a violation, and a registration whose hash failed leaves the
hash of the slot's previous owner, or zeros, which every later check reports. The
count goes negative when a slot is unregistered before it is counted;
`SlotsAccounted` says by how much. Without SHA-256 the fallback adds up bytes and
misses changes that keep the sum.

Monitors leave nothing behind when a probe fails. A handler ends as the flags select
unless one of them changes within its chain of tests; then it may do nothing at all.
That is not what `runtime_config.c:42-48` says of them: under `notify_only`, "Only log
violations without taking action", the network hook drops the packet all the same
(`network_monitor.c:64`), and under `block_only`, "Block operations without killing
the process", a kprobe handler only announces a block, and the operation goes on.
`UndisturbedResponse` states what does happen to the operation.

The behavioral analyzer's handler dies under `tree_lock` with the first profile;
after that the worker, and a stop or exit that waits for it, hang. So there are no
working profiles, against `README.md:69` ("Per-Process Profiling") and the comments
"Create new profile", "Update process-specific model" and "Periodic cleanup of old
profiles" (`behavioral_analyzer.c:513, 524, 591`); `OnlyDeadKeepTheLock` says that
this death is the only way the lock is kept. The walk of `behavioral_exit` over
nodes it has just freed (`behavioral_analyzer.c:376-381`) is for that reason never
reached with a profile. In the global model a handler that stalls can store a mean
of long ago, and whoever combines it with a newer deviation, or only reads it,
alarms falsely, late or not at all. The damage does not last: a handler beside which
nobody else writes to the model computes all of it anew and alarms exactly if the
window scores over the threshold in force (`UndisturbedAlarm`).

Divergences met on the way that no run states:

- `README.md:95` promises 256 events; the full test leaves 255 usable slots.
- "Schedule immediate dispatch" (`events.c:153`) does nothing when the timer of
  an earlier delayed dispatch is armed: the event waits for that timer.
- `init_runtime_config` overwrites what `insmod` was given on its command line,
  against `README.md:330`.
- The "retry mechanism" of `notification.c:41` is a pair of unused constants.
- `log_security_event` looks for words in the message in a fixed order: violations
  seen by the syscall monitor are counted as process or file, never as syscall;
  those of `__kmalloc` and `set_memory_x` never as memory; an unlink as file or exec.
- `increment_blocked` runs for every violation, blocked or only logged.
- The `GROUP_ID` condition compares the uid; network and syscall conditions never
  match; `MAX_RULES` and `MAX_CONDITIONS` are never tested; the `-EEXIST` of
  `add_rule_to_set` cannot happen, since ids are unique.
- `reset_statistics`, `apply_runtime_config`, `check_dependencies` and
  `resolve_dependencies` have no callers.

The model also reaches steps no document forbids: a publisher that outlives
`exit_event_system` reads a NULL dispatcher (`pub_pc = "oops"`), or arms a timer
that fires after `destroy_workqueue` (`work = "oops"`). `RestIsFinal` bounds the
second: only a call that had read `running` before it was cleared can do it. The
first is part of the hazard at `events.c:155` and has no property of its own.

## 4. Proofs

Each module `M` has its theorems in `M_proofs`, laid out alike: the inductive
invariant `IInv` and its parts, lemmas about the operators, for each part a lemma
that every step keeps it (one step per action), and the theorems. `Invariance` is
`Spec => []IInv` everywhere. They hold for every value of the constants that
satisfies the assumptions named below; the runs of section 3 show the same
properties on their instances.

| Module | Theorem | States |
|---|---|---|
| `EventSystem_proofs` | `TypeCorrect` | `Spec => []TypeOK` |
| | `CountDrift` | `Spec => []CountIsPendingPlusDropped` |
| | `WakeupKept` | `Spec => []NoLostWakeup` |
| | `WorkerStopped` | `Spec => []WorkerStoppedBeforeFree` |
| | `RestFinal` | `Spec => RestIsFinal` |
| | `Accounted` | `Spec => []EventsAccountedFor` |
| | `OnePlace` | `Spec => []EachEventInOnePlace` |
| | `InThreadOrder` | `Spec => []ThreadOrder` |
| | `NotOverstated` | `Spec => []ProcessedNotOverstated` |
| | `StatsExact` | `Spec => []StatsBalance` |
| | `FifoImplemented` | `Spec => FifoSafety`: `EventFifo` without its fairness |
| `EventDispatch_proofs` | `ListAgrees` | `Spec => []SubscriberListConsistent` |
| | `BoundedOvershoot` | `Spec => []CountOvershoot` |
| | `ExactlyOnce` | `Spec => CalledExactlyOnce` |
| `ModuleLifecycle_proofs` | `NoProbeStays` | `Spec => []NoProbeLeftBehind` |
| | `RollbackUndoes` | `Spec => []RollbackComplete` |
| | `SocketOnlyInExit` | `Spec => []OnlyExitPullsTheSocket` |
| `PluginManager_proofs` | `TypeCorrect` | `Spec => []TypeOK` |
| | `RegistryAgrees` | `Spec => []RegistryConsistent` |
| | `SerialSafe` | `Spec => []SerialControlIsSafe` |
| | `StateTrue` | `Spec => []StateTellsTheTruth` |
| | `LimitBounded` | `Spec => []LimitOvershoot` |
| `RuleEngine_proofs` | `TypeCorrect` | `Spec => []TypeOK` |
| | `InOrder` | `Spec => []SetInOrder` |
| | `BestMatch` | `Spec => []FirstMatchWins` |
| | `EveryHitCounted` | `Spec => []HitsBalance` |
| | `HitRuleSafe` | `Spec => []HitRuleLives` |
| `SelfProtection_proofs` | `TypeCorrect` | `Spec => []TypeOK` |
| | `CountAccounted` | `Spec => []SlotsAccounted` |
| | `LockIsOneReference` | `Spec => []RefsFollowLock` |
| | `Verdict` | `Spec => VerdictIsRight` |
| `Monitors_proofs` | `AllOrNothing` | `Spec => []MonitorAllOrNothing` |
| | `ResponseBySelection` | `Spec => UndisturbedResponse` |
| | `CountersBalance` | `Spec => []StatsBalance` |
| | `LeakIsUnprivileged` | `Spec => []OnlyUnprivilegedLeak` |
| `BehavioralAnalyzer_proofs` | `DeadKeepsTheLock` | `Spec => []OnlyDeadKeepTheLock` |
| | `WorkCanceled` | `Spec => []WorkOnlyWhileStarted` |
| | `AlarmByWindow` | `Spec => UndisturbedAlarm` |

### The arguments

*EventSystem.* There are two invariants. `IInv` is `TypeOK`,
`CountIsPendingPlusDropped`, `NoLostWakeup` and what makes them inductive: the slots
between head and tail hold real events (`PendingSlotsFilled`), so what a consumer
copies out is one; a thread past its first step holds a real event
(`HeldEventsReal`); a consumer inside its loop body has not used up its batch
(`BatchBound`); and where `exit_event_system` stands fixes `running`, the dispatcher
and the work item (`ExitOrder`). `NoLostWakeup` needs the counter: a consumer that
leaves the loop because it read `queue_count <= 0` leaves nothing behind only
because the counter is never below the number of pending events. `RestFinal`
follows from `TypeOK` and `ExitOrder`.

`DInv` (`DeliveryInvariance`) rests on `IInv` and says where each event is: offered
by a publisher that has its id and not yet the lock, pending, in hand, or delivered.
No id is in two places or beyond the counter (`Known`, `Distinct`, `Apart`); in each
thread ids grow from the delivered over the one in hand and the pending (`InOrder`)
to the one that is offered (`OfferedLast`). The last is what `ThreadOrder` needs:
ids are drawn before the lock, so the order of the queue is not the order of ids,
but one thread offers one event at a time. `Sized` turns sets of ids into numbers
for `EventsAccountedFor`. `RoomToCount` is the invariant of the unlocked increment:
`processed_events`, and every value some consumer is about to write back, leave room
for the deliveries not counted yet; as long as the worker alone has delivered they
are equal (`CountExact`), which is what `StatsExact` needs. `FifoImplemented`
follows from `IInv` and `DInv` step by step: under the mapping `PublishEnqueue` is
an enqueue, with the loss of `Pending[1]` when the ring is full, `Dequeue` a take,
`Dispatch` a delivery, `ExitStop` the closing, and everything else a stutter.

*EventDispatch.* The list has no object twice, its count is its length, and exactly
the linked objects are on it (`ListOK`); an object that is neither free nor linked
belongs to one call of `subscribe_to_events` (`Owned`), so that two racing calls do
not link the same one. A walk whose own node was not freed (`WalksInOrder`) stands
at a linked node with everything still due behind it and everything called
before it; a subscriber appended at the end or removed anywhere keeps that. At the
end of the list nothing can be due any more: `ExactlyOnce`. `CountOvershoot` is
inductive as it stands, because it counts the calls past the unlocked test with the
subscribers.

*ModuleLifecycle.* `StepInPhase` says where `insmod` and `rmmod` can stand,
`HandlersAccounted` that a handler belongs to a registered monitor or to the one
being waited for. With the flags left alone they are all set (`FlagsSet`), so the
registered monitors are those of a prefix of `UpOrder` whose end (`Horizon`) moves with
`step` (`RegisteredInOrder`); it is empty when a path ends. `UpInOrder` is the same for
the subsystems and the socket.

*PluginManager.* `RegistryConsistent` needs that a walker stands at a plugin of the
list until that is unlinked (`StandsInList`). The rest is said plugin by plugin, so
that bad luck of one does not weaken what is known of another: a plugin outside the
list is as its module image has it (`OutsideIsFresh`); where no two control calls
overlapped there is one at most, and only while the module is present (`OneActor`),
and it still finds the state it tested (`StateInCall`); where in addition no handler
was caught in a teardown, `Truth` gives for every step of a call and of the module's
exit what `state`, `private_data` and the scan are. `SerialControlIsSafe` and
`StateTellsTheTruth` follow from `Truth`. `LimitOvershoot` is inductive with the
type of `peak` (`LimitInv`): a registration passes the test only while the count is
below the limit, and then no more of them are in progress than the peak; an
insertion moves one from the registrations to the count.

*RuleEngine.* Order and uniqueness of the set need that ids differ and none is ahead
of the counter (`IdsDiffer`). `BestMatch` is a consequence of `SetInOrder`: among the
enabled rules that match there is a first position, and whatever is more urgent or
older would be before it. `HitsBalance` needs that one evaluation at a time is
inside the lock (`LockInv`), so that what it loaded is still there when it stores, and
what the two words are while a reset is under way (`CountInv`). `HitRuleLives`
needs the lock too: a hit rule is in the set until somebody else gets it.

*SelfProtection.* `SlotsAccounted` counts the slots in use and the registrations in
progress apart, for `unregister` can clear a slot that its registration has not
counted yet.
`UsersInside` (whoever is inside holds a reference) keeps the module from going
away under a call. `BaseIsHashed` connects the history to the stored hash:
a slot that hashed its own region holds the hash of what was there; with `OwnRegion` (an
undisturbed checker has read the region its slot names) an undisturbed comparison is
between two hashes of the same region. `Verdict` is an action property of every step
that raises `violations`, and of the one that ends the comparison.

*Monitors.* A handler runs for a registered probe (`HandlersOnProbes`), a monitor on
its way up has registered every probe before the one it is at (`UpToAt`), and the
position in the chain of tests says what was read of flags that did not change
(`TestsSoFar`), up to the response it ends with (`SelectedAtDone`). `NotYetStopped`
says that `stopped` is decided anew by each handler's return. `StatsBalance` counts
the handlers between two increments, a set that each step enlarges, shrinks or
leaves by at most one.

*BehavioralAnalyzer.* `CancelingInTime` ties the cancel mark to the two
cancellations, which keeps a running worker from queueing itself during them.
`OnlyDeadKeepTheLock` is inductive once handlers exist only after a start
(`EnteredStarted`): the worker's scan and the exit's walk meet an empty tree, for a
profile keeps the lock taken. `AlarmByWindow` rests on `ComputedFromWindow`, which
says for each step of a handler that nobody disturbed what it and the stored fields
hold: the count of ones, the squares about it, the deviation of the window as it is.
The arithmetic is one lemma, `ScoreOfWindow`: for a mean of n ones and their own
variance the score exceeds t exactly if the zeros are more than t times the ones.

### Assumptions on the constants

Each is named in the module that declares the constants, and TLC evaluates it in
every run. Rings have at least two slots (with one slot full and empty would be the
same test; the code has 256), batches at least one event and the list of plugins at
least one place (the code has 16 and 32). Sets of threads or objects whose number a
property counts are finite: flushers, subscribing threads, CPUs, registering
threads, plugins, rules and evaluators. The kernel has finitely many of each;
publishers, controllers and walkers are not counted and may be any set. Markers are
no values (`NoEvent` no event, `NoRegion` no region, `Free`, the unlocked lock, no
handler; the worker no flusher). `UpOrder` lists nothing twice: `root_shield_init`
calls each initialisation once. Priorities are integers, event masks are sets of
bits of an `int`, and the window of the analyzer has at least two places (the code
has 100); squares of thresholds are naturals (a negative threshold would make every
update an alarm). The sets the model draws inputs from are not empty where an
initial value is drawn from them (`Pids`, `Contents`, `Driven`, `Events`).

The bounds that keep runs finite (`MaxEvents`, `MaxViolations`, `MaxLeaks`) are any
natural number in the theorems.

### What is left to TLC

- Liveness: `UnloadFinishes`, `LoadAndUnloadReturn`, and the fairness in
  `ImplementsFifo`, whose safety part is `FifoImplemented`. The prover does not
  handle `ENABLED`, hence neither weak fairness.
- That the four expected violations are reachable.
- That the properties are not idle: every one is violated by a plausible bug put
  into one of the definitions (the operators marked "Mutant").

Nothing is proved by induction over data, which needs library theorems that take an
operator as a parameter. Where an argument needs a first position in a list, the
proofs use that a nonempty set of naturals has a least element, and what removing
an element does to a list is derived from `SubSeq` and concatenation. The models
are written without RECURSIVE operators for that reason.

## 5. Not modelled, and plan

| Part | Why |
|---|---|
| `create_event`, `copy_security_event`, printing (`events.c`) | allocation and output without shared state; no callers |
| `check_dependencies`, `resolve_dependencies` (`plugin_manager.c`) | no callers; a search by name through the list |
| `set_default_rule_set`, rule files (`rules.c`) | one call would only exchange the set; saving and loading are stubs |
| `total_evaluations`, timing averages, hit counts of rules | written without a lock and only printed |
| rootkit detectors (`self_protection.c`, `anti_rootkit.c`) | stubs, or reads of kernel tables; what they find is left open |
| protection level | read only to decide whether a tampering attempt kills |
| the class of a blocked operation | guessed from the command name, used nowhere but in output |
| contents of messages, names and ports the handlers compare with | data no property tells apart |
| API daemon (`src/api`) | SQL statements behind one mutex, each handler one critical section; what it does is in SQL, JSON and HTTP |
| command line tool, dashboard, netlink client | sequential clients of HTTP, sysfs and netlink |
| build files, `architecture.h`, `rootshield.h` | no behaviour at run time |

Next, in this order:

1. What a publisher that outlives the dispatcher can meet (`pub_pc = "oops"`), as a
   bound on the calls concerned, in the proofs of `EventSystem`; and the
   hazards without a property (`events.c:283`, `plugin_manager.c:325`, `rules.c:140`
   and 486), if one can be stated that does not merely repeat the code.
2. Safety lemmas that carry the liveness arguments: that each phase of the load and
   unload paths leads only forward, so that termination has a measure.
3. Larger instances: a second walker in `PluginManager`, a third rule, more of the
   monitors at once.
