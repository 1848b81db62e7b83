---------------------------- MODULE PluginManager ----------------------------
(***************************************************************************)
(* src/src/core/plugin_manager.c with the plugin operations of              *)
(* src/src/plugins/anti_rootkit.c: registration, the life cycle driven by   *)
(* control calls, events sent and broadcast to plugins, and the periodic    *)
(* scan of the plugin.  plugin_list_lock covers only the list: control      *)
(* calls test the state, call the plugin and set the state in three steps,  *)
(* and broadcast_event drops the lock around every handler.                 *)
(*                                                                          *)
(* After the first leak or use of memory that is not there (bad[p]) nothing *)
(* more is explored.  Controllers find a plugin and test its state in one   *)
(* step, and a plugin module is inserted again only when no scan,           *)
(* control call or handler of its previous life is left.                    *)
(***************************************************************************)
EXTENDS Integers, Sequences, SequencesExt, FiniteSetsExt

CONSTANTS
  MaxPlugins,    \* MAX_PLUGINS
  Plugins,       \* plugin modules
  Names,         \* what they may be called
  Driven,        \* the plugins that control calls and events are aimed at
  Controllers,   \* threads in load, unload, enable and disable
  Walkers        \* threads in broadcast_event, enumerate_plugins, send_event

ASSUME PluginManagerAssumption ==
  /\ MaxPlugins \in Nat \ {0}
  /\ IsFiniteSet(Plugins)
  /\ Driven \subseteq Plugins /\ Driven # {}

VARIABLES
  plugin_list, plugin_count,
  name,         \* metadata->name, fixed
  peak,         \* history: the most registrations ever in progress at once
  state,        \* plugin->state
  module,       \* where the module_init or module_exit of the plugin is
  data,         \* what plugin->private_data points to
  work,         \* detection_work of that object
  pc, op, on,   \* controllers: position, call, plugin
  wpc, mode, at, target,  \* walkers: position, call, plugin, whom it is for
  overlapped,   \* history: two control calls were in the plugin at once
  straddled,    \* history: a handler entered or left during a stop or exit
  undermined,   \* history: the plugin a walker stands at was unlinked
  bad, badState \* history: the first bad access or leak, and the state at that time

registry == <<plugin_list, plugin_count, name, peak>>
control  == <<pc, op, on>>
walk     == <<wpc, mode, at, target>>
history  == <<overlapped, straddled, undermined, bad, badState>>
vars == <<registry, state, module, data, work, control, walk, history>>

States == {"UNLOADED", "LOADED", "INITIALIZED", "ACTIVE", "ERROR", "DISABLED"}
\* state >= PLUGIN_STATE_INITIALIZED
AtLeastInitialized == {"INITIALIZED", "ACTIVE", "ERROR", "DISABLED"}

Home == CHOOSE p \in Driven : TRUE

Init ==
  /\ plugin_list = <<>> /\ plugin_count = 0
  /\ name \in [Plugins -> Names] /\ peak = 0
  /\ state = [p \in Plugins |-> "UNLOADED"]
  /\ module = [p \in Plugins |-> "absent"]
  /\ data = [p \in Plugins |-> "null"]
  /\ work = [p \in Plugins |-> "idle"]
  /\ pc = [c \in Controllers |-> "idle"]
  /\ op = [c \in Controllers |-> "none"]
  /\ on = [c \in Controllers |-> Home]
  /\ wpc = [w \in Walkers |-> "idle"]
  /\ mode = [w \in Walkers |-> "none"]
  /\ at = [w \in Walkers |-> Home]
  /\ target = [w \in Walkers |-> {}]
  /\ overlapped = [p \in Plugins |-> FALSE]
  /\ straddled = [p \in Plugins |-> FALSE]
  /\ undermined = [w \in Walkers |-> FALSE]
  /\ bad = [p \in Plugins |-> "no"]
  /\ badState = [p \in Plugins |-> "UNLOADED"]

\* A walker that died inside plugin_list_lock keeps it.
LockFree == \A w \in Walkers : wpc[w] # "stuck"
Registered == ToSet(plugin_list)
Sound == \A p \in Plugins : bad[p] = "no"

ControlledBy(p) == {c \in Controllers : pc[c] # "idle" /\ on[c] = p}
Leaving(p) == module[p] \in {"stop", "exit", "unlink"}
InTeardown(p) ==
  \/ Leaving(p)
  \/ \E c \in ControlledBy(p) : pc[c] \in {"stop", "set_disabled", "exit", "set_loaded"}
InHandler(p) == {w \in Walkers : wpc[w] \in {"call", "scan"} /\ at[w] = p}

-----------------------------------------------------------------------------
(***************************************************************************)
(* The plugin's own operations on private_data.  exit frees it and leaves   *)
(* the pointer; nothing resets it.                                          *)
(***************************************************************************)
Hurt(p, kind) ==
  /\ bad' = [bad EXCEPT ![p] = kind]
  /\ badState' = [badState EXCEPT ![p] = state[p]]
  /\ UNCHANGED <<data, work, straddled>>

Harmless == UNCHANGED <<data, work, straddled, bad, badState>>

Straddle(p) == straddled' = [straddled EXCEPT ![p] = @ \/ InHandler(p) # {}]

\* init allocates the data with a new work item in them; what private_data
\* pointed to before, and a work item still armed there, are out of reach.
OpInit(p) ==
  \/ /\ data[p] # "live"
     /\ data' = [data EXCEPT ![p] = "live"]
     /\ work' = [work EXCEPT ![p] = "idle"]
     /\ UNCHANGED <<bad, badState, straddled>>
  \/ data[p] = "live" /\ Hurt(p, "leak")

OpStart(p) ==
  \/ /\ data[p] = "live"
     /\ work' = [work EXCEPT ![p] = IF @ = "idle" THEN "armed" ELSE @]
     /\ UNCHANGED <<data, bad, badState, straddled>>
  \/ data[p] # "live" /\ Hurt(p, data[p])

\* Mutant: the timer is deleted without waiting and whatever it queued stays.
OpStopNoCancel(p) ==
  \/ /\ data[p] = "live"
     /\ Straddle(p)
     /\ UNCHANGED <<data, work, bad, badState>>
  \/ data[p] # "live" /\ Hurt(p, data[p])

\* cancel_delayed_work_sync also waits for a scan in progress.
OpStop(p) ==
  \/ /\ data[p] = "live" /\ work[p] # "running"
     /\ work' = [work EXCEPT ![p] = "idle"]
     /\ Straddle(p)
     /\ UNCHANGED <<data, bad, badState>>
  \/ data[p] # "live" /\ Hurt(p, data[p])

\* destroy_workqueue waits for a scan in progress but not for the timer.
OpExit(p) ==
  \/ /\ data[p] = "live" /\ work[p] # "running"
     /\ data' = [data EXCEPT ![p] = "freed"]
     /\ Straddle(p)
     /\ UNCHANGED <<work, bad, badState>>
  \/ data[p] = "freed" /\ Hurt(p, "twice")
  \/ data[p] = "null" /\ Harmless

\* configure, get_config and get_stats use the pointer as it is.
OpQuery(p) ==
  \/ data[p] = "live" /\ Harmless
  \/ data[p] # "live" /\ Hurt(p, data[p])

\* health_check tests it for NULL first.
OpHealth(p) ==
  \/ data[p] # "freed" /\ Harmless
  \/ data[p] = "freed" /\ Hurt(p, "freed")

ScanFires(p) ==
  /\ work[p] = "armed" /\ Sound
  /\ \/ /\ data[p] = "live"
        /\ work' = [work EXCEPT ![p] = "running"]
        /\ UNCHANGED <<data, bad, badState, straddled>>
     \/ data[p] # "live" /\ Hurt(p, "scan")
  /\ UNCHANGED <<registry, state, module, control, walk, overlapped, undermined>>

ScanEnds(p) ==
  /\ work[p] = "running" /\ Sound
  /\ work' = [work EXCEPT ![p] = "armed"]
  /\ UNCHANGED <<registry, state, module, data, control, walk, history>>

-----------------------------------------------------------------------------
(***************************************************************************)
(* register_plugin and unregister_plugin, called when the module comes and  *)
(* goes.                                                                    *)
(***************************************************************************)

\* The calls of register_plugin that have passed the test of the limit.
Registering == {p \in Plugins : module[p] = "check"}

Registers(p) ==
  /\ module' = [module EXCEPT ![p] = "check"]
  /\ LET n == Cardinality(Registering) + 1 IN peak' = IF n > peak THEN n ELSE peak
  /\ UNCHANGED <<plugin_list, plugin_count, name, state, data, work, control, walk, history>>

\* Mutant: the test lets one plugin too many pass.
RegisterCheckOffByOne(p) ==
  /\ module[p] = "absent" /\ Sound
  /\ work[p] = "idle" /\ ControlledBy(p) = {} /\ InHandler(p) = {}
  /\ plugin_count <= MaxPlugins
  /\ Registers(p)

\* The limit is tested before the lock is taken.
RegisterCheck(p) ==
  /\ module[p] = "absent" /\ Sound
  /\ work[p] = "idle" /\ ControlledBy(p) = {} /\ InHandler(p) = {}
  /\ plugin_count < MaxPlugins
  /\ Registers(p)

RegisterDuplicate(p) ==
  /\ module[p] = "check" /\ LockFree /\ Sound
  /\ \E q \in Registered : name[q] = name[p]
  /\ module' = [module EXCEPT ![p] = "absent"]
  /\ UNCHANGED <<registry, state, data, work, control, walk, history>>

NewLife(p) ==
  /\ overlapped' = [overlapped EXCEPT ![p] = FALSE]
  /\ straddled' = [straddled EXCEPT ![p] = FALSE]

\* Mutant: the plugin is linked but not counted.
RegisterInsertUncounted(p) ==
  /\ module[p] = "check" /\ LockFree /\ Sound
  /\ plugin_list' = Append(plugin_list, p)
  /\ state' = [state EXCEPT ![p] = "LOADED"]
  /\ module' = [module EXCEPT ![p] = "present"]
  /\ NewLife(p)
  /\ UNCHANGED <<name, peak, plugin_count, data, work, control, walk, undermined, bad, badState>>

\* Mutant: no search for the name.
RegisterInsertAlways(p) ==
  /\ module[p] = "check" /\ LockFree /\ Sound
  /\ plugin_list' = Append(plugin_list, p)
  /\ plugin_count' = plugin_count + 1
  /\ state' = [state EXCEPT ![p] = "LOADED"]
  /\ module' = [module EXCEPT ![p] = "present"]
  /\ NewLife(p)
  /\ UNCHANGED <<name, peak, data, work, control, walk, undermined, bad, badState>>

\* The static structure has come with the module: private_data is NULL.
RegisterInsert(p) ==
  /\ module[p] = "check" /\ LockFree /\ Sound
  /\ \A q \in Registered : name[q] # name[p]
  /\ plugin_list' = Append(plugin_list, p)
  /\ plugin_count' = plugin_count + 1
  /\ state' = [state EXCEPT ![p] = "LOADED"]
  /\ module' = [module EXCEPT ![p] = "present"]
  /\ NewLife(p)
  /\ UNCHANGED <<name, peak, data, work, control, walk, undermined, bad, badState>>

UnregisterBegin(p) ==
  /\ module[p] = "present" /\ Sound
  /\ module' = [module EXCEPT ![p] =
       IF state[p] = "ACTIVE" THEN "stop"
       ELSE IF state[p] \in AtLeastInitialized THEN "exit" ELSE "unlink"]
  /\ overlapped' = [overlapped EXCEPT ![p] = @ \/ ControlledBy(p) # {}]
  /\ UNCHANGED <<registry, state, data, work, control, walk,
                 straddled, undermined, bad, badState>>

UnregisterStop(p) ==
  /\ module[p] = "stop" /\ Sound
  /\ OpStop(p)
  /\ module' = [module EXCEPT ![p] =
       IF state[p] \in AtLeastInitialized THEN "exit" ELSE "unlink"]
  /\ UNCHANGED <<registry, state, control, walk, overlapped, undermined>>

UnregisterExit(p) ==
  /\ module[p] = "exit" /\ Sound
  /\ OpExit(p)
  /\ module' = [module EXCEPT ![p] = "unlink"]
  /\ UNCHANGED <<registry, state, control, walk, overlapped, undermined>>

\* The module goes, with its text and its static structure; a timer that is
\* still armed has nothing left to run.
UnregisterUnlink(p) ==
  /\ module[p] = "unlink" /\ Sound /\ LockFree
  /\ \E i \in DOMAIN plugin_list :
       plugin_list[i] = p /\ plugin_list' = RemoveAt(plugin_list, i)
  /\ plugin_count' = plugin_count - 1
  /\ state' = [state EXCEPT ![p] = "UNLOADED"]
  /\ module' = [module EXCEPT ![p] = "absent"]
  /\ data' = [data EXCEPT ![p] = "null"]
  /\ undermined' = [w \in Walkers |-> undermined[w] \/ (wpc[w] # "idle" /\ at[w] = p)]
  /\ straddled' = [straddled EXCEPT ![p] = @ \/ InHandler(p) # {}]
  /\ UNCHANGED <<name, peak, work, control, walk, overlapped, bad, badState>>

-----------------------------------------------------------------------------
(***************************************************************************)
(* The control calls.  pc names the step that comes next; each of them      *)
(* uses a plugin found earlier, which may be gone by now.                   *)
(***************************************************************************)
\* A call that is over leaves nothing behind.
Go(c, next) ==
  /\ pc' = [pc EXCEPT ![c] = next]
  /\ op' = [op EXCEPT ![c] = IF next = "idle" THEN "none" ELSE @]
  /\ on' = [on EXCEPT ![c] = IF next = "idle" THEN Home ELSE @]

Begin(c, call, p, next) ==
  /\ pc[c] = "idle" /\ LockFree /\ p \in Registered \cap Driven /\ Sound
  /\ pc' = [pc EXCEPT ![c] = next]
  /\ op' = [op EXCEPT ![c] = call]
  /\ on' = [on EXCEPT ![c] = p]
  /\ overlapped' = [overlapped EXCEPT ![p] = @ \/ ControlledBy(p) # {} \/ Leaving(p)]
  /\ UNCHANGED <<registry, state, module, data, work, walk,
                 straddled, undermined, bad, badState>>

Load(c, p) == state[p] = "LOADED" /\ Begin(c, "load", p, "init")

Enable(c, p) ==
  \/ state[p] = "INITIALIZED" /\ Begin(c, "enable", p, "start")
  \/ state[p] \notin {"ACTIVE", "INITIALIZED"} /\ Begin(c, "enable", p, "try")

Disable(c, p) == state[p] = "ACTIVE" /\ Begin(c, "disable", p, "stop")

\* exit is called in whatever state the plugin is.
Unload(c, p) ==
  \/ state[p] = "ACTIVE" /\ Begin(c, "unload", p, "disable")
  \/ state[p] # "ACTIVE" /\ Begin(c, "unload", p, "exit")

\* configure_plugin, get_plugin_config and get_plugin_stats, whatever the state.
Query(p) ==
  /\ LockFree /\ Sound /\ p \in Registered /\ OpQuery(p)
  /\ overlapped' = [overlapped EXCEPT ![p] = @ \/ ControlledBy(p) # {} \/ Leaving(p)]
  /\ UNCHANGED <<registry, state, module, control, walk, undermined>>

Health(p) ==
  /\ LockFree /\ Sound /\ p \in Registered /\ OpHealth(p)
  /\ overlapped' = [overlapped EXCEPT ![p] = @ \/ ControlledBy(p) # {} \/ Leaving(p)]
  /\ UNCHANGED <<registry, state, module, control, walk, undermined>>

\* A step of c on a plugin that is still there.
Here(c, step) == pc[c] = step /\ module[on[c]] # "absent" /\ Sound

Calls(c) == UNCHANGED <<registry, state, module, walk, overlapped, undermined>>

\* load_plugin inside enable_plugin finds the plugin and tests its state anew.
EnableTries(c) ==
  /\ Here(c, "try") /\ LockFree
  /\ Go(c, IF on[c] \in Registered /\ state[on[c]] = "LOADED" THEN "init" ELSE "idle")
  /\ UNCHANGED <<registry, state, module, data, work, walk, history>>

\* disable_plugin inside unload_plugin does too.
UnloadDisables(c) ==
  /\ Here(c, "disable") /\ LockFree
  /\ Go(c, IF on[c] \in Registered /\ state[on[c]] = "ACTIVE" THEN "stop" ELSE "exit")
  /\ UNCHANGED <<registry, state, module, data, work, walk, history>>

CallInit(c) ==
  /\ Here(c, "init")
  /\ \/ OpInit(on[c]) /\ Go(c, "set_initialized")
     \/ /\ Go(c, "set_error")    \* -ENOMEM, private_data as it was
        /\ Harmless
  /\ Calls(c)

\* Mutant: the result of start is not looked at.
CallStartUnchecked(c) ==
  /\ Here(c, "start")
  /\ \/ OpStart(on[c]) /\ Go(c, "set_active")
     \/ Go(c, "set_active") /\ Harmless
  /\ Calls(c)

CallStart(c) ==
  /\ Here(c, "start")
  /\ \/ OpStart(on[c]) /\ Go(c, "set_active")
     \/ /\ Go(c, "set_error")
        /\ Harmless
  /\ Calls(c)

CallStop(c) == Here(c, "stop") /\ OpStop(on[c]) /\ Go(c, "set_disabled") /\ Calls(c)
CallExit(c) == Here(c, "exit") /\ OpExit(on[c]) /\ Go(c, "set_loaded") /\ Calls(c)

\* What the call does after it has set the state.
AfterSet(c) ==
  CASE pc[c] = "set_initialized" /\ op[c] = "enable" -> "start"
    [] pc[c] = "set_disabled" /\ op[c] = "unload" -> "exit"
    [] OTHER -> "idle"

SetState(c, step, s) ==
  /\ Here(c, step)
  /\ state' = [state EXCEPT ![on[c]] = s]
  /\ Go(c, AfterSet(c))
  /\ UNCHANGED <<registry, module, data, work, walk, history>>

Sets(c) ==
  \/ SetState(c, "set_initialized", "INITIALIZED")
  \/ SetState(c, "set_error", "ERROR")
  \/ SetState(c, "set_active", "ACTIVE")
  \/ SetState(c, "set_disabled", "DISABLED")
  \/ SetState(c, "set_loaded", "LOADED")

\* The structure went with the module.
UsesGonePlugin(c) ==
  /\ pc[c] # "idle" /\ module[on[c]] = "absent" /\ Sound
  /\ Hurt(on[c], "gone")
  /\ UNCHANGED <<registry, state, module, control, walk, overlapped, undermined>>

-----------------------------------------------------------------------------
(***************************************************************************)
(* broadcast_event, send_event_to_plugin and enumerate_plugins.  "call" is  *)
(* about to call the handler, "scan" is inside the scan that the handler of *)
(* a suspicious event runs, "return" is about to take the lock again.       *)
(***************************************************************************)
\* unregister_plugin leaves the state ACTIVE while it stops and exits the
\* plugin, and disable_plugin does until it has stopped it.
Walks(w) ==
  /\ straddled' = [p \in Plugins |-> straddled[p] \/
       (wpc'[w] = "call" /\ at'[w] = p /\ InTeardown(p))]
  /\ UNCHANGED <<registry, state, module, data, work, control,
                 overlapped, bad, badState>>

Visits(m, ps, p) == m = "enumerate" \/ (state[p] = "ACTIVE" /\ p \in ps)

WalkerAt(w, step, m, p, ps) ==
  /\ wpc' = [wpc EXCEPT ![w] = step]
  /\ mode' = [mode EXCEPT ![w] = m]
  /\ at' = [at EXCEPT ![w] = p]
  /\ target' = [target EXCEPT ![w] = ps]

WalkerDone(w) == WalkerAt(w, "idle", "none", Home, {})

\* Go on, inside the lock, to the first plugin of rest that is to be called.
Advance(w, m, ps, rest) ==
  LET hits == {i \in DOMAIN rest : Visits(m, ps, rest[i])} IN
  \/ hits = {} /\ WalkerDone(w)
  \/ /\ hits # {}
     /\ WalkerAt(w, IF m = "enumerate" THEN "return" ELSE "call", m, rest[Min(hits)], ps)

Broadcast(w, m, ps) ==
  /\ wpc[w] = "idle" /\ LockFree /\ Sound
  /\ Advance(w, m, ps, plugin_list)
  /\ UNCHANGED undermined
  /\ Walks(w)

\* The caller has the structure at hand; there is no lock.
SendEvent(w, p) ==
  /\ wpc[w] = "idle" /\ Sound /\ module[p] # "absent" /\ state[p] = "ACTIVE"
  /\ WalkerAt(w, "call", "send", p, {p})
  /\ UNCHANGED undermined
  /\ Walks(w)

\* A handler returns, to the walk or to the caller of send_event_to_plugin.
Return(w) ==
  \/ mode[w] = "send" /\ WalkerDone(w) /\ undermined' = [undermined EXCEPT ![w] = FALSE]
  \/ /\ mode[w] # "send" /\ wpc' = [wpc EXCEPT ![w] = "return"]
     /\ UNCHANGED <<mode, at, target, undermined>>

Handles(w, step) ==
  /\ wpc[w] = step /\ Sound
  /\ UNCHANGED <<registry, state, module, control, overlapped>>
StaysAt(w) == UNCHANGED <<mode, at, target, undermined>>

\* EVENT_MODULE_LOADED of at least a warning starts a scan in the caller;
\* every other event is ignored.
CallHandler(w) == LET p == at[w] IN
  /\ Handles(w, "call")
  /\ \/ module[p] # "absent" /\ Return(w) /\ Harmless
     \/ /\ module[p] # "absent" /\ data[p] = "live"
        /\ wpc' = [wpc EXCEPT ![w] = "scan"] /\ StaysAt(w) /\ Harmless
     \/ /\ module[p] # "absent" /\ data[p] # "live"
        /\ Hurt(p, data[p]) /\ UNCHANGED <<walk, undermined>>
     \/ module[p] = "absent" /\ Hurt(p, "gone") /\ UNCHANGED <<walk, undermined>>

\* The scan ends by queueing the work, stopped or not.
HandlerRequeues(w) == LET p == at[w] IN
  /\ Handles(w, "scan")
  /\ \/ module[p] # "absent" /\ OpStart(p) /\ Return(w)
     \/ module[p] = "absent" /\ Hurt(p, "gone") /\ UNCHANGED <<walk, undermined>>

Resume(w) ==
  /\ wpc[w] = "return" /\ LockFree /\ Sound /\ ~undermined[w]
  /\ LET i == CHOOSE i \in DOMAIN plugin_list : plugin_list[i] = at[w]
     IN  Advance(w, mode[w], target[w], SubSeq(plugin_list, i + 1, Len(plugin_list)))
  /\ UNCHANGED undermined
  /\ Walks(w)

\* list_del has poisoned the links of the plugin it stands at.
ResumePoisoned(w) ==
  /\ wpc[w] = "return" /\ LockFree /\ Sound /\ undermined[w]
  /\ wpc' = [wpc EXCEPT ![w] = "stuck"]
  /\ UNCHANGED <<mode, at, target, undermined>>
  /\ Walks(w)

-----------------------------------------------------------------------------
ModuleStep(p) ==
  \/ RegisterCheck(p) \/ RegisterDuplicate(p) \/ RegisterInsert(p)
  \/ UnregisterBegin(p) \/ UnregisterStop(p) \/ UnregisterExit(p) \/ UnregisterUnlink(p)
  \/ ScanFires(p) \/ ScanEnds(p)

ControlCall(c, p) ==
  Load(c, p) \/ Enable(c, p) \/ Disable(c, p) \/ Unload(c, p)

ControlStep(c) ==
  \/ EnableTries(c) \/ UnloadDisables(c) \/ CallInit(c) \/ CallStart(c) \/ CallStop(c) \/ CallExit(c)
  \/ Sets(c) \/ UsesGonePlugin(c)

WalkStep(w) == CallHandler(w) \/ HandlerRequeues(w) \/ Resume(w) \/ ResumePoisoned(w)

Next ==
  \/ \E p \in Plugins : ModuleStep(p)
  \/ \E c \in Controllers, p \in Driven : ControlCall(c, p)
  \/ \E p \in Driven : Query(p) \/ Health(p)
  \/ \E c \in Controllers : ControlStep(c)
  \/ \E w \in Walkers, ps \in SUBSET Driven : Broadcast(w, "broadcast", ps)
  \/ \E w \in Walkers : Broadcast(w, "enumerate", {})
  \/ \E w \in Walkers, p \in Driven : SendEvent(w, p)
  \/ \E w \in Walkers : WalkStep(w)

Spec == Init /\ [][Next]_vars

-----------------------------------------------------------------------------
(***************************************************************************)
(* Correctness.                                                             *)
(***************************************************************************)

\* Every variable has its type; the count never falls below zero.
TypeOK ==
  /\ plugin_list \in Seq(Plugins) /\ plugin_count \in Nat
  /\ state \in [Plugins -> States]
  /\ module \in [Plugins -> {"absent", "check", "present", "stop", "exit", "unlink"}]
  /\ data \in [Plugins -> {"null", "live", "freed"}]
  /\ work \in [Plugins -> {"idle", "armed", "running"}]
  /\ on \in [Controllers -> Plugins] /\ at \in [Walkers -> Plugins]
  /\ wpc \in [Walkers -> {"idle", "call", "scan", "return", "stuck"}]

\* The registry, its count and the modules that are there agree, and no name
\* is registered twice: register_plugin and unregister_plugin against each
\* other (plugin_manager.c:49-72, 99-103).
RegistryConsistent ==
  /\ plugin_count = Len(plugin_list)
  /\ Registered = {p \in Plugins : module[p] \in {"present", "stop", "exit", "unlink"}}
  /\ \A i, j \in DOMAIN plugin_list :
       name[plugin_list[i]] = name[plugin_list[j]] => i = j

\* Registrations that race past the unlocked test overrun the limit, by fewer
\* plugins than there ever were registrations in progress at once; without a
\* race the limit holds (plugin_manager.c:43).
LimitOvershoot == plugin_count + Cardinality(Registering) < MaxPlugins + peak

Serial(p) == ~overlapped[p] /\ ~straddled[p]

\* As long as control calls on a plugin come one after the other and no event
\* handler is caught in a stop or an exit, the manager never overwrites live
\* private data, never lets a scan fire on freed data, and the only bad
\* accesses are calls on a plugin that is LOADED or in ERROR: configure
\* before load, exit a second time (unload_plugin, unregister_plugin).
SerialControlIsSafe ==
  \A p \in Plugins : Serial(p) /\ bad[p] # "no" =>
    /\ badState[p] \in {"LOADED", "ERROR"}
    /\ bad[p] \in {"null", "freed", "twice"}

\* Between such calls the state tells the truth: the periodic scan is armed
\* exactly when the plugin is ACTIVE (a scan an event started included), and
\* private data exist exactly from a successful init to the exit.
StateTellsTheTruth ==
  \A p \in Plugins : Serial(p) /\ Sound /\ ControlledBy(p) = {} /\ ~Leaving(p) =>
    /\ work[p] # "idle" <=> state[p] = "ACTIVE"
    /\ state[p] \in {"INITIALIZED", "ACTIVE", "DISABLED"} => data[p] = "live"
    /\ state[p] \in {"UNLOADED", "LOADED"} => data[p] # "live"

\* plugin.h:5-6 has plugins "enabled/disabled at runtime": a call of
\* enable_plugin that returns leaves the plugin running, or in ERROR when it
\* could not be initialised or started, unless another call came in between.
EnableMakesActive ==
  [][\A c \in Controllers :
       op[c] = "enable" /\ pc'[c] = "idle" /\ ~overlapped[on[c]]
         => state'[on[c]] \in {"ACTIVE", "ERROR"}]_vars
=============================================================================
