--------------------------- MODULE ModuleLifecycle ---------------------------
(***************************************************************************)
(* Loading and unloading of RootShield (src/src/core/main.c): the order in  *)
(* which subsystems and monitors come up, the goto chain that undoes a      *)
(* failed load, and the order of root_shield_exit, against probe handlers   *)
(* that run on any CPU from the moment a monitor is registered and against  *)
(* the sysfs files through which the *_monitor_enabled flags can be written *)
(* at any time.                                                             *)
(*                                                                          *)
(* A handler is followed through the two calls that use shared state:       *)
(* log_security_event counts the violation and sends a notification,        *)
(* kill_current_process sends another; send_notification tests nl_sock and   *)
(* uses it later.                                                           *)
(***************************************************************************)
EXTENDS Integers, Sequences, SequencesExt

CONSTANTS
  MonitorOrder,   \* the monitors in the order of root_shield_init
  Cpus,           \* where handlers run
  MaxViolations   \* bound of the runs on the violations counted

Monitors == ToSet(MonitorOrder)

\* root_shield_init up to its first monitor.
SubsystemOrder == <<"notification", "events", "rules", "plugins", "self_protection">>
Subsystems == ToSet(SubsystemOrder)
UpOrder    == SubsystemOrder \o MonitorOrder

ASSUME ModuleLifecycleAssumption ==
  /\ MonitorOrder \in Seq(Monitors) /\ MonitorOrder # <<>>
  /\ IsInjective(UpOrder)
  /\ MaxViolations \in Nat

VARIABLES
  phase,        \* "load", "rollback", "failed", "live", "exit", "gone"
  step,         \* index in UpOrder of what is next, up or down
  up,           \* subsystems initialised
  enabled,      \* the *_monitor_enabled flags
  registered,   \* monitors whose probes can fire
  draining,     \* an unregistration is waiting for handlers to leave
  nl_sock,      \* "null", "open", or "released" but not yet NULL
  failed_at,    \* what made the load fail
  violations,   \* statistics: total violations
  printed,      \* the total print_statistics showed, -1 before
  han_pc,       \* where the handler on each CPU is
  han_mon,      \* whose probe it serves
  crash,        \* "none", "socket" or "text": freed memory was used
  toggled       \* history: a flag was written through sysfs

loadVars == <<phase, step, up, registered, draining, nl_sock, failed_at, printed>>
hanVars  == <<violations, han_pc, han_mon, crash>>
sysfs    == <<enabled, toggled>>
vars     == <<loadVars, hanVars, sysfs>>

NoMonitor == "none"

Init ==
  /\ phase = "load"
  /\ step = 0
  /\ up = {}
  /\ enabled \in [Monitors -> BOOLEAN]
  /\ registered = {}
  /\ draining = FALSE
  /\ nl_sock = "null"
  /\ failed_at = "none"
  /\ violations = 0
  /\ printed = -1
  /\ han_pc = [c \in Cpus |-> "idle"]
  /\ han_mon = [c \in Cpus |-> NoMonitor]
  /\ crash = "none"
  /\ toggled = FALSE

\* A crash is the end of the machine.
Alive     == crash = "none"
During(p) == Alive /\ phase = p

\* init_runtime_config writes config.h's defaults over whatever insmod set:
\* every monitor on and a policy that validate_security_policy accepts.
InitConfig ==
  /\ During("load") /\ step = 0
  /\ step' = 1
  /\ enabled' = [m \in Monitors |-> TRUE]
  /\ UNCHANGED <<phase, up, registered, draining, nl_sock, failed_at, printed,
                 hanVars, toggled>>

InitSubsystem ==
  LET x == UpOrder[step]
  IN  /\ During("load") /\ step \in 1 .. Len(SubsystemOrder)
      /\ up' = up \cup {x}
      /\ nl_sock' = IF x = "notification" THEN "open" ELSE nl_sock
      /\ step' = step + 1
      /\ UNCHANGED <<phase, registered, draining, failed_at, printed, hanVars, sysfs>>

\* Everything but self-protection makes the load fail and undoes what came
\* before it.
InitSubsystemFails ==
  LET x == UpOrder[step]
  IN  /\ During("load") /\ step \in 1 .. Len(SubsystemOrder)
      /\ \/ /\ x = "self_protection"
            /\ step' = step + 1
            /\ UNCHANGED <<phase, failed_at>>
         \/ /\ x # "self_protection"
            /\ phase' = "rollback"
            /\ step' = step - 1
            /\ failed_at' = x
      /\ UNCHANGED <<up, registered, draining, nl_sock, printed, hanVars, sysfs>>

AtMonitor == step \in Len(SubsystemOrder) + 1 .. Len(UpOrder)

RegisterMonitor ==
  /\ During("load") /\ AtMonitor
  /\ registered' = IF enabled[UpOrder[step]]
                   THEN registered \cup {UpOrder[step]} ELSE registered
  /\ step' = step + 1
  /\ UNCHANGED <<phase, up, draining, nl_sock, failed_at, printed, hanVars, sysfs>>

\* Mutant: the goto names the label after the one it needs.
RegisterMonitorFailsWrongLabel ==
  LET m == UpOrder[step]
  IN  /\ During("load") /\ AtMonitor
      /\ enabled[m]
      /\ failed_at' = m
      /\ IF m = Head(MonitorOrder)
         THEN phase' = "failed" /\ UNCHANGED step
         ELSE phase' = "rollback" /\ step' = step - 2
      /\ UNCHANGED <<up, registered, draining, nl_sock, printed, hanVars, sysfs>>

\* The first monitor's failure returns at once; the others jump to the label
\* of the one before.
RegisterMonitorFails ==
  LET m == UpOrder[step]
  IN  /\ During("load") /\ AtMonitor
      /\ enabled[m]
      /\ failed_at' = m
      /\ IF m = Head(MonitorOrder)
         THEN phase' = "failed" /\ UNCHANGED step
         ELSE phase' = "rollback" /\ step' = step - 1
      /\ UNCHANGED <<up, registered, draining, nl_sock, printed, hanVars, sysfs>>

InitDone ==
  /\ During("load") /\ step = Len(UpOrder) + 1
  /\ phase' = "live"
  /\ UNCHANGED <<step, up, registered, draining, nl_sock, failed_at, printed,
                 hanVars, sysfs>>
-----------------------------------------------------------------------------
(***************************************************************************)
(* Taking things down, in rollback and in exit.                             *)
(***************************************************************************)

\* unregister_kprobe / nf_unregister_net_hook: no new handler starts, and the
\* call returns when those that run are done.  A flag that reads false skips
\* the call.
UnregisterBegin(m) ==
  /\ ~draining
  /\ enabled[m]
  /\ registered' = registered \ {m}
  /\ draining' = TRUE

\* Mutant: handlers in flight are not waited for.
UnregisterEndAtOnce(m) ==
  /\ draining
  /\ draining' = FALSE
  /\ UNCHANGED registered

UnregisterEnd(m) ==
  /\ draining
  /\ \A c \in Cpus : han_mon[c] # m
  /\ draining' = FALSE
  /\ UNCHANGED registered

UnregisterSkip(m) ==
  /\ ~draining
  /\ ~enabled[m]
  /\ UNCHANGED <<registered, draining>>

\* netlink_kernel_release, then nl_sock = NULL.
ReleaseSocket ==
  /\ nl_sock = "open"
  /\ nl_sock' = "released"

ClearSocket ==
  /\ nl_sock # "open"
  /\ nl_sock' = "null"

\* The cleanup labels, from the one jumped to down to cleanup_stats.  There
\* is none for the plugin manager and for self-protection.
RollbackMonitor ==
  /\ During("rollback") /\ AtMonitor
  /\ \/ UnregisterBegin(UpOrder[step]) /\ UNCHANGED step
     \/ UnregisterEnd(UpOrder[step]) /\ step' = step - 1
     \/ UnregisterSkip(UpOrder[step]) /\ step' = step - 1
  /\ UNCHANGED <<phase, up, nl_sock, failed_at, printed, hanVars, sysfs>>

\* Mutant: cleanup_events is missing.
RollbackSubsystemKeepsEvents ==
  LET x == UpOrder[step]
  IN  /\ During("rollback") /\ step \in 1 .. Len(SubsystemOrder)
      /\ IF x = "notification"
         THEN \/ ReleaseSocket /\ UNCHANGED <<up, step>>
              \/ ClearSocket /\ up' = up \ {x} /\ step' = step - 1
         ELSE /\ up' = IF x = "rules" THEN up \ {x} ELSE up
              /\ step' = step - 1
              /\ UNCHANGED nl_sock
      /\ UNCHANGED <<phase, registered, draining, failed_at, printed, hanVars, sysfs>>

RollbackSubsystem ==
  LET x == UpOrder[step]
  IN  /\ During("rollback") /\ step \in 1 .. Len(SubsystemOrder)
      /\ IF x = "notification"
         THEN \/ ReleaseSocket /\ UNCHANGED <<up, step>>
              \/ ClearSocket /\ up' = up \ {x} /\ step' = step - 1
         ELSE /\ up' = IF x \in {"rules", "events"} THEN up \ {x} ELSE up
              /\ step' = step - 1
              /\ UNCHANGED nl_sock
      /\ UNCHANGED <<phase, registered, draining, failed_at, printed, hanVars, sysfs>>

RollbackDone ==
  /\ During("rollback") /\ step = 0
  /\ phase' = "failed"
  /\ UNCHANGED <<step, up, registered, draining, nl_sock, failed_at, printed,
                 hanVars, sysfs>>

ExitBegin ==
  /\ During("live")
  /\ phase' = "exit"
  /\ step' = Len(SubsystemOrder)
  /\ UNCHANGED <<up, registered, draining, nl_sock, failed_at, printed, hanVars, sysfs>>

\* Self-protection, plugins, rules, events, notification: the monitors are
\* still registered.
ExitSubsystem ==
  LET x == UpOrder[step]
  IN  /\ During("exit") /\ step \in 1 .. Len(SubsystemOrder) /\ printed = -1
      /\ IF x = "notification"
         THEN \/ ReleaseSocket /\ UNCHANGED <<up, step>>
              \/ ClearSocket /\ up' = up \ {x} /\ step' = step - 1
         ELSE up' = up \ {x} /\ step' = step - 1 /\ UNCHANGED nl_sock
      /\ UNCHANGED <<phase, registered, draining, failed_at, printed, hanVars, sysfs>>

ExitPrintStatistics ==
  /\ During("exit") /\ step = 0
  /\ printed' = violations
  /\ step' = Len(UpOrder)
  /\ UNCHANGED <<phase, up, registered, draining, nl_sock, failed_at, hanVars, sysfs>>

ExitMonitor ==
  /\ During("exit") /\ AtMonitor
  /\ \/ UnregisterBegin(UpOrder[step]) /\ UNCHANGED step
     \/ UnregisterEnd(UpOrder[step]) /\ step' = step - 1
     \/ UnregisterSkip(UpOrder[step]) /\ step' = step - 1
  /\ UNCHANGED <<phase, up, nl_sock, failed_at, printed, hanVars, sysfs>>

ExitDone ==
  /\ During("exit") /\ step = Len(SubsystemOrder) /\ printed # -1
  /\ phase' = "gone"
  /\ UNCHANGED <<step, up, registered, draining, nl_sock, failed_at, printed,
                 hanVars, sysfs>>
-----------------------------------------------------------------------------
(***************************************************************************)
(* The probe handlers and the sysfs files.                                  *)
(***************************************************************************)

\* The kernel frees the module's text when init has failed and when exit has
\* returned.
TextFreed == phase \in {"failed", "gone"}

\* A probe fires.
HandlerEnter(c, m) ==
  /\ Alive
  /\ han_pc[c] = "idle" /\ m \in registered
  /\ violations < MaxViolations
  /\ IF TextFreed
     THEN crash' = "text" /\ UNCHANGED <<violations, han_pc, han_mon>>
     ELSE /\ violations' = violations + 1
          /\ han_pc' = [han_pc EXCEPT ![c] = "log"]
          /\ han_mon' = [han_mon EXCEPT ![c] = m]
          /\ UNCHANGED crash
  /\ UNCHANGED <<loadVars, sysfs>>

\* The handler's path: log_security_event, then kill_current_process.
After(pc) == IF pc \in {"log", "log_send"} THEN "kill" ELSE "idle"

Advance(c, pc) ==
  /\ han_pc' = [han_pc EXCEPT ![c] = pc]
  /\ han_mon' = [han_mon EXCEPT ![c] = IF pc = "idle" THEN NoMonitor ELSE @]

\* Mutant: a missing socket is waited for.
HandlerTestSocketRetries(c) ==
  /\ Alive
  /\ han_pc[c] \in {"log", "kill"}
  /\ nl_sock # "null"
  /\ crash' = IF TextFreed THEN "text" ELSE crash
  /\ Advance(c, IF han_pc[c] = "log" THEN "log_send" ELSE "kill_send")
  /\ UNCHANGED <<loadVars, sysfs, violations>>

\* send_notification: the test of nl_sock.
HandlerTestSocket(c) ==
  /\ Alive
  /\ han_pc[c] \in {"log", "kill"}
  /\ crash' = IF TextFreed THEN "text" ELSE crash
  /\ Advance(c, IF nl_sock = "null" THEN After(han_pc[c])
                ELSE IF han_pc[c] = "log" THEN "log_send" ELSE "kill_send")
  /\ UNCHANGED <<loadVars, sysfs, violations>>

\* kill_current_process with all of its three flags off only counts.
HandlerKillsQuietly(c) ==
  /\ Alive
  /\ han_pc[c] = "kill"
  /\ crash' = IF TextFreed THEN "text" ELSE crash
  /\ Advance(c, "idle")
  /\ UNCHANGED <<loadVars, sysfs, violations>>

\* nlmsg_multicast(nl_sock, ...)
HandlerSend(c) ==
  /\ Alive
  /\ han_pc[c] \in {"log_send", "kill_send"}
  /\ crash' = IF TextFreed THEN "text"
              ELSE IF nl_sock = "open" THEN crash ELSE "socket"
  /\ Advance(c, After(han_pc[c]))
  /\ UNCHANGED <<loadVars, sysfs, violations>>

\* echo N > /sys/module/rootshield/parameters/<m>_monitor_enabled
Toggle(m) ==
  /\ Alive
  /\ ~TextFreed
  /\ enabled' = [enabled EXCEPT ![m] = ~@]
  /\ toggled' = TRUE
  /\ UNCHANGED <<loadVars, hanVars>>
-----------------------------------------------------------------------------
LoadStep ==
  \/ InitConfig \/ InitSubsystem \/ InitSubsystemFails
  \/ RegisterMonitor \/ RegisterMonitorFails \/ InitDone

DownStep ==
  \/ RollbackMonitor \/ RollbackSubsystem \/ RollbackDone
  \/ ExitSubsystem \/ ExitPrintStatistics \/ ExitMonitor \/ ExitDone

HandlerStep(c) == HandlerTestSocket(c) \/ HandlerSend(c) \/ HandlerKillsQuietly(c)

Next ==
  \/ LoadStep
  \/ ExitBegin
  \/ DownStep
  \/ \E c \in Cpus : HandlerStep(c) \/ \E m \in Monitors : HandlerEnter(c, m)
  \/ \E m \in Monitors : Toggle(m)

\* insmod and rmmod run to their end, and so does a handler once entered.
Fairness ==
  /\ WF_vars(LoadStep)
  /\ WF_vars(DownStep)
  /\ \A c \in Cpus : WF_vars(HandlerStep(c))

Spec     == Init /\ [][Next]_vars
FairSpec == Spec /\ Fairness
-----------------------------------------------------------------------------
(***************************************************************************)
(* Correctness properties.                                                  *)
(***************************************************************************)

\* After a failed load and after an unload no probe points into the freed
\* module and no handler is inside it, as long as nobody wrote the flags that
\* both paths go by (main.c:150-178, 215-235).
NoProbeLeftBehind ==
  TextFreed /\ ~toggled =>
    registered = {} /\ \A c \in Cpus : han_pc[c] = "idle"

\* A failed load leaves only what has no cleanup label: plugin manager and
\* self-protection.  The one failure that undoes nothing is that of the first
\* monitor, which returns instead of jumping (main.c:92-97, 180-190).
RollbackComplete ==
  phase = "failed" /\ failed_at # Head(MonitorOrder) =>
    up \subseteq {"plugins", "self_protection"} /\ nl_sock = "null"

\* The rollback takes the monitors down before the socket they use and exit
\* does not: with the flags left alone freed memory is only ever used during
\* exit, and it is the socket (main.c:205-217, notification.c:48, 80).
OnlyExitPullsTheSocket ==
  crash # "none" /\ ~toggled => phase = "exit" /\ crash = "socket"

\* insmod and rmmod return: no unregistration waits for ever for a handler,
\* and none of the paths loops (main.c:40-238).
LoadAndUnloadReturn ==
  /\ phase = "load" ~> phase \in {"live", "failed"} \/ crash # "none"
  /\ phase = "exit" ~> phase = "gone" \/ crash # "none"

\* main.c:214: "Unregister all monitors".
AllMonitorsUnregistered == phase = "gone" => registered = {}
=============================================================================
