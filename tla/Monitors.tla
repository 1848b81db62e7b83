------------------------------ MODULE Monitors ------------------------------
(***************************************************************************)
(* src/src/monitors/*.c, src/src/utils/utils.c and                          *)
(* src/src/core/statistics.c: the probes inside each monitor, what their    *)
(* handlers count, and the response to a violation.                         *)
(*                                                                          *)
(* ModuleLifecycle orders the monitors and tears down what they use; here   *)
(* root_shield_init and its undoing register and unregister one monitor     *)
(* after the other, in any order, while handlers run on several CPUs.       *)
(***************************************************************************)
EXTENDS Integers, Sequences, FiniteSets

CONSTANTS
  Monitors,       \* those in use
  Cpus,
  MaxViolations,  \* bound: violations that handlers report
  MaxLeaks        \* bound: references that stay behind

\* The probes of a monitor in the order of registration.  One sensitive system
\* call stands for the six, which succeed and fail independently.
ProbesOf ==
  [exec    |-> <<"do_execveat_common">>,
   file    |-> <<"vfs_write", "vfs_open">>,
   process |-> <<"do_unlinkat", "_do_fork", "ptrace_request">>,
   network |-> <<"NF_INET_LOCAL_OUT">>,
   syscall |-> <<"sys_mount">>,
   memory  |-> <<"__kmalloc", "set_memory_x", "set_memory_rw">>,
   module  |-> <<"load_module">>]

ASSUME MonitorsAssumption ==
  /\ Monitors \subseteq DOMAIN ProbesOf /\ IsFiniteSet(Cpus)
  /\ MaxViolations \in Nat /\ MaxLeaks \in Nat

Class == {"exec", "file", "process", "network", "syscall", "memory", "module"}

\* The monitors log_security_event may take a handler's message and path to
\* be about: the first of these words found, in the order of Class, a "/" in
\* the path being as good as "file".  Paths, command names and module names
\* contain any word that fits.  set_memory_rw never reports.
GuessesOf ==
  [do_execveat_common |-> {"exec"},
   vfs_write |-> {"exec", "file"}, vfs_open |-> {"exec", "file"},
   do_unlinkat |-> {"exec", "file"}, _do_fork |-> {"exec", "file", "process"},
   ptrace_request |-> {"exec", "file", "process", "network", "syscall", "memory"},
   NF_INET_LOCAL_OUT |-> {"network"},
   sys_mount |-> {"exec", "file", "process"},
   __kmalloc |-> {"exec", "file", "process"},
   set_memory_x |-> {"exec", "file", "process"}, set_memory_rw |-> {},
   load_module |-> Class]

\* The one handler whose return value, NF_DROP, stops what it reports; those of
\* the kprobes return 0, and the operation goes on.
Hook == "NF_INET_LOCAL_OUT"

ProbeSet(m) == {ProbesOf[m][i] : i \in DOMAIN ProbesOf[m]}
NoProbe == "none"
Flags == {"kill_violating_process", "notify_only", "block_only"}

VARIABLES
  mon, at,            \* progress of register_<m>_monitor and unregister_...
  probes,             \* probes that are registered
  syscall_kprobes,    \* the array is allocated
  flag,               \* module parameters that root may write
  violations, total_violations, total_blocked,
  file_refs,          \* references do_unlinkat's handler holds
  pc, probe,          \* handlers
  response,           \* how kill_current_process ended
  stopped,            \* CPUs whose last handler had its operation stopped
  steady,             \* history: no flag changed since its first test
  leaked              \* history: references of returned handlers

monVars   == <<mon, at, probes, syscall_kprobes>>
statVars  == <<violations, total_violations, total_blocked>>
refVars   == <<file_refs, leaked>>
hanVars   == <<pc, probe, response, steady, stopped>>
vars == <<monVars, flag, statVars, refVars, hanVars>>

Init ==
  /\ mon = [m \in Monitors |-> "off"] /\ at = 0
  /\ probes = {} /\ syscall_kprobes = FALSE
  /\ flag = [f \in Flags |-> f = "kill_violating_process"]
  /\ violations = [k \in Class |-> 0] /\ total_violations = 0
  /\ total_blocked = 0
  /\ file_refs = 0 /\ leaked = 0
  /\ pc = [c \in Cpus |-> "idle"]
  /\ probe = [c \in Cpus |-> NoProbe]
  /\ response = [c \in Cpus |-> "none"] /\ stopped = {}
  /\ steady = [c \in Cpus |-> TRUE]

-----------------------------------------------------------------------------
(***************************************************************************)
(* Registration.  A monitor gives its first probes back when a later one    *)
(* fails, but the syscall monitor goes on with those it gets.               *)
(***************************************************************************)
Settled == \A m \in Monitors : mon[m] \in {"off", "on"}
MonitorOnly == UNCHANGED <<flag, statVars, refVars, hanVars>>

RegisterBegin(m) ==
  /\ Settled /\ mon[m] = "off"
  /\ mon' = [mon EXCEPT ![m] = "up"] /\ at' = 1
  /\ syscall_kprobes' = (syscall_kprobes \/ m = "syscall")
  /\ UNCHANGED probes /\ MonitorOnly

NextProbe(m) ==
  LET last == at = Len(ProbesOf[m]) IN
  /\ mon' = [mon EXCEPT ![m] = IF last THEN "on" ELSE "up"]
  /\ at' = IF last THEN 0 ELSE at + 1

RegisterProbe(m) ==
  /\ mon[m] = "up"
  /\ probes' = probes \cup {ProbesOf[m][at]}
  /\ NextProbe(m)
  /\ UNCHANGED syscall_kprobes /\ MonitorOnly

RegisterProbeFails(m) ==
  /\ mon[m] = "up"
  /\ \/ m = "syscall" /\ NextProbe(m)
     \/ m # "syscall" /\ mon' = [mon EXCEPT ![m] = "down"] /\ at' = 0
  /\ UNCHANGED <<probes, syscall_kprobes>> /\ MonitorOnly

UnregisterBegin(m) ==
  /\ Settled /\ mon[m] = "on"
  /\ mon' = [mon EXCEPT ![m] = "down"]
  /\ UNCHANGED <<at, probes, syscall_kprobes>> /\ MonitorOnly

\* Mutant: only the first probe is given back.
UnregisterProbeOnce(m) ==
  /\ mon[m] = "down" /\ probes \cap ProbeSet(m) # {}
  /\ \E i \in DOMAIN ProbesOf[m] :
       /\ ProbesOf[m][i] \in probes
       /\ \A j \in 1 .. i - 1 : ProbesOf[m][j] \notin probes
       /\ \A c \in Cpus : probe[c] # ProbesOf[m][i]
       /\ probes' = probes \ {ProbesOf[m][i]}
  /\ mon' = [mon EXCEPT ![m] = "off"]
  /\ UNCHANGED <<at, syscall_kprobes>> /\ MonitorOnly

\* Unregistration waits for the probe's handlers, and does nothing for a
\* probe of the syscall monitor that was never registered.
UnregisterProbe(m) ==
  /\ mon[m] = "down"
  /\ \E i \in DOMAIN ProbesOf[m] :
       /\ ProbesOf[m][i] \in probes
       /\ \A j \in 1 .. i - 1 : ProbesOf[m][j] \notin probes
       /\ \A c \in Cpus : probe[c] # ProbesOf[m][i]
       /\ probes' = probes \ {ProbesOf[m][i]}
  /\ UNCHANGED <<mon, at, syscall_kprobes>> /\ MonitorOnly

UnregisterEnd(m) ==
  /\ mon[m] = "down" /\ probes \cap ProbeSet(m) = {}
  /\ mon' = [mon EXCEPT ![m] = "off"]
  /\ syscall_kprobes' = (syscall_kprobes /\ m # "syscall")
  /\ UNCHANGED <<at, probes>> /\ MonitorOnly

-----------------------------------------------------------------------------
(***************************************************************************)
(* The handlers.  One that finds nothing to report leaves no trace, except  *)
(* that do_unlinkat's takes a reference to the file before it looks at the  *)
(* uid and keeps it when that is not root.                                  *)
(***************************************************************************)
Reports == violations["exec"] + violations["file"] + violations["process"]
             + violations["network"] + violations["syscall"] + violations["memory"]
             + violations["module"]

\* Mutant: the response begins as soon as the class is counted.
FireCountsClassOnly(c, p) ==
  /\ pc[c] = "idle" /\ p \in probes /\ Reports < MaxViolations
  /\ \E k \in GuessesOf[p] : violations' = [violations EXCEPT ![k] = @ + 1]
  /\ pc' = [pc EXCEPT ![c] = "blocked"]
  /\ probe' = [probe EXCEPT ![c] = p]
  /\ file_refs' = IF p = "do_unlinkat" THEN file_refs + 1 ELSE file_refs
  /\ stopped' = stopped \ {c}
  /\ UNCHANGED <<monVars, flag, total_violations, total_blocked, leaked, response, steady>>

\* A handler reports; the first that others see of it is the class's counter
\* in increment_violation.
Fire(c, p) ==
  /\ pc[c] = "idle" /\ p \in probes /\ Reports < MaxViolations
  /\ \E k \in GuessesOf[p] : violations' = [violations EXCEPT ![k] = @ + 1]
  /\ pc' = [pc EXCEPT ![c] = "total"]
  /\ probe' = [probe EXCEPT ![c] = p]
  /\ file_refs' = IF p = "do_unlinkat" THEN file_refs + 1 ELSE file_refs
  /\ stopped' = stopped \ {c}
  /\ UNCHANGED <<monVars, flag, total_violations, total_blocked, leaked, response, steady>>

UnlinkUnprivileged ==
  /\ "do_unlinkat" \in probes /\ leaked < MaxLeaks
  /\ file_refs' = file_refs + 1 /\ leaked' = leaked + 1
  /\ UNCHANGED <<monVars, flag, statVars, hanVars>>

Goto(c, from, to) == pc[c] = from /\ pc' = [pc EXCEPT ![c] = to]
HandlerOnly == UNCHANGED <<monVars, flag, refVars, probe, stopped>>

CountTotal(c) ==
  /\ Goto(c, "total", "blocked")
  /\ total_violations' = total_violations + 1
  /\ UNCHANGED <<violations, total_blocked, response, steady>>
  /\ HandlerOnly

\* kill_current_process: increment_blocked, whose class (guessed from the
\* command name to be exec or none at all) is left out.
CountBlocked(c) ==
  /\ Goto(c, "blocked", "kill")
  /\ total_blocked' = total_blocked + 1
  /\ UNCHANGED <<violations, total_violations, response, steady>>
  /\ HandlerOnly

\* The chain of tests; each reads its flag anew.
Test(c, from, f, yes, no) == Goto(c, from, IF flag[f] THEN yes ELSE no)
RespondOnly == UNCHANGED <<statVars, steady>> /\ HandlerOnly

TestKill(c) ==
  /\ Test(c, "kill", "kill_violating_process", "kill_allowed", "notify")
  /\ UNCHANGED response /\ RespondOnly

\* Mutant: kill_violating_process is enough.
TestKillAllowedAlways(c) ==
  /\ Goto(c, "kill_allowed", "done")
  /\ response' = [response EXCEPT ![c] = "killed"]
  /\ RespondOnly

TestKillAllowed(c) ==
  /\ Test(c, "kill_allowed", "notify_only", "notify", "done")
  /\ response' = [response EXCEPT ![c] = IF flag["notify_only"] THEN @ ELSE "killed"]
  /\ RespondOnly

TestNotify(c) ==
  /\ Test(c, "notify", "notify_only", "done", "block")
  /\ response' = [response EXCEPT ![c] = IF flag["notify_only"] THEN "notified" ELSE @]
  /\ RespondOnly

\* "Blocked operation by process ...": a message and a notification.
TestBlock(c) ==
  /\ Goto(c, "block", "done")
  /\ response' = [response EXCEPT ![c] = IF flag["block_only"] THEN "announced" ELSE @]
  /\ RespondOnly

\* Mutant: the handler of do_unlinkat forgets its reference.
ReturnWithFile(c) ==
  /\ Goto(c, "done", "idle")
  /\ probe' = [probe EXCEPT ![c] = NoProbe]
  /\ response' = [response EXCEPT ![c] = "none"]
  /\ steady' = [steady EXCEPT ![c] = TRUE]
  /\ stopped' = IF probe[c] = Hook THEN stopped \cup {c} ELSE stopped
  /\ UNCHANGED <<monVars, flag, statVars, refVars>>

\* The handler's return value does not depend on the flags.
Return(c) ==
  /\ Goto(c, "done", "idle")
  /\ probe' = [probe EXCEPT ![c] = NoProbe]
  /\ response' = [response EXCEPT ![c] = "none"]
  /\ steady' = [steady EXCEPT ![c] = TRUE]
  /\ file_refs' = IF probe[c] = "do_unlinkat" THEN file_refs - 1 ELSE file_refs
  /\ stopped' = IF probe[c] = Hook THEN stopped \cup {c} ELSE stopped
  /\ UNCHANGED <<monVars, flag, statVars, leaked>>

Testing == {c \in Cpus : pc[c] \in {"kill", "kill_allowed", "notify", "block", "done"}}

\* echo N > /sys/module/rootshield/parameters/<f>
SetFlag(f) ==
  /\ flag' = [flag EXCEPT ![f] = ~@]
  /\ steady' = [c \in Cpus |-> steady[c] /\ c \notin Testing]
  /\ UNCHANGED <<monVars, statVars, refVars, pc, probe, response, stopped>>

Next ==
  \/ \E m \in Monitors : \/ RegisterBegin(m) \/ RegisterProbe(m) \/ RegisterProbeFails(m)
                         \/ UnregisterBegin(m) \/ UnregisterProbe(m) \/ UnregisterEnd(m)
  \/ \E c \in Cpus, p \in probes : Fire(c, p)
  \/ UnlinkUnprivileged
  \/ \E c \in Cpus : \/ CountTotal(c) \/ CountBlocked(c)
                     \/ TestKill(c) \/ TestKillAllowed(c) \/ TestNotify(c) \/ TestBlock(c)
                     \/ Return(c)
  \/ \E f \in Flags : SetFlag(f)

Spec == Init /\ [][Next]_vars

-----------------------------------------------------------------------------
(***************************************************************************)
(* Correctness.                                                             *)
(***************************************************************************)

\* A monitor whose registration failed or that was unregistered has no probe
\* and no handler left, and one that was registered has all of its probes,
\* whichever probe failed and whatever ran meanwhile; only the syscall monitor
\* may have fewer, even none (file_monitor.c:97-115, process_monitor.c:113-138,
\* memory_monitor.c:82-108, syscall_monitor.c:44-90).
MonitorAllOrNothing ==
  \A m \in Monitors :
    /\ mon[m] = "off" => /\ probes \cap ProbeSet(m) = {}
                         /\ \A c \in Cpus : probe[c] \notin ProbeSet(m)
                         /\ m = "syscall" => ~syscall_kprobes
    /\ mon[m] = "on" /\ m # "syscall" => ProbeSet(m) \subseteq probes

\* What kill_current_process does under flags that stand still: notify_only goes
\* before kill_violating_process, and that before block_only.
Selected ==
  IF flag["notify_only"] THEN "notified"
  ELSE IF flag["kill_violating_process"] THEN "killed"
  ELSE IF flag["block_only"] THEN "announced" ELSE "none"

\* A handler during whose chain of tests no flag changed ends as the flags
\* select, while a change between two tests may leave it without any response
\* although one was asked for before and after (utils.c:65-94).  What becomes of
\* the operation is another matter: a packet is dropped and everything else goes
\* on, whatever the flags and the response (network_monitor.c:62-64, the return 0
\* of the kprobe handlers), so notify_only stops packets and block_only nothing
\* else, against their descriptions in runtime_config.c:42-48.
UndisturbedResponse ==
  [][\A c \in Cpus : pc[c] = "done" /\ pc'[c] # "done" =>
       /\ steady[c] => response[c] = Selected
       /\ c \in stopped' <=> probe[c] = Hook]_vars

\* The total of violations is the sum of the classes but for the handlers
\* between the two increments, and every violation is counted as blocked after
\* that, whatever the flags say (statistics.c:93-133, utils.c:14-62).
StatsBalance ==
  LET In(p) == Cardinality({c \in Cpus : pc[c] = p}) IN
  /\ total_violations + In("total") = Reports
  /\ total_blocked + In("blocked") = total_violations

\* The handler of do_unlinkat gives its reference back on every way out but
\* one: only calls of other users than root leave one behind, so the file can
\* be released as long as there are none (process_monitor.c:21-54).
OnlyUnprivilegedLeak ==
  file_refs = leaked + Cardinality({c \in Cpus : probe[c] = "do_unlinkat"})
=============================================================================
