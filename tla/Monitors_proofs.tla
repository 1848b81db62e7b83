--------------------------- MODULE Monitors_proofs ---------------------------
(***************************************************************************)
(* What holds of the monitors for every selection of them, any number of    *)
(* CPUs, of violations and of leaked references.                            *)
(***************************************************************************)
EXTENDS Monitors, FiniteSetTheorems, TLAPS

AllProbes == {"do_execveat_common", "vfs_write", "vfs_open", "do_unlinkat", "_do_fork",
              "ptrace_request", "NF_INET_LOCAL_OUT", "sys_mount", "__kmalloc",
              "set_memory_x", "set_memory_rw", "load_module"}

HandlerStates == {"idle", "total", "blocked", "kill", "kill_allowed", "notify", "block", "done"}

TypeOK ==
  /\ mon \in [Monitors -> {"off", "up", "on", "down"}] /\ at \in Nat
  /\ probes \subseteq AllProbes /\ syscall_kprobes \in BOOLEAN
  /\ flag \in [Flags -> BOOLEAN]
  /\ violations \in [Class -> Nat] /\ total_violations \in Nat /\ total_blocked \in Nat
  /\ file_refs \in Int /\ leaked \in Nat
  /\ pc \in [Cpus -> HandlerStates]
  /\ probe \in [Cpus -> AllProbes \cup {NoProbe}]
  /\ response \in [Cpus -> {"none", "killed", "notified", "announced"}]
  /\ steady \in [Cpus -> BOOLEAN] /\ stopped \subseteq Cpus

\* A handler runs for a probe that is registered: unregistration waits for it.
HandlersOnProbes ==
  \A c \in Cpus : /\ pc[c] = "idle" <=> probe[c] = NoProbe
                  /\ probe[c] # NoProbe => probe[c] \in probes

\* One monitor at a time comes or goes, and one on its way up has registered
\* every probe before the one it is at.
UpToAt ==
  /\ \A m, n \in Monitors : mon[m] \in {"up", "down"} /\ mon[n] \in {"up", "down"} => m = n
  /\ \A m \in Monitors : mon[m] = "up" =>
       /\ at \in 1 .. Len(ProbesOf[m])
       /\ m # "syscall" => \A i \in 1 .. at - 1 : ProbesOf[m][i] \in probes

\* What a handler's position in the chain of tests says of flags that did not
\* change since it began.
TestsSoFar ==
  \A c \in Cpus :
    /\ pc[c] # "done" => response[c] = "none"
    /\ steady[c] /\ pc[c] = "kill_allowed" => flag["kill_violating_process"]
    /\ steady[c] /\ pc[c] = "notify" => flag["notify_only"] \/ ~flag["kill_violating_process"]
    /\ steady[c] /\ pc[c] = "block" => ~flag["notify_only"] /\ ~flag["kill_violating_process"]

\* While its handler runs nothing is known to be stopped on a CPU.
NotYetStopped == \A c \in Cpus : pc[c] # "idle" => c \notin stopped

SelectedAtDone ==
  \A c \in Cpus : pc[c] = "done" /\ steady[c] => response[c] = Selected

IInv ==
  /\ TypeOK
  /\ HandlersOnProbes
  /\ UpToAt
  /\ MonitorAllOrNothing
  /\ TestsSoFar
  /\ SelectedAtDone
  /\ NotYetStopped
  /\ StatsBalance
  /\ OnlyUnprivilegedLeak

MonitorStep(m) ==
  \/ RegisterBegin(m) \/ RegisterProbe(m) \/ RegisterProbeFails(m)
  \/ UnregisterBegin(m) \/ UnregisterProbe(m) \/ UnregisterEnd(m)

CountStep(c) == CountTotal(c) \/ CountBlocked(c)
TestStep(c) == TestKill(c) \/ TestKillAllowed(c) \/ TestNotify(c) \/ TestBlock(c)

LEMMA NextSplit ==
  Next <=> \/ \E m \in Monitors : MonitorStep(m)
           \/ \E c \in Cpus, p \in probes : Fire(c, p)
           \/ UnlinkUnprivileged
           \/ \E c \in Cpus : CountStep(c) \/ TestStep(c) \/ Return(c)
           \/ \E f \in Flags : SetFlag(f)
BY DEF Next, MonitorStep, CountStep, TestStep
-----------------------------------------------------------------------------
(***************************************************************************)
(* The probes of the monitors.                                              *)
(***************************************************************************)
LEMMA ProbeSets ==
  /\ ProbeSet("exec") = {"do_execveat_common"}
  /\ ProbeSet("file") = {"vfs_write", "vfs_open"}
  /\ ProbeSet("process") = {"do_unlinkat", "_do_fork", "ptrace_request"}
  /\ ProbeSet("network") = {"NF_INET_LOCAL_OUT"}
  /\ ProbeSet("syscall") = {"sys_mount"}
  /\ ProbeSet("memory") = {"__kmalloc", "set_memory_x", "set_memory_rw"}
  /\ ProbeSet("module") = {"load_module"}
BY DEF ProbeSet, ProbesOf

LEMMA MonitorsAreClasses == Monitors \subseteq Class
BY MonitorsAssumption DEF ProbesOf, Class

\* No probe belongs to two monitors.
LEMMA ProbesDisjoint ==
  ASSUME NEW m \in Monitors, NEW n \in Monitors, m # n
  PROVE  ProbeSet(m) \cap ProbeSet(n) = {}
<1>1. m \in Class /\ n \in Class
  BY MonitorsAreClasses
<1>2. QED
  BY <1>1, ProbeSets DEF Class

\* The registration of a monitor's probes goes through all of them in order.
LEMMA ProbeOrder ==
  ASSUME NEW m \in Monitors
  PROVE  /\ ProbeSet(m) \subseteq AllProbes /\ NoProbe \notin ProbeSet(m)
         /\ Len(ProbesOf[m]) \in Nat \ {0}
         /\ DOMAIN ProbesOf[m] = 1 .. Len(ProbesOf[m])
<1>1. m \in Class
  BY MonitorsAreClasses
<1>2. ProbeSet(m) \subseteq AllProbes /\ NoProbe \notin ProbeSet(m)
  BY <1>1, ProbeSets DEF Class, AllProbes, NoProbe
<1>3. Len(ProbesOf[m]) \in Nat \ {0} /\ DOMAIN ProbesOf[m] = 1 .. Len(ProbesOf[m])
  BY <1>1 DEF Class, ProbesOf
<1>4. QED
  BY <1>2, <1>3

LEMMA GuessesAreClasses ==
  ASSUME NEW p \in AllProbes
  PROVE  GuessesOf[p] \subseteq Class
BY DEF AllProbes, GuessesOf, Class
-----------------------------------------------------------------------------
(***************************************************************************)
(* Well-formedness, the probes and the tests.                               *)
(***************************************************************************)
LEMMA InitIInv == Init => IInv
<1> SUFFICES ASSUME Init
             PROVE  IInv
  OBVIOUS
<1>1. TypeOK
  <2>1. flag \in [Flags -> BOOLEAN] /\ steady \in [Cpus -> BOOLEAN]
    BY DEF Init
  <2>2. /\ mon \in [Monitors -> {"off", "up", "on", "down"}] /\ at \in Nat
        /\ violations \in [Class -> Nat] /\ total_violations \in Nat /\ total_blocked \in Nat
        /\ file_refs \in Int /\ leaked \in Nat
    BY DEF Init
  <2>3. /\ pc \in [Cpus -> HandlerStates] /\ probe \in [Cpus -> AllProbes \cup {NoProbe}]
        /\ response \in [Cpus -> {"none", "killed", "notified", "announced"}]
    BY DEF Init, HandlerStates
  <2>4. QED
    BY <2>1, <2>2, <2>3 DEF Init, TypeOK
<1>2. Reports = 0
  BY DEF Init, Reports, Class
<1>3. /\ {c \in Cpus : pc[c] = "total"} = {} /\ {c \in Cpus : pc[c] = "blocked"} = {}
      /\ {c \in Cpus : probe[c] = "do_unlinkat"} = {}
  BY DEF Init, NoProbe
<1>4. StatsBalance /\ OnlyUnprivilegedLeak
  <2>1. total_violations = 0 /\ total_blocked = 0 /\ file_refs = 0 /\ leaked = 0
    BY DEF Init
  <2>2. QED
    BY <1>2, <1>3, <2>1, FS_EmptySet DEF StatsBalance, OnlyUnprivilegedLeak
<1>5. HandlersOnProbes /\ UpToAt /\ TestsSoFar /\ SelectedAtDone /\ NotYetStopped
  BY DEF Init, HandlersOnProbes, UpToAt, TestsSoFar, SelectedAtDone, NotYetStopped
<1>6. MonitorAllOrNothing
  BY ProbeOrder DEF Init, MonitorAllOrNothing
<1>7. QED
  BY <1>1, <1>4, <1>5, <1>6 DEF IInv

LEMMA TypeOKStep == IInv /\ [Next]_vars => TypeOK'
<1> SUFFICES ASSUME IInv, [Next]_vars
             PROVE  TypeOK'
  OBVIOUS
<1>0. TypeOK
  BY DEF IInv
<1> USE <1>0 DEF TypeOK, HandlerStates
<1>1. ASSUME NEW m \in Monitors, MonitorStep(m)
      PROVE  TypeOK'
  <2>1. UNCHANGED <<flag, statVars, refVars, hanVars>>
    BY <1>1 DEF MonitorStep, RegisterBegin, RegisterProbe, RegisterProbeFails, UnregisterBegin,
                UnregisterProbe, UnregisterEnd, MonitorOnly
  <2>2. mon' \in [Monitors -> {"off", "up", "on", "down"}] /\ at' \in Nat
    BY <1>1, ProbeOrder
       DEF MonitorStep, RegisterBegin, RegisterProbe, RegisterProbeFails, UnregisterBegin,
           UnregisterProbe, UnregisterEnd, NextProbe
  <2>3. mon[m] = "up" => ProbesOf[m][at] \in AllProbes
    BY ProbeOrder DEF IInv, UpToAt, ProbeSet
  <2>4. probes' \subseteq AllProbes /\ syscall_kprobes' \in BOOLEAN
    BY <1>1, <2>3
       DEF MonitorStep, RegisterBegin, RegisterProbe, RegisterProbeFails, UnregisterBegin,
           UnregisterProbe, UnregisterEnd
  <2>5. QED
    BY <2>1, <2>2, <2>4 DEF statVars, refVars, hanVars
<1>2. ASSUME NEW c \in Cpus, NEW p \in probes, Fire(c, p)
      PROVE  TypeOK'
  <2>1. violations' \in [Class -> Nat]
    BY <1>2, GuessesAreClasses DEF Fire
  <2>2. QED
    BY <1>2, <2>1 DEF Fire, monVars
<1>3. CASE UnlinkUnprivileged
  BY <1>3 DEF UnlinkUnprivileged, monVars, statVars, hanVars
<1>4. ASSUME NEW c \in Cpus, CountStep(c) \/ TestStep(c) \/ Return(c)
      PROVE  TypeOK'
  <2> USE DEF Goto, HandlerOnly, RespondOnly, monVars, statVars, refVars
  <2>1. CASE CountStep(c)
    BY <2>1 DEF CountStep, CountTotal, CountBlocked
  <2>2. CASE TestKill(c) \/ TestKillAllowed(c)
    BY <2>2 DEF TestKill, TestKillAllowed, Test
  <2>3. CASE TestNotify(c) \/ TestBlock(c)
    BY <2>3 DEF TestNotify, TestBlock, Test
  <2>4. CASE Return(c)
    BY <2>4 DEF Return
  <2>5. QED
    BY <1>4, <2>1, <2>2, <2>3, <2>4 DEF TestStep
<1>5. ASSUME NEW f \in Flags, SetFlag(f)
      PROVE  TypeOK'
  BY <1>5 DEF SetFlag, monVars, statVars, refVars
<1>6. CASE UNCHANGED vars
  BY <1>6 DEF vars, monVars, statVars, refVars, hanVars
<1>7. QED
  BY <1>1, <1>2, <1>3, <1>4, <1>5, <1>6, NextSplit

\* What a step of a monitor does to the probes: it takes one away that no
\* handler runs for, or takes none away.
LEMMA MonitorStepProbes ==
  ASSUME IInv, NEW m \in Monitors, MonitorStep(m)
  PROVE  /\ UNCHANGED <<flag, statVars, refVars, hanVars>>
         /\ \A c \in Cpus : probe[c] \in probes => probe[c] \in probes'
<1>1. UNCHANGED <<flag, statVars, refVars, hanVars>>
  BY DEF MonitorStep, RegisterBegin, RegisterProbe, RegisterProbeFails, UnregisterBegin,
         UnregisterProbe, UnregisterEnd, MonitorOnly
<1>2. \/ probes \subseteq probes'
      \/ \E q : probes' = probes \ {q} /\ \A c \in Cpus : probe[c] # q
  BY DEF MonitorStep, RegisterBegin, RegisterProbe, RegisterProbeFails, UnregisterBegin,
         UnregisterProbe, UnregisterEnd
<1>3. QED
  BY <1>1, <1>2

LEMMA HandlersOnProbesStep == IInv /\ [Next]_vars => HandlersOnProbes'
<1> SUFFICES ASSUME IInv, [Next]_vars
             PROVE  HandlersOnProbes'
  OBVIOUS
<1>0. TypeOK /\ HandlersOnProbes
  BY DEF IInv
<1> USE <1>0 DEF HandlersOnProbes
<1>1. ASSUME NEW m \in Monitors, MonitorStep(m)
      PROVE  HandlersOnProbes'
  BY <1>1, MonitorStepProbes DEF hanVars
<1>2. ASSUME NEW c \in Cpus, NEW p \in probes, Fire(c, p)
      PROVE  HandlersOnProbes'
  <2>1. p # NoProbe
    BY DEF TypeOK, AllProbes, NoProbe
  <2>2. QED
    BY <1>2, <2>1 DEF Fire, TypeOK, monVars
<1>3. ASSUME NEW c \in Cpus, CountStep(c) \/ TestStep(c) \/ Return(c)
      PROVE  HandlersOnProbes'
  BY <1>3 DEF TypeOK, CountStep, CountTotal, CountBlocked, TestStep, TestKill, TestKillAllowed,
              TestNotify, TestBlock, Test, Return, Goto, HandlerOnly, RespondOnly, monVars
<1>4. CASE UnlinkUnprivileged \/ (\E f \in Flags : SetFlag(f)) \/ UNCHANGED vars
  BY <1>4 DEF UnlinkUnprivileged, SetFlag, vars, monVars, hanVars
<1>5. QED
  BY <1>1, <1>2, <1>3, <1>4, NextSplit

LEMMA NotYetStoppedStep == IInv /\ [Next]_vars => NotYetStopped'
<1> SUFFICES ASSUME IInv, [Next]_vars
             PROVE  NotYetStopped'
  OBVIOUS
<1>0. TypeOK /\ NotYetStopped
  BY DEF IInv
<1> USE <1>0 DEF TypeOK, NotYetStopped
<1>1. ASSUME NEW m \in Monitors, MonitorStep(m)
      PROVE  NotYetStopped'
  BY <1>1, MonitorStepProbes DEF hanVars
<1>2. ASSUME NEW c \in Cpus, NEW p \in probes, Fire(c, p)
      PROVE  NotYetStopped'
  BY <1>2 DEF Fire
<1>3. ASSUME NEW c \in Cpus, CountStep(c) \/ TestStep(c)
      PROVE  NotYetStopped'
  BY <1>3 DEF CountStep, CountTotal, CountBlocked, TestStep, TestKill, TestKillAllowed,
              TestNotify, TestBlock, Test, Goto, HandlerOnly, RespondOnly
<1>4. ASSUME NEW c \in Cpus, Return(c)
      PROVE  NotYetStopped'
  BY <1>4 DEF Return, Goto
<1>5. CASE UnlinkUnprivileged \/ (\E f \in Flags : SetFlag(f)) \/ UNCHANGED vars
  BY <1>5 DEF UnlinkUnprivileged, SetFlag, vars, hanVars
<1>6. QED
  BY <1>1, <1>2, <1>3, <1>4, <1>5, NextSplit

\* While a monitor comes or goes the others stay as they are.
LEMMA UpToAtStep == IInv /\ [Next]_vars => UpToAt'
<1> SUFFICES ASSUME IInv, [Next]_vars
             PROVE  UpToAt'
  OBVIOUS
<1>0. TypeOK /\ UpToAt
  BY DEF IInv
<1>1. ASSUME NEW m \in Monitors, MonitorStep(m)
      PROVE  UpToAt'
  <2>0. Len(ProbesOf[m]) \in Nat \ {0}
    BY ProbeOrder
  <2>1. CASE RegisterBegin(m)
    BY <1>0, <2>0, <2>1 DEF RegisterBegin, Settled, UpToAt, TypeOK
  <2>2. CASE RegisterProbe(m)
    BY <1>0, <2>0, <2>2 DEF RegisterProbe, NextProbe, UpToAt, TypeOK
  <2>3. CASE RegisterProbeFails(m)
    BY <1>0, <2>0, <2>3 DEF RegisterProbeFails, NextProbe, UpToAt, TypeOK
  <2>4. CASE UnregisterBegin(m)
    BY <1>0, <2>4 DEF UnregisterBegin, Settled, UpToAt, TypeOK
  <2>5. CASE UnregisterProbe(m) \/ UnregisterEnd(m)
    BY <1>0, <2>5 DEF UnregisterProbe, UnregisterEnd, UpToAt, TypeOK
  <2>6. QED
    BY <1>1, <2>1, <2>2, <2>3, <2>4, <2>5 DEF MonitorStep
<1>2. CASE UNCHANGED monVars
  BY <1>0, <1>2 DEF monVars, UpToAt
<1>3. QED
  BY <1>1, <1>2, NextSplit
     DEF Fire, UnlinkUnprivileged, CountStep, CountTotal, CountBlocked, TestStep, TestKill,
         TestKillAllowed, TestNotify, TestBlock, Return, HandlerOnly, RespondOnly, SetFlag, vars

LEMMA MonitorAllOrNothingStep == IInv /\ [Next]_vars => MonitorAllOrNothing'
<1> SUFFICES ASSUME IInv, [Next]_vars
             PROVE  MonitorAllOrNothing'
  OBVIOUS
<1>0. TypeOK /\ HandlersOnProbes /\ UpToAt /\ MonitorAllOrNothing
  BY DEF IInv
<1>1. ASSUME NEW m \in Monitors, MonitorStep(m)
      PROVE  MonitorAllOrNothing'
  <2>0. probe' = probe
    BY <1>1, MonitorStepProbes DEF hanVars
  <2>1. CASE RegisterBegin(m)
    BY <1>0, <2>0, <2>1 DEF RegisterBegin, MonitorAllOrNothing, TypeOK
  <2>2. CASE RegisterProbe(m)
    <3>1. ProbesOf[m][at] \in ProbeSet(m)
      BY <1>0, <2>2, ProbeOrder DEF RegisterProbe, UpToAt, ProbeSet
    <3>2. mon'[m] = "on" /\ m # "syscall" => ProbeSet(m) \subseteq probes'
      BY <1>0, <2>2, ProbeOrder DEF RegisterProbe, NextProbe, UpToAt, ProbeSet, TypeOK
    <3>3. ASSUME NEW n \in Monitors, n # m
          PROVE  probes' \cap ProbeSet(n) = probes \cap ProbeSet(n) /\ mon'[n] = mon[n]
      BY <1>0, <2>2, <3>1, <3>3, ProbesDisjoint DEF RegisterProbe, NextProbe, TypeOK
    <3>4. mon'[m] # "off" /\ syscall_kprobes' = syscall_kprobes
      BY <1>0, <2>2 DEF RegisterProbe, NextProbe, TypeOK
    <3>5. QED
      BY <1>0, <2>0, <3>2, <3>3, <3>4 DEF MonitorAllOrNothing
  <2>3. CASE RegisterProbeFails(m)
    BY <1>0, <2>0, <2>3 DEF RegisterProbeFails, NextProbe, MonitorAllOrNothing, TypeOK
  <2>4. CASE UnregisterBegin(m)
    BY <1>0, <2>0, <2>4 DEF UnregisterBegin, MonitorAllOrNothing, TypeOK
  <2>5. CASE UnregisterProbe(m)
    <3>1. PICK q \in ProbeSet(m) : probes' = probes \ {q}
      BY <2>5 DEF UnregisterProbe, ProbeSet
    <3>2. ASSUME NEW n \in Monitors, n # m
          PROVE  probes' \cap ProbeSet(n) = probes \cap ProbeSet(n)
      BY <3>1, <3>2, ProbesDisjoint
    <3>3. mon' = mon /\ mon[m] = "down" /\ syscall_kprobes' = syscall_kprobes
      BY <2>5 DEF UnregisterProbe
    <3>4. QED
      BY <1>0, <2>0, <3>2, <3>3 DEF MonitorAllOrNothing
  <2>6. CASE UnregisterEnd(m)
    <3>1. \A c \in Cpus : probe[c] \notin ProbeSet(m)
      BY <1>0, <2>6, ProbeOrder DEF UnregisterEnd, HandlersOnProbes
    <3>2. QED
      BY <1>0, <2>0, <2>6, <3>1 DEF UnregisterEnd, MonitorAllOrNothing, TypeOK
  <2>7. QED
    BY <1>1, <2>1, <2>2, <2>3, <2>4, <2>5, <2>6 DEF MonitorStep
<1>2. ASSUME NEW c \in Cpus, NEW p \in probes, Fire(c, p)
      PROVE  MonitorAllOrNothing'
  BY <1>0, <1>2 DEF Fire, MonitorAllOrNothing, monVars, TypeOK
<1>3. ASSUME NEW c \in Cpus, CountStep(c) \/ TestStep(c) \/ Return(c)
      PROVE  MonitorAllOrNothing'
  <2>1. UNCHANGED monVars /\ \A d \in Cpus : probe'[d] \in {probe[d], NoProbe}
    BY <1>0, <1>3 DEF TypeOK, CountStep, CountTotal, CountBlocked, TestStep, TestKill,
          TestKillAllowed, TestNotify, TestBlock, Return, HandlerOnly, RespondOnly
  <2>2. QED
    BY <1>0, <2>1, ProbeOrder DEF MonitorAllOrNothing, monVars
<1>4. CASE UnlinkUnprivileged \/ (\E f \in Flags : SetFlag(f)) \/ UNCHANGED vars
  BY <1>0, <1>4 DEF UnlinkUnprivileged, SetFlag, vars, monVars, hanVars, MonitorAllOrNothing
<1>5. QED
  BY <1>1, <1>2, <1>3, <1>4, NextSplit

\* The chain of tests, step by step, and a change of a flag, which marks every
\* handler inside the chain.
LEMMA SelectedAtDoneStep == IInv /\ [Next]_vars => (TestsSoFar /\ SelectedAtDone)'
<1> SUFFICES ASSUME IInv, [Next]_vars
             PROVE  (TestsSoFar /\ SelectedAtDone)'
  OBVIOUS
<1>0. TypeOK /\ TestsSoFar /\ SelectedAtDone
  BY DEF IInv
<1> USE <1>0 DEF TypeOK, Flags, HandlerStates, TestsSoFar, SelectedAtDone, Selected
<1>1. ASSUME NEW m \in Monitors, MonitorStep(m)
      PROVE  (TestsSoFar /\ SelectedAtDone)'
  BY <1>1, MonitorStepProbes DEF hanVars
<1>2. ASSUME NEW c \in Cpus, NEW p \in probes, Fire(c, p)
      PROVE  (TestsSoFar /\ SelectedAtDone)'
  BY <1>2 DEF Fire
<1>3. ASSUME NEW c \in Cpus, CountStep(c) \/ Return(c)
      PROVE  (TestsSoFar /\ SelectedAtDone)'
  BY <1>3 DEF CountStep, CountTotal, CountBlocked, Return, Goto, HandlerOnly
<1>4. ASSUME NEW c \in Cpus, TestStep(c)
      PROVE  (TestsSoFar /\ SelectedAtDone)'
  <2> USE DEF Test, Goto, HandlerOnly, RespondOnly
  <2>1. CASE TestKill(c)
    BY <2>1 DEF TestKill
  <2>2. CASE TestKillAllowed(c)
    BY <2>2 DEF TestKillAllowed
  <2>3. CASE TestNotify(c)
    BY <2>3 DEF TestNotify
  <2>4. CASE TestBlock(c)
    BY <2>4 DEF TestBlock
  <2>5. QED
    BY <1>4, <2>1, <2>2, <2>3, <2>4 DEF TestStep
<1>5. ASSUME NEW f \in Flags, SetFlag(f)
      PROVE  (TestsSoFar /\ SelectedAtDone)'
  BY <1>5 DEF SetFlag, Testing
<1>6. CASE UnlinkUnprivileged \/ UNCHANGED vars
  BY <1>6 DEF UnlinkUnprivileged, vars, hanVars
<1>7. QED
  BY <1>1, <1>2, <1>3, <1>4, <1>5, <1>6, NextSplit
-----------------------------------------------------------------------------
(***************************************************************************)
(* The counters.                                                            *)
(***************************************************************************)
InState(p) == {c \in Cpus : pc[c] = p}

\* A handler that moves is in one state less and in another one more.
LEMMA MoveCounts ==
  ASSUME TypeOK, NEW c \in Cpus, NEW from, NEW to, from # to, Goto(c, from, to),
         NEW p
  PROVE  /\ Cardinality(InState(p)) \in Nat
         /\ Cardinality(InState(p)') =
              IF p = from THEN Cardinality(InState(p)) - 1
              ELSE IF p = to THEN Cardinality(InState(p)) + 1 ELSE Cardinality(InState(p))
<1>0. IsFiniteSet(Cpus)
  BY MonitorsAssumption
<1>1. IsFiniteSet(InState(p))
  BY <1>0, FS_Subset DEF InState
<1>2. CASE p = from
  <2>1. InState(p)' = InState(p) \ {c} /\ c \in InState(p)
    BY <1>2 DEF InState, Goto, TypeOK
  <2>2. QED
    BY <1>1, <1>2, <2>1, FS_RemoveElement, FS_CardinalityType
<1>3. CASE p # from /\ p = to
  <2>1. InState(p)' = InState(p) \cup {c} /\ c \notin InState(p)
    BY <1>3 DEF InState, Goto, TypeOK
  <2>2. QED
    BY <1>1, <1>3, <2>1, FS_AddElement, FS_CardinalityType
<1>4. CASE p # from /\ p # to
  <2>1. InState(p)' = InState(p)
    BY <1>4 DEF InState, Goto, TypeOK
  <2>2. QED
    BY <1>1, <1>4, <2>1, FS_CardinalityType
<1>5. QED
  BY <1>2, <1>3, <1>4

\* One report more in a class is one more in all.
LEMMA ReportCounts ==
  ASSUME TypeOK, NEW k \in Class, violations' = [violations EXCEPT ![k] = @ + 1]
  PROVE  Reports \in Nat /\ Reports' = Reports + 1
<1>1. \A j \in Class : violations[j] \in Nat /\ violations'[j] = violations[j] + (IF j = k THEN 1 ELSE 0)
  BY DEF TypeOK
<1>2. k \in {"exec", "file", "process", "network", "syscall", "memory", "module"}
  BY DEF Class
<1>3. \A j \in {"exec", "file", "process", "network", "syscall", "memory", "module"} :
        violations[j] \in Nat /\ violations'[j] = IF j = k THEN violations[j] + 1 ELSE violations[j]
  BY <1>1 DEF Class
<1>4. violations["exec"] + violations["file"] + violations["process"] + violations["network"]
        + violations["syscall"] + violations["memory"] + violations["module"] \in Nat
  BY <1>3
<1>5. /\ k = "exec" => Reports' = Reports + 1
      /\ k = "file" => Reports' = Reports + 1
      /\ k = "process" => Reports' = Reports + 1
      /\ k = "network" => Reports' = Reports + 1
      /\ k = "syscall" => Reports' = Reports + 1
      /\ k = "memory" => Reports' = Reports + 1
      /\ k = "module" => Reports' = Reports + 1
  BY <1>3 DEF Reports
<1>6. QED
  BY <1>2, <1>4, <1>5 DEF Reports

LEMMA StatsBalanceStep == IInv /\ [Next]_vars => StatsBalance'
<1> SUFFICES ASSUME IInv, [Next]_vars
             PROVE  StatsBalance'
  OBVIOUS
<1>0. /\ TypeOK
      /\ total_violations + Cardinality(InState("total")) = Reports
      /\ total_blocked + Cardinality(InState("blocked")) = total_violations
  BY DEF IInv, StatsBalance, InState
<1> SUFFICES /\ total_violations' + Cardinality(InState("total")') = Reports'
             /\ total_blocked' + Cardinality(InState("blocked")') = total_violations'
  BY DEF StatsBalance, InState
<1>1. ASSUME UNCHANGED statVars, InState("total")' = InState("total"),
             InState("blocked")' = InState("blocked")
      PROVE  /\ total_violations' + Cardinality(InState("total")') = Reports'
             /\ total_blocked' + Cardinality(InState("blocked")') = total_violations'
  BY <1>0, <1>1 DEF statVars, Reports
<1>2. ASSUME NEW c \in Cpus, NEW p \in probes, Fire(c, p)
      PROVE  /\ total_violations' + Cardinality(InState("total")') = Reports'
             /\ total_blocked' + Cardinality(InState("blocked")') = total_violations'
  <2>1. PICK k \in GuessesOf[p] : violations' = [violations EXCEPT ![k] = @ + 1]
    BY <1>2 DEF Fire
  <2>2. Reports \in Nat /\ Reports' = Reports + 1
    BY <1>0, <2>1, ReportCounts, GuessesAreClasses DEF TypeOK
  <2>3. Goto(c, "idle", "total")
    BY <1>2 DEF Fire, Goto
  <2>4. /\ Cardinality(InState("total")) \in Nat
        /\ Cardinality(InState("total")') = Cardinality(InState("total")) + 1
        /\ Cardinality(InState("blocked")') = Cardinality(InState("blocked"))
    BY <1>0, <2>3, MoveCounts
  <2>5. total_violations' = total_violations /\ total_blocked' = total_blocked
    BY <1>2 DEF Fire
  <2>6. QED
    BY <1>0, <2>2, <2>4, <2>5 DEF TypeOK
<1>3. ASSUME NEW c \in Cpus, CountTotal(c)
      PROVE  /\ total_violations' + Cardinality(InState("total")') = Reports'
             /\ total_blocked' + Cardinality(InState("blocked")') = total_violations'
  <2>1. Goto(c, "total", "blocked")
    BY <1>3 DEF CountTotal
  <2>2. /\ Cardinality(InState("total")) \in Nat /\ Cardinality(InState("blocked")) \in Nat
        /\ Cardinality(InState("total")') = Cardinality(InState("total")) - 1
        /\ Cardinality(InState("blocked")') = Cardinality(InState("blocked")) + 1
    BY <1>0, <2>1, MoveCounts
  <2>3. /\ total_violations' = total_violations + 1 /\ total_blocked' = total_blocked
        /\ Reports' = Reports
    BY <1>3 DEF CountTotal, Reports
  <2>4. QED
    BY <1>0, <2>2, <2>3 DEF TypeOK
<1>4. ASSUME NEW c \in Cpus, CountBlocked(c)
      PROVE  /\ total_violations' + Cardinality(InState("total")') = Reports'
             /\ total_blocked' + Cardinality(InState("blocked")') = total_violations'
  <2>1. Goto(c, "blocked", "kill")
    BY <1>4 DEF CountBlocked
  <2>2. /\ Cardinality(InState("blocked")) \in Nat
        /\ Cardinality(InState("total")') = Cardinality(InState("total"))
        /\ Cardinality(InState("blocked")') = Cardinality(InState("blocked")) - 1
    BY <1>0, <2>1, MoveCounts
  <2>3. /\ total_violations' = total_violations /\ total_blocked' = total_blocked + 1
        /\ Reports' = Reports
    BY <1>4 DEF CountBlocked, Reports
  <2>4. QED
    BY <1>0, <2>2, <2>3 DEF TypeOK
<1>5. ASSUME NEW c \in Cpus, TestStep(c) \/ Return(c)
      PROVE  /\ total_violations' + Cardinality(InState("total")') = Reports'
             /\ total_blocked' + Cardinality(InState("blocked")') = total_violations'
  <2>1. UNCHANGED statVars
    BY <1>5 DEF TestStep, TestKill, TestKillAllowed, TestNotify, TestBlock, RespondOnly, Return
  <2>2. /\ pc[c] \notin {"total", "blocked"} /\ pc'[c] \notin {"total", "blocked"}
        /\ \A d \in Cpus \ {c} : pc'[d] = pc[d]
    BY <1>0, <1>5 DEF TestStep, TestKill, TestKillAllowed, TestNotify, TestBlock, Test, Goto, Return,
                      TypeOK
  <2>3. InState("total")' = InState("total") /\ InState("blocked")' = InState("blocked")
    BY <2>2 DEF InState
  <2>4. QED
    BY <1>1, <2>1, <2>3
<1>6. ASSUME NEW m \in Monitors, MonitorStep(m)
      PROVE  /\ total_violations' + Cardinality(InState("total")') = Reports'
             /\ total_blocked' + Cardinality(InState("blocked")') = total_violations'
  BY <1>1, <1>6, MonitorStepProbes DEF hanVars, InState
<1>7. CASE UnlinkUnprivileged \/ (\E f \in Flags : SetFlag(f)) \/ UNCHANGED vars
  BY <1>1, <1>7 DEF UnlinkUnprivileged, SetFlag, vars, hanVars, InState
<1>8. QED
  BY <1>2, <1>3, <1>4, <1>5, <1>6, <1>7, NextSplit DEF CountStep

\* References come with a handler of do_unlinkat and go with it.
LEMMA OnlyUnprivilegedLeakStep == IInv /\ [Next]_vars => OnlyUnprivilegedLeak'
<1> DEFINE Unlinking == {c \in Cpus : probe[c] = "do_unlinkat"}
<1> SUFFICES ASSUME IInv, [Next]_vars
             PROVE  file_refs' = leaked' + Cardinality(Unlinking')
  BY DEF OnlyUnprivilegedLeak
<1>0. /\ TypeOK /\ HandlersOnProbes /\ file_refs = leaked + Cardinality(Unlinking)
      /\ IsFiniteSet(Unlinking) /\ Cardinality(Unlinking) \in Nat
  BY MonitorsAssumption, FS_Subset, FS_CardinalityType DEF IInv, OnlyUnprivilegedLeak
<1>1. ASSUME UNCHANGED refVars, UNCHANGED probe
      PROVE  file_refs' = leaked' + Cardinality(Unlinking')
  BY <1>0, <1>1 DEF refVars
<1>2. ASSUME NEW c \in Cpus, NEW p \in probes, Fire(c, p)
      PROVE  file_refs' = leaked' + Cardinality(Unlinking')
  <2>1. c \notin Unlinking
    BY <1>0, <1>2 DEF Fire, HandlersOnProbes, NoProbe
  <2>2. Unlinking' = IF p = "do_unlinkat" THEN Unlinking \cup {c} ELSE Unlinking
    BY <1>0, <1>2, <2>1 DEF Fire, TypeOK
  <2>3. Cardinality(Unlinking \cup {c}) = Cardinality(Unlinking) + 1
    BY <1>0, <2>1, FS_AddElement
  <2>4. CASE p = "do_unlinkat"
    <3>1. Cardinality(Unlinking') = Cardinality(Unlinking) + 1
      BY <2>2, <2>3, <2>4
    <3>2. QED
      BY <1>0, <1>2, <2>4, <3>1 DEF Fire, TypeOK
  <2>5. CASE p # "do_unlinkat"
    BY <1>0, <1>2, <2>2, <2>5 DEF Fire, TypeOK
  <2>6. QED
    BY <2>4, <2>5
<1>3. ASSUME NEW c \in Cpus, Return(c)
      PROVE  file_refs' = leaked' + Cardinality(Unlinking')
  <2>1. Unlinking' = Unlinking \ {c}
    BY <1>0, <1>3 DEF Return, TypeOK, NoProbe
  <2>2. CASE probe[c] = "do_unlinkat"
    <3>1. Cardinality(Unlinking \ {c}) = Cardinality(Unlinking) - 1
      BY <1>0, <2>2, FS_RemoveElement
    <3>2. Cardinality(Unlinking') = Cardinality(Unlinking) - 1
      BY <2>1, <3>1
    <3>3. QED
      BY <1>0, <1>3, <2>2, <3>2 DEF Return, TypeOK
  <2>3. CASE probe[c] # "do_unlinkat"
    <3>1. Unlinking' = Unlinking
      BY <2>1, <2>3
    <3>2. QED
      BY <1>0, <1>3, <2>3, <3>1 DEF Return, TypeOK
  <2>4. QED
    BY <2>2, <2>3
<1>4. CASE UnlinkUnprivileged
  BY <1>0, <1>4 DEF UnlinkUnprivileged, hanVars, TypeOK
<1>5. ASSUME NEW m \in Monitors, MonitorStep(m)
      PROVE  file_refs' = leaked' + Cardinality(Unlinking')
  BY <1>1, <1>5, MonitorStepProbes DEF hanVars
<1>6. ASSUME NEW c \in Cpus, CountStep(c) \/ TestStep(c)
      PROVE  file_refs' = leaked' + Cardinality(Unlinking')
  BY <1>1, <1>6 DEF CountStep, CountTotal, CountBlocked, TestStep, TestKill, TestKillAllowed,
                    TestNotify, TestBlock, HandlerOnly, RespondOnly
<1>7. CASE (\E f \in Flags : SetFlag(f)) \/ UNCHANGED vars
  BY <1>1, <1>7 DEF SetFlag, vars, hanVars
<1>8. QED
  BY <1>2, <1>3, <1>4, <1>5, <1>6, <1>7, NextSplit
-----------------------------------------------------------------------------
(***************************************************************************)
(* The theorems.                                                            *)
(***************************************************************************)

\* The invariant is inductive.
THEOREM Invariance == Spec => []IInv
<1>1. IInv /\ [Next]_vars => IInv'
  BY TypeOKStep, HandlersOnProbesStep, UpToAtStep, MonitorAllOrNothingStep,
     SelectedAtDoneStep, NotYetStoppedStep, StatsBalanceStep, OnlyUnprivilegedLeakStep DEF IInv
<1>2. QED
  BY InitIInv, <1>1, PTL DEF Spec

\* Whichever probe of whichever monitors fails, a monitor that is off has no
\* probe and no handler and one that is on has all of its probes
\* (file_monitor.c:97-115, process_monitor.c:113-138, memory_monitor.c:82-108).
THEOREM AllOrNothing == Spec => []MonitorAllOrNothing
<1>1. IInv => MonitorAllOrNothing
  BY DEF IInv
<1>2. QED
  BY Invariance, <1>1, PTL

\* However many handlers run and flags change, a handler whose tests saw no
\* change ends as the flags select, and the operation it reports is stopped if
\* and only if it is a packet (utils.c:65-94, network_monitor.c:62-64).
THEOREM ResponseBySelection == Spec => UndisturbedResponse
<1>1. ASSUME IInv, [Next]_vars, NEW c \in Cpus, pc[c] = "done", pc'[c] # "done"
      PROVE  /\ steady[c] => response[c] = Selected
             /\ c \in stopped' <=> probe[c] = Hook
  <2>0. TypeOK /\ HandlersOnProbes /\ SelectedAtDone
    BY <1>1 DEF IInv
  <2>1. Return(c)
    <3>1. CASE UNCHANGED pc
      BY <1>1, <3>1
    <3>2. ASSUME NEW d \in Cpus, CountStep(d) \/ TestStep(d) \/ Return(d)
          PROVE  Return(c)
      BY <1>1, <2>0, <3>2 DEF TypeOK, CountStep, CountTotal, CountBlocked, TestStep, TestKill,
                 TestKillAllowed, TestNotify, TestBlock, Test, Goto, Return
    <3>3. ASSUME NEW d \in Cpus, NEW p \in probes, Fire(d, p)
          PROVE  FALSE
      BY <1>1, <2>0, <3>3 DEF TypeOK, Fire
    <3>4. CASE (\E m \in Monitors : MonitorStep(m)) \/ UnlinkUnprivileged
               \/ (\E f \in Flags : SetFlag(f)) \/ UNCHANGED vars
      <4>1. UNCHANGED pc
        BY <1>1, <3>4, MonitorStepProbes DEF UnlinkUnprivileged, SetFlag, vars, hanVars
      <4>2. QED
        BY <3>1, <4>1
    <3>5. QED
      BY <1>1, <3>2, <3>3, <3>4, NextSplit
  <2>2. c \notin stopped
    BY <1>1 DEF IInv, NotYetStopped
  <2>3. QED
    BY <1>1, <2>0, <2>1, <2>2 DEF Return, SelectedAtDone
<1>2. IInv /\ [Next]_vars =>
        [\A c \in Cpus : pc[c] = "done" /\ pc'[c] # "done" =>
           /\ steady[c] => response[c] = Selected
           /\ c \in stopped' <=> probe[c] = Hook]_vars
  BY <1>1
<1>3. QED
  BY Invariance, <1>2, PTL DEF Spec, UndisturbedResponse

\* The counters of statistics.c differ only by the handlers between two of
\* their increments, on any number of CPUs (statistics.c:93-133).
THEOREM CountersBalance == Spec => []StatsBalance
<1>1. IInv => StatsBalance
  BY DEF IInv
<1>2. QED
  BY Invariance, <1>1, PTL

\* References to an unlinked file stay behind only for the calls of others
\* than root (process_monitor.c:21-54).
THEOREM LeakIsUnprivileged == Spec => []OnlyUnprivilegedLeak
<1>1. IInv => OnlyUnprivilegedLeak
  BY DEF IInv
<1>2. QED
  BY Invariance, <1>1, PTL
=============================================================================
