------------------------ MODULE ModuleLifecycle_proofs ------------------------
(***************************************************************************)
(* What holds of loading and unloading for every list of monitors and every *)
(* set of processors.                                                       *)
(***************************************************************************)
EXTENDS ModuleLifecycle, SequenceTheorems, TLAPS

LastMonitor  == Len(UpOrder)
FirstMonitor == Len(SubsystemOrder) + 1

\* The monitors up to position k of UpOrder.
UpTo(k) == {UpOrder[i] : i \in FirstMonitor .. k}

TypeOK ==
  /\ phase \in {"load", "rollback", "failed", "live", "exit", "gone"}
  /\ step \in 0 .. LastMonitor + 1
  /\ registered \subseteq Monitors
  /\ draining \in BOOLEAN /\ toggled \in BOOLEAN
  /\ nl_sock \in {"null", "open", "released"}
  /\ crash \in {"none", "socket", "text"}
  /\ printed \in Nat \cup {-1} /\ violations \in Nat
  /\ enabled \in [Monitors -> BOOLEAN]
  /\ han_pc \in [Cpus -> {"idle", "log", "log_send", "kill", "kill_send"}]
  /\ han_mon \in [Cpus -> Monitors \cup {NoMonitor}]

\* Where the paths of insmod and rmmod can stand.
Exiting == phase = "exit" /\ printed # -1
StepInPhase ==
  /\ phase = "exit" => IF printed = -1 THEN step < FirstMonitor ELSE step >= FirstMonitor - 1 /\ step <= LastMonitor
  /\ phase = "rollback" => step <= LastMonitor
  /\ draining => ((phase = "rollback" \/ Exiting) /\ AtMonitor)
  /\ phase # "exit" /\ phase # "gone" => printed = -1

\* A handler serves a monitor whose probes are there, or which is waited for.
HandlersAccounted ==
  \A c \in Cpus : han_pc[c] # "idle" =>
    \/ han_mon[c] \in registered
    \/ (draining /\ han_mon[c] = UpOrder[step])

\* Once the configuration is read every flag is set, until somebody writes one.
FlagsSet == ~toggled /\ (phase = "load" => step > 0) => \A m \in Monitors : enabled[m]

\* With the flags left alone the monitors go down in the order they came up.
Horizon ==
  CASE phase = "load" -> step - 1
    [] phase = "rollback" \/ Exiting -> IF draining THEN step - 1 ELSE step
    [] phase = "live" \/ (phase = "exit" /\ printed = -1) -> LastMonitor
    [] OTHER -> 0
RegisteredInOrder == ~toggled => registered \subseteq UpTo(Horizon)

UpAreSubsystems == up \subseteq {UpOrder[i] : i \in 1 .. FirstMonitor - 1}

\* The subsystems come up in order; the socket is there from the first one on,
\* until the rollback is through with the others.
UpInOrder ==
  /\ phase = "load" => /\ up \subseteq {UpOrder[i] : i \in 1 .. step - 1}
                       /\ nl_sock = IF step <= 1 THEN "null" ELSE "open"
  /\ phase = "live" => nl_sock = "open"
  /\ phase = "rollback" =>
       /\ up \subseteq {UpOrder[i] : i \in 1 .. step} \cup {"plugins", "self_protection"}
       /\ step > 1 => nl_sock = "open"
       /\ step = 0 => nl_sock = "null"

IInv ==
  /\ TypeOK
  /\ StepInPhase
  /\ HandlersAccounted
  /\ FlagsSet
  /\ RegisteredInOrder
  /\ UpAreSubsystems
  /\ UpInOrder
  /\ NoProbeLeftBehind
  /\ RollbackComplete
  /\ OnlyExitPullsTheSocket
-----------------------------------------------------------------------------
(***************************************************************************)
(* The order.                                                               *)
(***************************************************************************)
Names == {"notification", "events", "rules", "plugins", "self_protection"}

LEMMA OrderOfSubsystems ==
  /\ FirstMonitor = 6 /\ Len(SubsystemOrder) = 5
  /\ SubsystemOrder \in Seq(Names)
  /\ SubsystemOrder[1] = "notification" /\ SubsystemOrder[2] = "events"
  /\ SubsystemOrder[3] = "rules" /\ SubsystemOrder[4] = "plugins"
  /\ SubsystemOrder[5] = "self_protection"
<1>1. Len(SubsystemOrder) = 5
  BY DEF SubsystemOrder
<1>2. SubsystemOrder \in Seq(Names)
  BY DEF SubsystemOrder, Names
<1>3. /\ SubsystemOrder[1] = "notification" /\ SubsystemOrder[2] = "events"
      /\ SubsystemOrder[3] = "rules" /\ SubsystemOrder[4] = "plugins"
      /\ SubsystemOrder[5] = "self_protection"
  BY DEF SubsystemOrder
<1>4. QED
  BY <1>1, <1>2, <1>3 DEF FirstMonitor

LEMMA Order ==
  /\ FirstMonitor = 6 /\ Len(SubsystemOrder) = 5 /\ Len(UpOrder) = LastMonitor
  /\ LastMonitor \in Nat /\ LastMonitor >= 6
  /\ UpOrder[1] = "notification" /\ UpOrder[2] = "events" /\ UpOrder[3] = "rules"
  /\ UpOrder[4] = "plugins" /\ UpOrder[5] = "self_protection"
  /\ UpOrder[6] = Head(MonitorOrder)
  /\ \A i \in 6 .. LastMonitor : UpOrder[i] \in Monitors
  /\ \A m \in Monitors : \E i \in 6 .. LastMonitor : UpOrder[i] = m
  /\ \A i, j \in 1 .. LastMonitor : UpOrder[i] = UpOrder[j] => i = j
<1> DEFINE A == SubsystemOrder
           M == MonitorOrder
<1>1. /\ A \in Seq(Names) /\ Len(A) = 5 /\ FirstMonitor = 6
      /\ A[1] = "notification" /\ A[2] = "events" /\ A[3] = "rules"
      /\ A[4] = "plugins" /\ A[5] = "self_protection"
  BY OrderOfSubsystems
<1>2. M \in Seq(Monitors) /\ Len(M) \in Nat /\ Len(M) >= 1 /\ Head(M) = M[1]
  BY ModuleLifecycleAssumption
<1>3. \A m \in Monitors : \E k \in 1 .. Len(M) : M[k] = m
  BY <1>2 DEF Monitors, ToSet
<1>4. UpOrder = A \o M /\ IsInjective(UpOrder)
  BY ModuleLifecycleAssumption DEF UpOrder
<1> HIDE DEF A, M
<1>5. /\ Len(A \o M) = 5 + Len(M) /\ DOMAIN (A \o M) = 1 .. 5 + Len(M)
      /\ \A i \in 1 .. 5 : (A \o M)[i] = A[i]
      /\ \A k \in 1 .. Len(M) : (A \o M)[5 + k] = M[k]
  <2>1. A \in Seq(Names \cup Monitors) /\ M \in Seq(Names \cup Monitors)
    BY <1>1, <1>2
  <2>2. /\ A \o M \in Seq(Names \cup Monitors) /\ Len(A \o M) = Len(A) + Len(M)
        /\ \A i \in 1 .. Len(A) + Len(M) :
             (A \o M)[i] = IF i <= Len(A) THEN A[i] ELSE M[i - Len(A)]
    BY <2>1, ConcatProperties
  <2>3. \A k \in 1 .. Len(M) : /\ 5 + k \in 1 .. 5 + Len(M) /\ ~(5 + k <= 5)
                                /\ (5 + k) - 5 = k
    BY <1>2
  <2>4. \A k \in 1 .. Len(M) : (A \o M)[5 + k] = M[k]
    BY <1>1, <2>2, <2>3
  <2>5. \A i \in 1 .. 5 : (A \o M)[i] = A[i]
    BY <1>1, <1>2, <2>2
  <2>6. DOMAIN (A \o M) = 1 .. 5 + Len(M)
    BY <1>1, <2>2
  <2>7. QED
    BY <1>1, <2>2, <2>4, <2>5, <2>6
<1>6. LastMonitor = 5 + Len(M) /\ DOMAIN UpOrder = 1 .. LastMonitor
  BY <1>4, <1>5 DEF LastMonitor
<1>7. \A i \in 6 .. LastMonitor : i - 5 \in 1 .. Len(M) /\ UpOrder[i] = M[i - 5]
  BY <1>2, <1>4, <1>5, <1>6
<1>8. \A i \in 6 .. LastMonitor : UpOrder[i] \in Monitors
  BY <1>2, <1>7
<1>9. \A m \in Monitors : \E i \in 6 .. LastMonitor : UpOrder[i] = m
  <2>1. SUFFICES ASSUME NEW m \in Monitors
                 PROVE  \E i \in 6 .. LastMonitor : UpOrder[i] = m
    OBVIOUS
  <2>2. PICK k \in 1 .. Len(M) : M[k] = m
    BY <1>3
  <2>3. 5 + k \in 6 .. LastMonitor /\ UpOrder[5 + k] = m
    BY <1>2, <1>4, <1>5, <1>6, <2>2
  <2>4. QED
    BY <2>3
<1>10. \A i, j \in 1 .. LastMonitor : UpOrder[i] = UpOrder[j] => i = j
  BY <1>4, <1>6 DEF IsInjective
<1>11. UpOrder[6] = Head(MonitorOrder)
  BY <1>2, <1>6, <1>7 DEF M
<1>12. /\ UpOrder[1] = "notification" /\ UpOrder[2] = "events" /\ UpOrder[3] = "rules"
       /\ UpOrder[4] = "plugins" /\ UpOrder[5] = "self_protection"
  BY <1>1, <1>4, <1>5
<1>13. LastMonitor \in Nat /\ LastMonitor >= 6 /\ Len(UpOrder) = LastMonitor
  BY <1>2, <1>6 DEF LastMonitor
<1>14. QED
  BY <1>1, <1>8, <1>9, <1>10, <1>11, <1>12, <1>13, OrderOfSubsystems
-----------------------------------------------------------------------------
(***************************************************************************)
(* The steps.                                                               *)
(***************************************************************************)
ProbeStep == \E c \in Cpus : HandlerStep(c) \/ \E m \in Monitors : HandlerEnter(c, m)
SysfsStep == \E m \in Monitors : Toggle(m)
MainStep  == LoadStep \/ ExitBegin \/ DownStep

LEMMA NextSplit == Next <=> MainStep \/ ProbeStep \/ SysfsStep
BY DEF Next, MainStep, ProbeStep, SysfsStep

\* Handlers and sysfs leave the load's variables alone, and the load theirs.
LEMMA Frames ==
  /\ ProbeStep => UNCHANGED loadVars /\ UNCHANGED sysfs
  /\ SysfsStep => UNCHANGED loadVars /\ UNCHANGED hanVars
  /\ MainStep  => UNCHANGED hanVars /\ UNCHANGED toggled /\ crash = "none"
<1>1. ProbeStep => UNCHANGED loadVars /\ UNCHANGED sysfs
  BY DEF ProbeStep, HandlerStep, HandlerTestSocket, HandlerSend, HandlerKillsQuietly, HandlerEnter
<1>2. SysfsStep => UNCHANGED loadVars /\ UNCHANGED hanVars
  BY DEF SysfsStep, Toggle
<1>3. LoadStep => UNCHANGED hanVars /\ UNCHANGED toggled /\ crash = "none"
  BY DEF LoadStep, InitConfig, InitSubsystem, InitSubsystemFails, RegisterMonitor,
         RegisterMonitorFails, InitDone, sysfs, During, Alive
<1>4. ExitBegin \/ DownStep => UNCHANGED hanVars /\ UNCHANGED toggled /\ crash = "none"
  BY DEF ExitBegin, DownStep, RollbackMonitor, RollbackSubsystem, RollbackDone, ExitSubsystem,
         ExitPrintStatistics, ExitMonitor, ExitDone, sysfs, During, Alive
<1>5. QED
  BY <1>1, <1>2, <1>3, <1>4 DEF MainStep

LEMMA InitIInv == Init => IInv
<1> SUFFICES ASSUME Init
             PROVE  IInv
  OBVIOUS
<1>1. TypeOK
  <2>1. /\ han_pc \in [Cpus -> {"idle", "log", "log_send", "kill", "kill_send"}]
        /\ han_mon \in [Cpus -> Monitors \cup {NoMonitor}]
        /\ enabled \in [Monitors -> BOOLEAN]
    BY DEF Init
  <2>2. draining \in BOOLEAN /\ toggled \in BOOLEAN
    BY Zenon DEF Init
  <2>3. QED
    BY <2>1, <2>2, Order DEF Init, TypeOK
<1>2. StepInPhase /\ HandlersAccounted /\ FlagsSet /\ RegisteredInOrder /\ UpAreSubsystems /\ UpInOrder
  BY DEF Init, StepInPhase, HandlersAccounted, FlagsSet, RegisteredInOrder, UpAreSubsystems, UpInOrder,
         Exiting
<1>3. NoProbeLeftBehind /\ RollbackComplete /\ OnlyExitPullsTheSocket
  BY DEF Init, NoProbeLeftBehind, RollbackComplete, OnlyExitPullsTheSocket
<1>4. QED
  BY <1>1, <1>2, <1>3 DEF IInv

LEMMA StepInPhaseStep == IInv /\ [Next]_vars => StepInPhase'
<1> SUFFICES ASSUME IInv, [Next]_vars
             PROVE  StepInPhase'
  OBVIOUS
<1>0. TypeOK /\ StepInPhase
  BY DEF IInv
<1>1. CASE UNCHANGED loadVars
  BY <1>0, <1>1 DEF loadVars, StepInPhase, Exiting, AtMonitor
<1>2. CASE LoadStep
  BY <1>0, <1>2, Order DEF TypeOK, StepInPhase, Exiting, AtMonitor, LoadStep, InitConfig, InitSubsystem,
       InitSubsystemFails, RegisterMonitor, RegisterMonitorFails, InitDone, During
<1>3. CASE ExitBegin
  BY <1>0, <1>3, Order DEF TypeOK, StepInPhase, Exiting, AtMonitor, ExitBegin, During
<1>4. CASE RollbackMonitor \/ RollbackSubsystem \/ RollbackDone
  BY <1>0, <1>4, Order DEF TypeOK, StepInPhase, Exiting, AtMonitor, RollbackMonitor, RollbackSubsystem,
       RollbackDone, During, UnregisterBegin, UnregisterEnd, UnregisterSkip
<1>5. CASE ExitSubsystem \/ ExitPrintStatistics
  BY <1>0, <1>5, Order DEF TypeOK, StepInPhase, Exiting, AtMonitor, ExitSubsystem, ExitPrintStatistics,
       During
<1>6. CASE ExitMonitor \/ ExitDone
  BY <1>0, <1>6, Order DEF TypeOK, StepInPhase, Exiting, AtMonitor, ExitMonitor, ExitDone, During,
       UnregisterBegin, UnregisterEnd, UnregisterSkip
<1>7. QED
  BY <1>1, <1>2, <1>3, <1>4, <1>5, <1>6, NextSplit, Frames DEF MainStep, DownStep, vars

LEMMA TypeOKStep == IInv /\ [Next]_vars => TypeOK'
<1> SUFFICES ASSUME IInv, [Next]_vars
             PROVE  TypeOK'
  OBVIOUS
<1>0. TypeOK /\ StepInPhase
  BY DEF IInv
<1> DEFINE
     PathOK == /\ phase \in {"load", "rollback", "failed", "live", "exit", "gone"}
               /\ step \in 0 .. LastMonitor + 1
               /\ registered \subseteq Monitors
               /\ nl_sock \in {"null", "open", "released"}
               /\ printed \in Nat \cup {-1}
     DrainingOK == draining \in BOOLEAN
     HandlersOK == /\ crash \in {"none", "socket", "text"} /\ violations \in Nat
                   /\ han_pc \in [Cpus -> {"idle", "log", "log_send", "kill", "kill_send"}]
                   /\ han_mon \in [Cpus -> Monitors \cup {NoMonitor}]
     FlagsOK == enabled \in [Monitors -> BOOLEAN] /\ toggled \in BOOLEAN
<1>1. PathOK /\ DrainingOK /\ HandlersOK /\ FlagsOK
  BY <1>0 DEF TypeOK
<1>2. /\ UNCHANGED loadVars => PathOK' /\ DrainingOK'
      /\ UNCHANGED hanVars => HandlersOK'
      /\ UNCHANGED sysfs => FlagsOK'
  BY <1>1 DEF loadVars, hanVars, sysfs
<1>3. ASSUME PathOK', DrainingOK', HandlersOK', FlagsOK'
      PROVE  TypeOK'
  BY <1>3 DEF TypeOK
<1>4. CASE MainStep
  <2>1. HandlersOK'
    BY <1>2, <1>4, Frames
  <2>2. FlagsOK'
    <3>1. toggled' \in BOOLEAN
      BY <1>1, <1>4, Frames
    <3>2. enabled' = enabled \/ enabled' = [m \in Monitors |-> TRUE]
      BY <1>4, Zenon DEF MainStep, LoadStep, DownStep, InitConfig, InitSubsystem, InitSubsystemFails,
         RegisterMonitor, RegisterMonitorFails, InitDone, ExitBegin, RollbackMonitor, RollbackSubsystem,
         RollbackDone, ExitSubsystem, ExitPrintStatistics, ExitMonitor, ExitDone, sysfs
    <3>3. QED
      BY <1>1, <3>1, <3>2
  <2>3. DrainingOK'
    BY <1>1, <1>4, Zenon DEF MainStep, LoadStep, DownStep, InitConfig, InitSubsystem, InitSubsystemFails,
         RegisterMonitor, RegisterMonitorFails, InitDone, ExitBegin, RollbackMonitor, RollbackSubsystem,
         RollbackDone, ExitSubsystem, ExitPrintStatistics, ExitMonitor, ExitDone,
         UnregisterBegin, UnregisterEnd, UnregisterSkip
  <2>4. PathOK'
    <3>1. CASE LoadStep
      BY <1>0, <1>1, <3>1, Order DEF LoadStep, InitConfig, InitSubsystem, InitSubsystemFails,
         RegisterMonitor, RegisterMonitorFails, InitDone, AtMonitor, During
    <3>2. CASE ExitBegin \/ RollbackMonitor \/ RollbackSubsystem \/ RollbackDone
      BY <1>0, <1>1, <3>2, Order DEF ExitBegin, RollbackMonitor, RollbackSubsystem, RollbackDone,
         AtMonitor, UnregisterBegin, UnregisterEnd, UnregisterSkip, ReleaseSocket, ClearSocket
    <3>3. CASE ExitSubsystem \/ ExitPrintStatistics \/ ExitMonitor \/ ExitDone
      BY <1>0, <1>1, <3>3, Order DEF TypeOK, ExitSubsystem, ExitPrintStatistics, ExitMonitor, ExitDone,
         AtMonitor, UnregisterBegin, UnregisterEnd, UnregisterSkip, ReleaseSocket, ClearSocket
    <3>4. QED
      BY <1>4, <3>1, <3>2, <3>3 DEF MainStep, DownStep
  <2>5. QED
    BY <1>3, <2>1, <2>2, <2>3, <2>4
<1>5. CASE ProbeStep
  <2>1. PathOK' /\ DrainingOK' /\ FlagsOK'
    BY <1>2, <1>5, Frames
  <2>2. HandlersOK'
    <3>1. ASSUME NEW c \in Cpus, NEW m \in Monitors, HandlerEnter(c, m)
          PROVE  HandlersOK'
      BY <1>1, <3>1 DEF HandlerEnter
    <3>2. ASSUME NEW c \in Cpus, HandlerStep(c)
          PROVE  HandlersOK'
      BY <1>1, <3>2 DEF HandlerStep, HandlerTestSocket, HandlerSend, HandlerKillsQuietly, Advance, After
    <3>3. QED
      BY <1>5, <3>1, <3>2 DEF ProbeStep
  <2>3. QED
    BY <1>3, <2>1, <2>2
<1>6. CASE SysfsStep
  <2>1. PathOK' /\ DrainingOK' /\ HandlersOK'
    BY <1>2, <1>6, Frames
  <2>2. toggled' \in BOOLEAN
    BY <1>6, Zenon DEF SysfsStep, Toggle
  <2>3. enabled' \in [Monitors -> BOOLEAN]
    BY <1>1, <1>6 DEF SysfsStep, Toggle
  <2>4. QED
    BY <1>3, <2>1, <2>2, <2>3
<1>7. CASE UNCHANGED vars
  BY <1>2, <1>3, <1>7 DEF vars
<1>8. QED
  BY <1>4, <1>5, <1>6, <1>7, NextSplit

LEMMA HandlersAccountedStep == IInv /\ [Next]_vars => HandlersAccounted'
<1> SUFFICES ASSUME IInv, [Next]_vars
             PROVE  HandlersAccounted'
  OBVIOUS
<1>0. TypeOK /\ StepInPhase /\ HandlersAccounted
  BY DEF IInv
<1>1. ASSUME UNCHANGED <<han_pc, han_mon>>, registered \subseteq registered',
             draining => draining' /\ step' = step
      PROVE  HandlersAccounted'
  BY <1>0, <1>1 DEF HandlersAccounted
<1>2. CASE LoadStep \/ ExitBegin
  <2>1. ~draining
    BY <1>0, <1>2, Zenon DEF StepInPhase, Exiting, LoadStep, InitConfig, InitSubsystem, InitSubsystemFails,
       RegisterMonitor, RegisterMonitorFails, InitDone, ExitBegin, During
  <2>2. registered \subseteq registered' /\ UNCHANGED <<han_pc, han_mon>>
    BY <1>2 DEF LoadStep, InitConfig, InitSubsystem, InitSubsystemFails, RegisterMonitor,
                RegisterMonitorFails, InitDone, ExitBegin, hanVars
  <2>3. QED
    BY <1>1, <2>1, <2>2
<1>3. CASE RollbackSubsystem \/ RollbackDone \/ ExitSubsystem \/ ExitPrintStatistics \/ ExitDone
  <2>1. ~draining
    BY <1>0, <1>3, Order DEF StepInPhase, Exiting, AtMonitor, RollbackSubsystem, RollbackDone,
       ExitSubsystem, ExitPrintStatistics, ExitDone, During
  <2>2. UNCHANGED <<registered, han_pc, han_mon>>
    BY <1>3 DEF RollbackSubsystem, RollbackDone, ExitSubsystem, ExitPrintStatistics, ExitDone, hanVars
  <2>3. QED
    BY <1>1, <2>1, <2>2
<1>4. CASE RollbackMonitor \/ ExitMonitor
  <2>1. UNCHANGED <<han_pc, han_mon>>
    BY <1>4 DEF RollbackMonitor, ExitMonitor, hanVars
  <2>2. CASE UnregisterBegin(UpOrder[step]) /\ UNCHANGED step
    BY <1>0, <2>1, <2>2 DEF HandlersAccounted, UnregisterBegin
  <2>3. CASE UnregisterEnd(UpOrder[step])
    BY <1>0, <2>1, <2>3 DEF HandlersAccounted, UnregisterEnd
  <2>4. CASE UnregisterSkip(UpOrder[step])
    BY <1>1, <2>1, <2>4 DEF UnregisterSkip
  <2>5. QED
    BY <1>4, <2>2, <2>3, <2>4 DEF RollbackMonitor, ExitMonitor
<1>5. ASSUME NEW c \in Cpus, NEW m \in Monitors, HandlerEnter(c, m)
      PROVE  HandlersAccounted'
  BY <1>0, <1>5 DEF TypeOK, HandlersAccounted, HandlerEnter, loadVars
<1>6. ASSUME NEW c \in Cpus, HandlerStep(c)
      PROVE  HandlersAccounted'
  <2>1. PICK p \in {"idle", "log_send", "kill", "kill_send"} : Advance(c, p)
    BY <1>6 DEF HandlerStep, HandlerTestSocket, HandlerSend, HandlerKillsQuietly, After
  <2>2. han_pc[c] # "idle" /\ UNCHANGED loadVars
    BY <1>6 DEF HandlerStep, HandlerTestSocket, HandlerSend, HandlerKillsQuietly
  <2>3. QED
    BY <1>0, <2>1, <2>2 DEF TypeOK, HandlersAccounted, Advance, loadVars
<1>7. CASE SysfsStep \/ UNCHANGED vars
  BY <1>1, <1>7, Frames DEF vars, loadVars, hanVars
<1>8. QED
  BY <1>2, <1>3, <1>4, <1>5, <1>6, <1>7, NextSplit DEF MainStep, DownStep, ProbeStep

LEMMA FlagsSetStep == IInv /\ [Next]_vars => FlagsSet'
<1> SUFFICES ASSUME IInv, [Next]_vars
             PROVE  FlagsSet'
  OBVIOUS
<1>0. TypeOK /\ FlagsSet
  BY DEF IInv
<1>1. CASE InitConfig
  BY <1>1 DEF InitConfig, FlagsSet
<1>2. CASE LoadStep /\ ~InitConfig
  BY <1>0, <1>2, Order DEF TypeOK, FlagsSet, LoadStep, InitSubsystem, InitSubsystemFails, RegisterMonitor,
       RegisterMonitorFails, InitDone, During, AtMonitor, sysfs
<1>3. CASE ExitBegin \/ DownStep
  BY <1>0, <1>3 DEF FlagsSet, ExitBegin, DownStep, RollbackMonitor, RollbackSubsystem, RollbackDone,
       ExitSubsystem, ExitPrintStatistics, ExitMonitor, ExitDone, During, sysfs
<1>4. CASE SysfsStep
  BY <1>4 DEF SysfsStep, Toggle, FlagsSet
<1>5. CASE ProbeStep \/ UNCHANGED vars
  BY <1>0, <1>5, Frames DEF FlagsSet, vars, loadVars, sysfs
<1>6. QED
  BY <1>1, <1>2, <1>3, <1>4, <1>5, NextSplit DEF MainStep

LEMMA RegisteredInOrderStep == IInv /\ [Next]_vars => RegisteredInOrder'
<1> SUFFICES ASSUME IInv, [Next]_vars, ~toggled'
             PROVE  (registered \subseteq UpTo(Horizon))'
  BY DEF RegisteredInOrder
<1>0. TypeOK /\ StepInPhase /\ FlagsSet /\ RegisteredInOrder
  BY DEF IInv
<1>1. ~toggled
  BY NextSplit, Frames DEF SysfsStep, Toggle, vars, sysfs
<1>2. registered \subseteq UpTo(Horizon)
  BY <1>0, <1>1 DEF RegisteredInOrder
<1>3. \A x \in registered : \E i \in 6 .. Horizon : x = UpOrder[i]
  BY <1>2, Order DEF UpTo
<1>4. SUFFICES \A x \in registered' : \E i \in 6 .. Horizon' : x = UpOrder[i]
  BY Order DEF UpTo
<1>5. Horizon \in Int /\ step \in Nat /\ LastMonitor \in Nat
  BY <1>0, Order DEF Horizon, TypeOK
<1>6. ASSUME registered' \subseteq registered, Horizon' \in Int, Horizon <= Horizon'
      PROVE  \A x \in registered' : \E i \in 6 .. Horizon' : x = UpOrder[i]
  BY <1>3, <1>5, <1>6
<1>7. CASE UNCHANGED loadVars
  BY <1>3, <1>7 DEF loadVars, Horizon, Exiting
<1>8. CASE InitConfig \/ InitSubsystem \/ InitSubsystemFails \/ RegisterMonitorFails \/ InitDone
  <2>1. registered' = registered /\ ~draining
    BY <1>0, <1>8 DEF InitConfig, InitSubsystem, InitSubsystemFails, RegisterMonitorFails, InitDone,
       StepInPhase, Exiting, During
  <2>2. CASE Horizon' \in Int /\ Horizon <= Horizon'
    BY <1>6, <2>1, <2>2
  <2>3. CASE RegisterMonitorFails /\ phase' = "failed"
    <3>1. UpOrder[step] = UpOrder[6] /\ step \in 6 .. LastMonitor
      BY <2>3, Order DEF RegisterMonitorFails, AtMonitor
    <3>2. step = 6 /\ phase = "load"
      BY <2>3, <3>1, Order DEF RegisterMonitorFails, During
    <3>3. Horizon = step - 1
      BY <3>2 DEF Horizon, Exiting
    <3>4. QED
      BY <1>3, <2>1, <3>2, <3>3
  <2>4. CASE ~(RegisterMonitorFails /\ phase' = "failed")
    <3>1. Horizon' \in Int /\ Horizon <= Horizon'
      BY <1>0, <1>5, <1>8, <2>1, <2>4, Order DEF InitConfig, InitSubsystem, InitSubsystemFails,
         RegisterMonitorFails, InitDone, Horizon, Exiting, During, AtMonitor
    <3>2. QED
      BY <2>2, <3>1
  <2>5. QED
    BY <2>3, <2>4
<1>9. CASE RegisterMonitor
  <2>1. /\ Horizon = step - 1 /\ Horizon' = step /\ step \in 6 .. LastMonitor
        /\ registered' \subseteq registered \cup {UpOrder[step]}
    BY <1>5, <1>9, Order DEF RegisterMonitor, Horizon, Exiting, During, AtMonitor
  <2>2. QED
    BY <1>3, <1>5, <2>1
<1>10. CASE RollbackMonitor \/ ExitMonitor
  <2>1. /\ step \in 6 .. LastMonitor
        /\ (phase = "rollback" \/ Exiting) /\ phase' = phase /\ printed' = printed
    BY <1>0, <1>10, Order DEF RollbackMonitor, ExitMonitor, AtMonitor, During, StepInPhase, Exiting
  <2>2. /\ Horizon = IF draining THEN step - 1 ELSE step
        /\ Horizon' = IF draining' THEN step' - 1 ELSE step'
    BY <2>1 DEF Horizon, Exiting
  <2>3. CASE UnregisterBegin(UpOrder[step]) /\ UNCHANGED step
    <3>1. registered' = registered \ {UpOrder[step]} /\ ~draining /\ draining'
      BY <2>3 DEF UnregisterBegin
    <3>2. Horizon = step /\ Horizon' = step - 1
      BY <2>2, <2>3, <3>1
    <3>3. QED
      BY <1>3, <1>5, <3>1, <3>2
  <2>4. CASE UnregisterEnd(UpOrder[step]) /\ step' = step - 1
    BY <1>3, <2>2, <2>4 DEF UnregisterEnd
  <2>5. CASE UnregisterSkip(UpOrder[step]) /\ step' = step - 1
    <3>1. enabled[UpOrder[step]]
      BY <1>0, <1>1, <2>1, Order DEF FlagsSet, Exiting
    <3>2. QED
      BY <2>5, <3>1 DEF UnregisterSkip
  <2>6. QED
    BY <1>10, <2>3, <2>4, <2>5 DEF RollbackMonitor, ExitMonitor
<1>11. CASE RollbackSubsystem \/ RollbackDone
  <2>1. registered' = registered /\ ~draining /\ phase = "rollback" /\ step <= 5
    BY <1>0, <1>11, Order DEF RollbackSubsystem, RollbackDone, During, StepInPhase, AtMonitor
  <2>2. Horizon <= 5
    BY <1>5, <2>1 DEF Horizon
  <2>3. registered = {}
    BY <1>3, <1>5, <2>2
  <2>4. QED
    BY <2>1, <2>3
<1>12. CASE ExitBegin \/ ExitSubsystem \/ ExitPrintStatistics
  <2>1. registered' = registered /\ ~draining /\ draining' = draining
    BY <1>0, <1>12, Order DEF ExitBegin, ExitSubsystem, ExitPrintStatistics, During, StepInPhase,
       Exiting, AtMonitor
  <2>2. Horizon = LastMonitor
    BY <1>0, <1>12, Order DEF TypeOK, ExitBegin, ExitSubsystem, ExitPrintStatistics, Horizon, During, Exiting,
       StepInPhase
  <2>3. Horizon' = LastMonitor
    BY <1>0, <1>12, <2>1, Order DEF TypeOK, ExitBegin, ExitSubsystem, ExitPrintStatistics, Horizon, During,
       Exiting, StepInPhase
  <2>4. QED
    BY <1>3, <2>1, <2>2, <2>3
<1>13. CASE ExitDone
  <2>1. registered' = registered /\ ~draining /\ step = 5 /\ Exiting
    BY <1>0, <1>13, Order DEF ExitDone, During, StepInPhase, Exiting, AtMonitor
  <2>2. Horizon = 5
    BY <2>1 DEF Horizon, Exiting
  <2>3. registered = {}
    BY <1>3, <2>2
  <2>4. QED
    BY <2>1, <2>3
<1>14. QED
  BY <1>7, <1>8, <1>9, <1>10, <1>11, <1>12, <1>13, NextSplit, Frames
     DEF MainStep, LoadStep, DownStep, vars

LEMMA UpAreSubsystemsStep == IInv /\ [Next]_vars => UpAreSubsystems'
<1> SUFFICES ASSUME IInv, [Next]_vars
             PROVE  UpAreSubsystems'
  OBVIOUS
<1>0. up \subseteq {UpOrder[i] : i \in 1 .. 5}
  BY Order DEF IInv, UpAreSubsystems
<1>1. up' \subseteq up \/ \E i \in 1 .. 5 : up' = up \cup {UpOrder[i]}
  <2>1. CASE LoadStep
    BY <2>1, Order DEF LoadStep, InitConfig, InitSubsystem, InitSubsystemFails, RegisterMonitor,
                RegisterMonitorFails, InitDone
  <2>2. CASE ExitBegin \/ DownStep
    BY <2>2 DEF ExitBegin, DownStep, RollbackMonitor, RollbackSubsystem, RollbackDone, ExitSubsystem,
                ExitPrintStatistics, ExitMonitor, ExitDone
  <2>3. CASE ProbeStep \/ SysfsStep \/ UNCHANGED vars
    BY <2>3, Frames DEF vars, loadVars
  <2>4. QED
    BY <2>1, <2>2, <2>3, NextSplit DEF MainStep
<1>2. QED
  BY <1>0, <1>1, Order DEF UpAreSubsystems

LEMMA UpInOrderStep == IInv /\ [Next]_vars => UpInOrder' /\ RollbackComplete'
<1> SUFFICES ASSUME IInv, [Next]_vars
             PROVE  UpInOrder' /\ RollbackComplete'
  OBVIOUS
<1>0. TypeOK /\ StepInPhase /\ UpAreSubsystems /\ UpInOrder /\ RollbackComplete
  BY DEF IInv
<1>1. CASE UNCHANGED loadVars
  BY <1>0, <1>1 DEF UpInOrder, RollbackComplete, loadVars
<1>2. CASE InitConfig \/ InitDone
  BY <1>0, <1>2, Order DEF TypeOK, UpInOrder, RollbackComplete, InitConfig, InitDone, During
<1>2a. CASE InitSubsystem
  <2>1. /\ phase = "load" /\ phase' = "load" /\ step \in 1 .. 5 /\ step' = step + 1
        /\ up' = up \cup {UpOrder[step]}
        /\ nl_sock' = IF UpOrder[step] = "notification" THEN "open" ELSE nl_sock
    BY <1>2a, Order DEF InitSubsystem, During
  <2>2. up' \subseteq {UpOrder[i] : i \in 1 .. step' - 1}
    BY <1>0, <2>1 DEF UpInOrder
  <2>3. nl_sock' = IF step' <= 1 THEN "null" ELSE "open"
    BY <1>0, <2>1, Order DEF UpInOrder
  <2>4. QED
    BY <2>1, <2>2, <2>3 DEF UpInOrder, RollbackComplete
<1>2b. CASE InitSubsystemFails
  <2>1. /\ phase = "load" /\ step \in 1 .. 5 /\ up' = up /\ nl_sock' = nl_sock
        /\ \/ UpOrder[step] = "self_protection" /\ phase' = "load" /\ step' = step + 1
           \/ UpOrder[step] # "self_protection" /\ phase' = "rollback" /\ step' = step - 1
    BY <1>2b, Order DEF InitSubsystemFails, During
  <2>2. up \subseteq {UpOrder[i] : i \in 1 .. step - 1} /\ nl_sock = IF step <= 1 THEN "null" ELSE "open"
    BY <1>0, <2>1 DEF UpInOrder
  <2>3. CASE phase' = "load"
    <3>1. step' - 1 = 5 /\ step = 5
      BY <2>1, <2>3, Order
    <3>2. up' \subseteq {UpOrder[i] : i \in 1 .. step' - 1}
      BY <2>1, <2>2, <3>1
    <3>3. QED
      BY <2>1, <2>2, <2>3, <3>1, <3>2 DEF UpInOrder, RollbackComplete
  <2>4. CASE phase' = "rollback"
    BY <2>1, <2>2, <2>4 DEF UpInOrder, RollbackComplete
  <2>5. QED
    BY <2>1, <2>3, <2>4
<1>2c. CASE RegisterMonitor
  <2>1. /\ phase = "load" /\ phase' = "load" /\ step \in 6 .. LastMonitor /\ step' = step + 1
        /\ up' = up /\ nl_sock' = nl_sock
    BY <1>2c, Order DEF RegisterMonitor, During, AtMonitor
  <2>2. up \subseteq {UpOrder[i] : i \in 1 .. step - 1} /\ nl_sock = "open"
    BY <1>0, <2>1, Order DEF UpInOrder
  <2>3. up' \subseteq {UpOrder[i] : i \in 1 .. step' - 1}
    BY <2>1, <2>2, Order
  <2>4. QED
    BY <2>1, <2>2, <2>3, Order DEF UpInOrder, RollbackComplete
<1>2d. CASE RegisterMonitorFails
  <2>1. /\ phase = "load" /\ step \in 6 .. LastMonitor /\ up' = up /\ nl_sock' = nl_sock
        /\ \/ failed_at' = Head(MonitorOrder) /\ phase' = "failed"
           \/ phase' = "rollback" /\ step' = step - 1
    BY <1>2d, Order DEF RegisterMonitorFails, During, AtMonitor
  <2>2. up \subseteq {UpOrder[i] : i \in 1 .. step - 1} /\ nl_sock = "open"
    BY <1>0, <2>1, Order DEF UpInOrder
  <2>3. QED
    BY <2>1, <2>2, Order DEF UpInOrder, RollbackComplete
<1>3. CASE RollbackMonitor
  <2>1. /\ phase = "rollback" /\ phase' = "rollback" /\ step \in 6 .. LastMonitor
        /\ step' \in {step - 1, step} /\ up' = up /\ nl_sock' = nl_sock
    BY <1>3, Order DEF RollbackMonitor, During, AtMonitor
  <2>2. up \subseteq {UpOrder[i] : i \in 1 .. 5} /\ nl_sock = "open"
    BY <1>0, <2>1, Order DEF UpInOrder, UpAreSubsystems
  <2>3. up' \subseteq {UpOrder[i] : i \in 1 .. step'}
    BY <2>1, <2>2, Order
  <2>4. QED
    BY <2>1, <2>2, <2>3, Order DEF UpInOrder, RollbackComplete
<1>4. CASE RollbackSubsystem
  BY <1>0, <1>4, Order DEF TypeOK, UpInOrder, RollbackComplete, RollbackSubsystem, During, AtMonitor,
       ReleaseSocket, ClearSocket
<1>5. CASE RollbackDone
  BY <1>0, <1>5, Order DEF TypeOK, UpInOrder, RollbackComplete, RollbackDone, During
<1>6. CASE ExitBegin \/ ExitSubsystem \/ ExitPrintStatistics \/ ExitMonitor \/ ExitDone
  BY <1>0, <1>6, Order DEF TypeOK, UpInOrder, RollbackComplete, ExitBegin, ExitSubsystem,
       ExitPrintStatistics, ExitMonitor, ExitDone, During
<1>7. QED
  BY <1>1, <1>2, <1>2a, <1>2b, <1>2c, <1>2d, <1>3, <1>4, <1>5, <1>6, NextSplit, Frames
     DEF MainStep, LoadStep, DownStep, vars

\* Once the text is freed no monitor is expected any more.
LEMMA NothingLeft ==
  StepInPhase /\ HandlersAccounted /\ RegisteredInOrder => NoProbeLeftBehind
<1> SUFFICES ASSUME StepInPhase, HandlersAccounted, RegisteredInOrder, TextFreed, ~toggled
             PROVE  registered = {} /\ \A c \in Cpus : han_pc[c] = "idle"
  BY DEF NoProbeLeftBehind
<1>1. Horizon = 0 /\ ~draining
  BY DEF TextFreed, Horizon, Exiting, StepInPhase
<1>2. registered = {}
  BY <1>1, Order DEF RegisteredInOrder, UpTo
<1>3. QED
  BY <1>1, <1>2 DEF HandlersAccounted

LEMMA NothingLeftStep == IInv /\ [Next]_vars => NoProbeLeftBehind'
<1>1. (StepInPhase /\ HandlersAccounted /\ RegisteredInOrder)' => NoProbeLeftBehind'
  BY NothingLeft, PTL
<1>2. QED
  BY <1>1, StepInPhaseStep, HandlersAccountedStep, RegisteredInOrderStep

\* A handler that is about to send finds the socket, but for exit.
LEMMA SocketForHandlers ==
  ASSUME IInv, ~toggled, phase # "exit", NEW c \in Cpus, han_pc[c] # "idle"
  PROVE  nl_sock = "open" /\ ~TextFreed
<1>0. /\ TypeOK /\ StepInPhase /\ HandlersAccounted /\ RegisteredInOrder /\ UpInOrder
      /\ NoProbeLeftBehind
  BY DEF IInv
<1>1. ~TextFreed
  BY <1>0 DEF NoProbeLeftBehind
<1>2. CASE han_mon[c] \in registered
  <2>1. PICK i \in 6 .. Horizon : TRUE
    BY <1>0, <1>2, Order DEF RegisteredInOrder, UpTo
  <2>2. Horizon \in Int /\ Horizon >= 6 /\ step \in Nat
    BY <1>0, <2>1, Order DEF TypeOK, Horizon
  <2>3. CASE phase \in {"load", "rollback"}
    <3>1. step >= 6
      BY <2>2, <2>3 DEF Horizon, Exiting
    <3>2. QED
      BY <1>0, <1>1, <2>2, <2>3, <3>1 DEF UpInOrder
  <2>4. CASE phase = "live"
    BY <1>0, <1>1, <2>4 DEF UpInOrder
  <2>5. QED
    BY <1>0, <1>1, <2>3, <2>4 DEF TypeOK, TextFreed
<1>3. CASE draining
  BY <1>0, <1>1, <1>3, Order DEF TypeOK, StepInPhase, Exiting, AtMonitor, UpInOrder
<1>4. QED
  BY <1>0, <1>2, <1>3 DEF HandlersAccounted

LEMMA OnlyExitStep == IInv /\ [Next]_vars => OnlyExitPullsTheSocket'
<1> SUFFICES ASSUME IInv, [Next]_vars, crash' # "none", ~toggled'
             PROVE  phase' = "exit" /\ crash' = "socket"
  BY DEF OnlyExitPullsTheSocket
<1>0. TypeOK /\ NoProbeLeftBehind /\ OnlyExitPullsTheSocket
  BY DEF IInv
<1>1. ~toggled
  BY NextSplit, Frames DEF SysfsStep, Toggle, vars, sysfs
<1>2. CASE MainStep
  BY <1>2, Frames DEF hanVars
<1>3. ASSUME NEW c \in Cpus, NEW m \in Monitors, HandlerEnter(c, m)
      PROVE  phase' = "exit" /\ crash' = "socket"
  BY <1>0, <1>1, <1>3 DEF HandlerEnter, NoProbeLeftBehind, Alive
<1>4. ASSUME NEW c \in Cpus, HandlerStep(c)
      PROVE  phase' = "exit" /\ crash' = "socket"
  <2>1. /\ han_pc[c] # "idle" /\ crash = "none" /\ phase' = phase
        /\ crash' = "text" => TextFreed
        /\ crash' = "socket" => nl_sock # "open"
        /\ crash' \in {"none", "text", "socket"}
    BY <1>4 DEF HandlerStep, HandlerTestSocket, HandlerSend, HandlerKillsQuietly, Alive, loadVars
  <2>2. ~TextFreed
    BY <1>0, <1>1, <2>1 DEF NoProbeLeftBehind
  <2>3. phase = "exit"
    BY <1>1, <2>1, <2>2, SocketForHandlers
  <2>4. QED
    BY <2>1, <2>2, <2>3
<1>5. CASE SysfsStep \/ UNCHANGED vars
  BY <1>0, <1>1, <1>5, Frames DEF OnlyExitPullsTheSocket, vars, loadVars, hanVars
<1>6. QED
  BY <1>2, <1>3, <1>4, <1>5, NextSplit DEF ProbeStep
-----------------------------------------------------------------------------
(***************************************************************************)
(* The theorems.                                                            *)
(***************************************************************************)
\* The strengthening that carries them is an invariant of the module's life.
THEOREM Invariance == Spec => []IInv
<1>1. IInv /\ [Next]_vars => IInv'
  BY TypeOKStep, StepInPhaseStep, HandlersAccountedStep, FlagsSetStep, RegisteredInOrderStep,
     UpAreSubsystemsStep, UpInOrderStep, NothingLeftStep, OnlyExitStep DEF IInv
<1>2. QED
  BY InitIInv, <1>1, PTL DEF Spec

\* With the flags left alone no probe and no handler is left in a module whose
\* text is freed, whatever failed and for every list of monitors
\* (main.c:150-178, 215-235).
THEOREM NoProbeStays == Spec => []NoProbeLeftBehind
<1>1. IInv => NoProbeLeftBehind
  BY DEF IInv
<1>2. QED
  BY Invariance, <1>1, PTL

\* A failed load leaves nothing but what has no cleanup label, unless it was
\* the first monitor that failed (main.c:92-97, 180-190).
THEOREM RollbackUndoes == Spec => []RollbackComplete
<1>1. IInv => RollbackComplete
  BY DEF IInv
<1>2. QED
  BY Invariance, <1>1, PTL

\* With the flags left alone the only use of freed memory is that of the
\* socket during exit (main.c:205-217, notification.c:48, 80).
THEOREM SocketOnlyInExit == Spec => []OnlyExitPullsTheSocket
<1>1. IInv => OnlyExitPullsTheSocket
  BY DEF IInv
<1>2. QED
  BY Invariance, <1>1, PTL
=============================================================================
