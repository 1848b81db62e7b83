---------------------- MODULE BehavioralAnalyzer_proofs ----------------------
(***************************************************************************)
(* What holds of the behavioral analyzer for every window, every choice of   *)
(* thresholds and limits, every set of processes and set of handlers.       *)
(***************************************************************************)
EXTENDS BehavioralAnalyzer, FiniteSetTheorems, TLAPS

Phases == {"absent", "inited", "started", "stopping", "stopped", "canceling", "exiting", "gone"}
HandlerStates ==
  InModel \cup {"idle", "alarm", "lock", "find", "update", "unlock", "dead"}

ModelOK ==
  /\ initialized \in BOOLEAN /\ ones \subseteq Window /\ current_index \in Window
  /\ mean \in Nat /\ variance \in Nat /\ std_dev \in Nat

TypeOK ==
  /\ phase \in Phases
  /\ work \in {"idle", "timer", "scan", "requeue"}
  /\ canceling \in BOOLEAN
  /\ max_profiles \in Nat /\ anomaly_threshold \in Thresholds
  /\ ModelOK
  /\ tree_lock \in Handlers \cup {Free}
  /\ process_tree \subseteq Pids /\ profiles_active \in Nat
  /\ pc \in [Handlers -> HandlerStates]
  /\ pid \in [Handlers -> Pids]
  /\ local \in [Handlers -> Nat]
  /\ over \in [Handlers -> SUBSET Thresholds]
  /\ disturbed \in [Handlers -> BOOLEAN]

\* A handler only ever entered a plugin that was started, and the life of the
\* plugin does not come back to its beginning.
EnteredStarted == \A h \in Handlers : pc[h] # "idle" => phase # "absent"

\* Requeueing is refused exactly while one of the two cancellations waits.
CancelingInTime == canceling <=> phase \in {"stopping", "canceling"}

\* What a handler that is not disturbed has computed so far is computed from
\* the window that is there.
Ones == Cardinality(ones)
Computed(h) ==
  /\ pc[h] = "set_mean" => local[h] = Ones
  /\ pc[h] = "variance" => local[h] = Ones /\ mean = Ones
  /\ pc[h] = "set_variance" => local[h] = Squares(Ones, Ones) /\ mean = Ones
  /\ pc[h] = "deviation" =>
       local[h] = Squares(Ones, Ones) /\ variance = Squares(Ones, Ones) /\ mean = Ones
  /\ pc[h] = "set_deviation" => local[h] = Squares(Ones, Ones) /\ mean = Ones
  /\ pc[h] = "detect" => std_dev = 0 \/ (std_dev = Squares(Ones, Ones) /\ mean = Ones)
  /\ pc[h] = "score" =>
       local[h] = std_dev /\ std_dev # 0 /\ std_dev = Squares(Ones, Ones) /\ mean = Ones
  /\ pc[h] = "compare" =>
       std_dev # 0 /\ over[h] = {t \in Thresholds : WindowSize - Ones > t * Ones}

ComputedFromWindow == \A h \in Handlers : ~disturbed[h] => Computed(h)

IInv ==
  /\ TypeOK
  /\ EnteredStarted
  /\ CancelingInTime
  /\ OnlyDeadKeepTheLock
  /\ WorkOnlyWhileStarted
  /\ ComputedFromWindow

\* The actions of a handler: those on the model, of which some write to it and
\* some only read, and those on the profiles.
WriteStep(h) ==
  \/ ModelClear(h) \/ ModelFirst(h) \/ ModelStore(h) \/ ModelAdvance(h)
  \/ ModelSetMean(h) \/ ModelSetVariance(h) \/ ModelSetDeviation(h)

ReadStep(h) ==
  \/ ModelMean(h) \/ ModelVariance(h) \/ ModelDeviation(h)
  \/ NoDeviation(h) \/ DetectAnomaly(h) \/ ModelScore(h) \/ ModelCompare(h) \/ Alarm(h)

TreeStep(h) ==
  \/ ProfileLock(h) \/ ProfileFind(h) \/ ProfileNoMemory(h) \/ ProfileUpdate(h)
  \/ ProfileUnlock(h)

EnterStep(h) == \E p \in Pids : HandleEvent(h, p)

HandlerStep(h) ==
  EnterStep(h) \/ WriteStep(h) \/ ReadStep(h) \/ TreeStep(h) \/ HandlerOnFreedData(h)

LifeStep ==
  \/ BehavioralInit \/ BehavioralStart \/ BehavioralStop \/ BehavioralExit \/ BehavioralExitFree
  \/ BehavioralConfigure \/ TimerExpires \/ WorkerScan \/ WorkerRequeue

LEMMA NextSplit == Next <=> LifeStep \/ (\E h \in Handlers : HandlerStep(h))
BY DEF Next, LifeStep, HandlerStep, EnterStep, WriteStep, ReadStep, TreeStep

\* What the steps leave alone.
LEMMA ModelSteps ==
  ASSUME NEW h \in Handlers, WriteStep(h) \/ ReadStep(h)
  PROVE  /\ UNCHANGED <<lifeVars, confVars, treeVars, pid>>
         /\ phase # "gone" /\ pc[h] \in InModel \cup {"alarm"}
         /\ \E to \in InModel \cup {"alarm", "lock"} : pc' = [pc EXCEPT ![h] = to]
BY DEF WriteStep, ReadStep, ModelClear, ModelFirst, ModelStore, ModelAdvance, ModelSetMean,
       ModelSetVariance, ModelSetDeviation, ModelMean, ModelVariance, ModelDeviation, NoDeviation,
       DetectAnomaly, ModelScore, ModelCompare, Alarm, ModelStep, Goto, InModel

LEMMA LifeSteps ==
  ASSUME LifeStep
  PROVE  UNCHANGED <<modelVars, hanVars>>
BY DEF LifeStep, BehavioralInit, BehavioralStart, BehavioralStop, BehavioralExit, CancelBegin,
       CancelEnd, BehavioralExitFree, BehavioralConfigure, TimerExpires, WorkerScan, WorkerRequeue,
       LifeOnly

LEMMA TreeSteps ==
  ASSUME NEW h \in Handlers, TreeStep(h) \/ HandlerOnFreedData(h)
  PROVE  /\ UNCHANGED <<lifeVars, confVars, modelVars, pid, local, over, disturbed>>
         /\ pc[h] # "idle"
         /\ \E to \in {"idle", "find", "update", "unlock", "dead"} : pc' = [pc EXCEPT ![h] = to]
BY DEF TreeStep, ProfileLock, ProfileFind, ProfileNoMemory, ProfileUpdate, ProfileUnlock,
       ProfileStep, Goto, HandlerOnFreedData
-----------------------------------------------------------------------------
(***************************************************************************)
(* Arithmetic.                                                              *)
(***************************************************************************)
LEMMA OnesCount ==
  ASSUME ones \subseteq Window
  PROVE  Ones \in 0 .. WindowSize
<1>1. IsFiniteSet(Window) /\ Cardinality(Window) = WindowSize
  BY FS_Interval, BehavioralAssumption DEF Window
<1>2. IsFiniteSet(ones) /\ Cardinality(ones) <= WindowSize
  BY <1>1, FS_Subset
<1>3. QED
  BY <1>2, FS_CardinalityType, BehavioralAssumption DEF Ones

LEMMA SquaresIsNat ==
  ASSUME NEW n \in 0 .. WindowSize, NEW k \in Nat
  PROVE  Squares(n, k) \in Nat
<1> DEFINE a == WindowSize - k
           b == WindowSize - n
<1>1. a \in Int /\ b \in Nat
  BY BehavioralAssumption
<1> HIDE DEF a, b
<1>2. a * a \in Nat /\ k * k \in Nat
  BY <1>1
<1>3. n * (a * a) \in Nat /\ b * (k * k) \in Nat
  BY <1>1, <1>2, BehavioralAssumption
<1>4. QED
  BY <1>3 DEF Squares, a, b

LEMMA Cancels ==
  ASSUME NEW a \in Int, NEW b \in Int, NEW c \in Nat, c # 0
  PROVE  a * c > b * c <=> a > b
<1>1. ASSUME a > b PROVE a * c > b * c
  <2>1. PICK d \in Nat : a = b + d /\ d # 0
    BY <1>1
  <2>2. d * c \in Nat /\ d * c > 0
    BY <2>1
  <2>3. a * c = b * c + d * c
    BY <2>1
  <2>4. b * c \in Int
    OBVIOUS
  <2>5. QED
    BY <2>2, <2>3, <2>4
<1>2. ASSUME ~(a > b) PROVE ~(a * c > b * c)
  <2>1. PICK d \in Nat : b = a + d
    BY <1>2
  <2>2. d * c \in Nat
    BY <2>1
  <2>3. b * c = a * c + d * c
    BY <2>1
  <2>4. a * c \in Int
    OBVIOUS
  <2>5. QED
    BY <2>2, <2>3, <2>4
<1>3. QED
  BY <1>1, <1>2

\* With mean and deviation of one window, a one's distance over its deviation
\* is the root of zeros over ones.
LEMMA ScoreOfWindow ==
  ASSUME NEW n \in 0 .. WindowSize, NEW t \in Nat, Squares(n, n) # 0
  PROVE  (WindowSize - n) * (WindowSize - n) * WindowSize > t * Squares(n, n)
           <=> WindowSize - n > t * n
<1> DEFINE a == WindowSize - n
           c == a * WindowSize
<1>0. a \in Nat /\ n \in Nat /\ WindowSize \in Nat /\ a + n = WindowSize
  BY BehavioralAssumption
<1>1. Squares(n, n) = n * (a * a) + a * (n * n)
  BY DEF Squares
<1>2. n * (a * a) + a * (n * n) = n * (a * (a + n))
  <2> HIDE DEF a
  <2>1. QED
    BY <1>0
<1>3. Squares(n, n) = n * c
  BY <1>0, <1>1, <1>2
<1>4. c \in Nat
  <2> HIDE DEF a
  <2>1. QED
    BY <1>0
<1>5. c # 0
  <2> HIDE DEF c
  <2>1. QED
    BY <1>0, <1>3, <1>4
<1>6. (WindowSize - n) * (WindowSize - n) * WindowSize = a * c
  <2> DEFINE x == WindowSize - n
  <2>1. x = a /\ x \in Int
    BY <1>0
  <2> HIDE DEF x, a
  <2>2. (x * x) * WindowSize = a * (a * WindowSize)
    BY <1>0, <2>1
  <2>3. QED
    BY <2>2 DEF x
<1>7. t * Squares(n, n) = (t * n) * c
  <2> HIDE DEF c
  <2>1. QED
    BY <1>0, <1>3, <1>4
<1>8. t * n \in Int
  BY <1>0
<1> HIDE DEF a, c
<1>9. a * c > (t * n) * c <=> a > t * n
  BY <1>0, <1>4, <1>5, <1>8, Cancels
<1>10. QED
  BY <1>6, <1>7, <1>9 DEF a
-----------------------------------------------------------------------------
(***************************************************************************)
(* The invariant.                                                           *)
(***************************************************************************)
LEMMA InitIInv == Init => IInv
<1> SUFFICES ASSUME Init
             PROVE  IInv
  OBVIOUS
<1> DEFINE first == CHOOSE p \in Pids : TRUE
<1>1. first \in Pids /\ pid = [h \in Handlers |-> first]
  BY BehavioralAssumption DEF Init
<1> HIDE DEF first
<1>2. pid \in [Handlers -> Pids]
  BY <1>1
<1>3. 0 \in Window /\ max_profiles \in Nat /\ anomaly_threshold \in Thresholds
  BY BehavioralAssumption DEF Init, Window
<1>4. disturbed \in [Handlers -> BOOLEAN] /\ initialized \in BOOLEAN /\ canceling \in BOOLEAN
  BY DEF Init
<1>5. /\ pc \in [Handlers -> HandlerStates] /\ local \in [Handlers -> Nat]
      /\ over \in [Handlers -> SUBSET Thresholds]
  BY DEF Init, HandlerStates
<1>6. TypeOK
  BY <1>2, <1>3, <1>4, <1>5 DEF Init, TypeOK, ModelOK, Phases
<1>7. Cardinality({}) = 0
  BY FS_EmptySet
<1>8. EnteredStarted /\ CancelingInTime /\ WorkOnlyWhileStarted
  BY DEF Init, EnteredStarted, CancelingInTime, WorkOnlyWhileStarted
<1>9. OnlyDeadKeepTheLock
  BY <1>7, BehavioralAssumption DEF Init, OnlyDeadKeepTheLock
<1>10. ComputedFromWindow
  BY DEF Init, ComputedFromWindow, Computed
<1>11. QED
  BY <1>6, <1>8, <1>9, <1>10 DEF IInv

\* Whoever can take the lock finds the tree empty.
LEMMA FreeIsEmpty ==
  ASSUME IInv, tree_lock = Free
  PROVE  process_tree = {} /\ profiles_active = 0
BY FS_EmptySet, BehavioralAssumption DEF IInv, OnlyDeadKeepTheLock

\* So the worker's scan changes nothing.
LEMMA ScanIsIdle ==
  ASSUME IInv, WorkerScan
  PROVE  process_tree' = process_tree /\ profiles_active' = profiles_active
<1>1. process_tree = {} /\ profiles_active = 0
  BY FreeIsEmpty DEF WorkerScan
<1>2. Cardinality({}) = 0
  BY FS_EmptySet
<1>3. QED
  BY <1>1, <1>2 DEF WorkerScan

LEMMA ModelOKStep ==
  ASSUME TypeOK, NEW h \in Handlers, WriteStep(h)
  PROVE  ModelOK'
<1> USE DEF TypeOK, ModelOK
<1>0. 0 \in Window /\ 1 \in Window /\ WindowSize \in Nat \ {0}
  BY BehavioralAssumption DEF Window
<1>1. CASE ModelClear(h)
  BY <1>1 DEF ModelClear
<1>2. CASE ModelFirst(h)
  BY <1>0, <1>2 DEF ModelFirst
<1>3. CASE ModelStore(h)
  BY <1>3 DEF ModelStore
<1>4. CASE ModelAdvance(h)
  <2>1. PICK i \in {local[h], current_index} : current_index' = (i + 1) % WindowSize
    BY <1>4 DEF ModelAdvance
  <2>2. i + 1 \in Nat
    BY <2>1 DEF Window
  <2>3. current_index' \in Window
    BY <1>0, <2>1, <2>2 DEF Window
  <2>4. QED
    BY <1>4, <2>3 DEF ModelAdvance
<1>5. CASE ModelSetMean(h) \/ ModelSetVariance(h) \/ ModelSetDeviation(h)
  BY <1>5 DEF ModelSetMean, ModelSetVariance, ModelSetDeviation
<1>6. QED
  BY <1>1, <1>2, <1>3, <1>4, <1>5 DEF WriteStep

LEMMA LocalStep ==
  ASSUME TypeOK, NEW h \in Handlers, WriteStep(h) \/ ReadStep(h)
  PROVE  /\ local' \in [Handlers -> Nat] /\ over' \in [Handlers -> SUBSET Thresholds]
         /\ disturbed' \in [Handlers -> BOOLEAN]
<1> USE DEF TypeOK, ModelOK
<1>0. Ones \in 0 .. WindowSize /\ Ones \in Nat /\ current_index \in Nat
  BY OnesCount, BehavioralAssumption DEF Window
<1>1. CASE ModelVariance(h)
  <2>1. PICK k \in {local[h], mean} : local' = [local EXCEPT ![h] = Squares(Ones, k)]
    BY <1>1 DEF ModelVariance, Ones
  <2>2. Squares(Ones, k) \in Nat
    BY <1>0, <2>1, SquaresIsNat
  <2>3. QED
    BY <1>1, <2>1, <2>2 DEF ModelVariance, Reads
<1>2. CASE ModelMean(h) \/ ModelDeviation(h) \/ DetectAnomaly(h) \/ ModelScore(h) \/ Alarm(h)
  BY <1>0, <1>2 DEF ModelMean, ModelDeviation, DetectAnomaly, ModelScore, Alarm, Reads, Ones
<1>3. CASE NoDeviation(h) \/ ModelCompare(h)
  BY <1>3 DEF NoDeviation, ModelCompare, NotDisturbed
<1>4. CASE WriteStep(h)
  <2>1. disturbed' \in [Handlers -> BOOLEAN]
    BY <1>4 DEF WriteStep, ModelClear, ModelFirst, ModelStore, ModelAdvance, ModelSetMean,
                ModelSetVariance, ModelSetDeviation, Writes
  <2>2. local' \in [Handlers -> Nat] /\ over' = over
    BY <1>0, <1>4 DEF WriteStep, ModelClear, ModelFirst, ModelStore, ModelAdvance, ModelSetMean,
                ModelSetVariance, ModelSetDeviation
  <2>3. QED
    BY <2>1, <2>2
<1>5. QED
  BY <1>1, <1>2, <1>3, <1>4 DEF ReadStep

LEMMA TypeOKStep == IInv /\ [Next]_vars => TypeOK'
<1> SUFFICES ASSUME IInv, [Next]_vars
             PROVE  TypeOK'
  OBVIOUS
<1>0. TypeOK
  BY DEF IInv
<1>1. ASSUME LifeStep
      PROVE  TypeOK'
  <2> USE <1>0 DEF TypeOK, ModelOK, Phases
  <2>0. UNCHANGED <<modelVars, hanVars>>
    BY <1>1, LifeSteps
  <2>1. CASE WorkerScan
    BY <2>0, <2>1, ScanIsIdle DEF WorkerScan, LifeOnly, confVars, modelVars, hanVars
  <2>2. CASE BehavioralExitFree
    BY <2>0, <2>2 DEF BehavioralExitFree, LifeOnly, confVars, modelVars, hanVars
  <2>3. CASE BehavioralConfigure
    BY <2>0, <2>3, BehavioralAssumption
       DEF BehavioralConfigure, lifeVars, treeVars, modelVars, hanVars
  <2>4. CASE BehavioralInit \/ BehavioralStart \/ BehavioralStop \/ BehavioralExit
               \/ TimerExpires \/ WorkerRequeue
    BY <2>0, <2>4 DEF BehavioralInit, BehavioralStart, BehavioralStop, BehavioralExit, CancelBegin,
                CancelEnd, TimerExpires, WorkerRequeue, LifeOnly, confVars, treeVars, modelVars,
                hanVars
  <2>5. QED
    BY <1>1, <2>1, <2>2, <2>3, <2>4 DEF LifeStep
<1>2. ASSUME NEW h \in Handlers, WriteStep(h) \/ ReadStep(h)
      PROVE  TypeOK'
  <2>1. UNCHANGED <<lifeVars, confVars, treeVars, pid>> /\ pc' \in [Handlers -> HandlerStates]
    BY <1>0, <1>2, ModelSteps DEF TypeOK, HandlerStates
  <2>2. ModelOK'
    <3>1. CASE WriteStep(h)
      BY <1>0, <3>1, ModelOKStep
    <3>2. CASE ReadStep(h)
      BY <1>0, <3>2 DEF TypeOK, ModelOK, ReadStep, ModelMean, ModelVariance, ModelDeviation,
         NoDeviation, DetectAnomaly, ModelScore, ModelCompare, Alarm, Reads, modelVars
    <3>3. QED
      BY <1>2, <3>1, <3>2
  <2>3. /\ local' \in [Handlers -> Nat] /\ over' \in [Handlers -> SUBSET Thresholds]
        /\ disturbed' \in [Handlers -> BOOLEAN]
    BY <1>0, <1>2, LocalStep
  <2>4. QED
    BY <1>0, <2>1, <2>2, <2>3 DEF TypeOK, lifeVars, confVars, treeVars
<1>3. ASSUME NEW h \in Handlers, TreeStep(h) \/ HandlerOnFreedData(h)
      PROVE  TypeOK'
  <2>1. /\ UNCHANGED <<lifeVars, confVars, modelVars, pid, local, over, disturbed>>
        /\ pc' \in [Handlers -> HandlerStates]
    BY <1>0, <1>3, TreeSteps DEF TypeOK, HandlerStates
  <2>2. /\ tree_lock' \in Handlers \cup {Free} /\ process_tree' \subseteq Pids
        /\ profiles_active' \in Nat
    BY <1>0, <1>3 DEF TypeOK, TreeStep, ProfileLock, ProfileFind, ProfileNoMemory, ProfileUpdate,
       ProfileUnlock, HandlerOnFreedData, treeVars
  <2>3. QED
    BY <1>0, <2>1, <2>2 DEF TypeOK, ModelOK, lifeVars, confVars, modelVars
<1>4. ASSUME NEW h \in Handlers, EnterStep(h)
      PROVE  TypeOK'
  <2>1. pc' \in [Handlers -> HandlerStates] /\ pid' \in [Handlers -> Pids]
    BY <1>0, <1>4 DEF TypeOK, EnterStep, HandleEvent, Goto, HandlerStates, InModel
  <2>2. UNCHANGED <<lifeVars, confVars, modelVars, treeVars, local, over, disturbed>>
    BY <1>4 DEF EnterStep, HandleEvent
  <2>3. QED
    BY <1>0, <2>1, <2>2 DEF TypeOK, ModelOK, lifeVars, confVars, modelVars, treeVars
<1>5. ASSUME UNCHANGED vars
      PROVE  TypeOK'
  BY <1>0, <1>5 DEF TypeOK, ModelOK, vars, lifeVars, confVars, modelVars, treeVars, hanVars
<1>6. QED
  BY <1>1, <1>2, <1>3, <1>4, <1>5, NextSplit DEF HandlerStep

LEMMA LifeOrderStep == IInv /\ [Next]_vars => (EnteredStarted /\ CancelingInTime)'
<1> SUFFICES ASSUME IInv, [Next]_vars
             PROVE  (EnteredStarted /\ CancelingInTime)'
  OBVIOUS
<1>0. TypeOK /\ EnteredStarted /\ CancelingInTime
  BY DEF IInv
<1> USE <1>0 DEF EnteredStarted, CancelingInTime
<1>1. ASSUME LifeStep
      PROVE  (EnteredStarted /\ CancelingInTime)'
  <2>1. pc' = pc
    BY <1>1, LifeSteps DEF hanVars
  <2>2. QED
    BY <1>1, <2>1 DEF LifeStep, BehavioralInit, BehavioralStart, BehavioralStop, BehavioralExit,
              CancelBegin, CancelEnd, BehavioralExitFree, BehavioralConfigure, TimerExpires,
              WorkerScan, WorkerRequeue, lifeVars
<1>2. ASSUME NEW h \in Handlers, HandlerStep(h)
      PROVE  (EnteredStarted /\ CancelingInTime)'
  <2>1. phase' = phase /\ canceling' = canceling
    BY <1>2, ModelSteps, TreeSteps DEF HandlerStep, EnterStep, HandleEvent, lifeVars
  <2>2. phase # "absent"
    <3>1. CASE EnterStep(h)
      BY <3>1 DEF EnterStep, HandleEvent
    <3>2. CASE ~EnterStep(h)
      BY <1>2, <3>2, ModelSteps, TreeSteps DEF HandlerStep, InModel
    <3>3. QED
      BY <3>1, <3>2
  <2>3. QED
    BY <2>1, <2>2
<1>3. CASE UNCHANGED vars
  BY <1>3 DEF vars, lifeVars, hanVars
<1>4. QED
  BY <1>1, <1>2, <1>3, NextSplit

\* Inside the tree there is the holder of the lock; the first profile stays with
\* the handler that found no other.
LEMMA OnlyDeadKeepTheLockStep == IInv /\ [Next]_vars => OnlyDeadKeepTheLock'
<1> SUFFICES ASSUME IInv, [Next]_vars
             PROVE  OnlyDeadKeepTheLock'
  OBVIOUS
<1>0. TypeOK /\ OnlyDeadKeepTheLock /\ Free \notin Handlers
  BY BehavioralAssumption DEF IInv
<1>1. ASSUME LifeStep
      PROVE  OnlyDeadKeepTheLock'
  <2>0. pc' = pc /\ pid' = pid
    BY <1>1, LifeSteps DEF hanVars
  <2>1. CASE WorkerScan
    BY <1>0, <2>0, <2>1, ScanIsIdle DEF OnlyDeadKeepTheLock, WorkerScan
  <2>2. CASE BehavioralExitFree
    BY <1>0, <2>0, <2>2, FS_EmptySet DEF OnlyDeadKeepTheLock, BehavioralExitFree
  <2>3. CASE \/ BehavioralInit \/ BehavioralStart \/ BehavioralStop \/ BehavioralExit
             \/ BehavioralConfigure \/ TimerExpires \/ WorkerRequeue
    <3>1. UNCHANGED treeVars
      BY <2>3 DEF BehavioralInit, BehavioralStart, BehavioralStop, BehavioralExit, CancelBegin,
                  CancelEnd, BehavioralConfigure, TimerExpires, WorkerRequeue
    <3>2. QED
      BY <1>0, <2>0, <3>1 DEF OnlyDeadKeepTheLock, treeVars
  <2>4. QED
    BY <1>1, <2>1, <2>2, <2>3 DEF LifeStep
<1>2. ASSUME NEW h \in Handlers, EnterStep(h) \/ WriteStep(h) \/ ReadStep(h)
      PROVE  OnlyDeadKeepTheLock'
  <2>1. UNCHANGED treeVars /\ \A g \in Handlers \ {h} : pc'[g] = pc[g] /\ pid'[g] = pid[g]
    BY <1>0, <1>2, ModelSteps DEF TypeOK, EnterStep, HandleEvent, Goto
  <2>2. pc[h] \notin {"find", "update", "unlock", "dead"}
    BY <1>2, ModelSteps DEF EnterStep, HandleEvent, Goto, InModel
  <2>3. pc'[h] \notin {"find", "update", "unlock", "dead"}
    BY <1>0, <1>2, ModelSteps DEF TypeOK, EnterStep, HandleEvent, Goto, InModel
  <2>4. tree_lock # h
    BY <1>0, <2>2 DEF OnlyDeadKeepTheLock
  <2>5. QED
    BY <1>0, <2>1, <2>3, <2>4 DEF OnlyDeadKeepTheLock, treeVars
<1>3. ASSUME NEW h \in Handlers, TreeStep(h) \/ HandlerOnFreedData(h)
      PROVE  OnlyDeadKeepTheLock'
  <2>0. pid' = pid /\ \A g \in Handlers \ {h} : pc'[g] = pc[g]
    BY <1>0, <1>3, TreeSteps DEF TypeOK
  <2>1. CASE ProfileLock(h)
    <3>1. process_tree = {} /\ tree_lock = Free
      BY <2>1, FreeIsEmpty DEF ProfileLock
    <3>2. tree_lock' = h /\ process_tree' = process_tree /\ profiles_active' = profiles_active
      BY <2>1 DEF ProfileLock
    <3>3. pc'[h] = "find"
      BY <1>0, <2>1 DEF ProfileLock, ProfileStep, Goto, TypeOK
    <3>4. QED
      BY <1>0, <2>0, <3>1, <3>2, <3>3 DEF OnlyDeadKeepTheLock
  <2>2. CASE ProfileFind(h)
    <3>1. tree_lock = h /\ process_tree = {}
      BY <1>0, <2>2 DEF ProfileFind, ProfileStep, Goto, OnlyDeadKeepTheLock
    <3>2. process_tree' = {pid[h]} /\ profiles_active' = 1 /\ tree_lock' = h
      BY <1>0, <2>2, <3>1, FS_EmptySet DEF ProfileFind, OnlyDeadKeepTheLock
    <3>3. pc'[h] = "update" /\ Cardinality({pid[h]}) = 1
      BY <1>0, <2>2, FS_Singleton DEF ProfileFind, ProfileStep, Goto, TypeOK
    <3>4. QED
      BY <1>0, <2>0, <3>1, <3>2, <3>3 DEF OnlyDeadKeepTheLock
  <2>3. CASE ProfileNoMemory(h) \/ ProfileUpdate(h)
    <3>1. /\ UNCHANGED treeVars /\ pc[h] \in {"find", "update"}
          /\ pc'[h] = IF pc[h] = "find" THEN "unlock" ELSE "dead"
      BY <1>0, <2>3 DEF ProfileNoMemory, ProfileUpdate, ProfileStep, Goto, TypeOK
    <3>2. QED
      BY <1>0, <2>0, <3>1 DEF OnlyDeadKeepTheLock, treeVars
  <2>4. CASE ProfileUnlock(h)
    <3>1. tree_lock = h /\ process_tree = {}
      BY <1>0, <2>4 DEF ProfileUnlock, ProfileStep, Goto, OnlyDeadKeepTheLock
    <3>2. /\ tree_lock' = Free /\ process_tree' = process_tree
          /\ profiles_active' = profiles_active /\ pc'[h] = "idle"
      BY <1>0, <2>4 DEF ProfileUnlock, ProfileStep, Goto, TypeOK
    <3>3. QED
      BY <1>0, <2>0, <3>1, <3>2 DEF OnlyDeadKeepTheLock
  <2>5. CASE HandlerOnFreedData(h)
    <3>1. UNCHANGED treeVars /\ pc'[h] = "dead" /\ pc[h] # "dead"
      BY <1>0, <2>5 DEF HandlerOnFreedData, TypeOK
    <3>2. QED
      BY <1>0, <2>0, <3>1 DEF OnlyDeadKeepTheLock, treeVars
  <2>6. QED
    BY <1>3, <2>1, <2>2, <2>3, <2>4, <2>5 DEF TreeStep
<1>4. CASE UNCHANGED vars
  BY <1>0, <1>4 DEF vars, treeVars, hanVars, OnlyDeadKeepTheLock
<1>5. QED
  BY <1>1, <1>2, <1>3, <1>4, NextSplit DEF HandlerStep

\* The timer runs in "started" only; a worker that comes back during a
\* cancellation is not queued again, and the phase waits for it.
LEMMA WorkOnlyWhileStartedStep == IInv /\ [Next]_vars => WorkOnlyWhileStarted'
<1> SUFFICES ASSUME IInv, [Next]_vars
             PROVE  WorkOnlyWhileStarted'
  OBVIOUS
<1>0. TypeOK /\ CancelingInTime /\ WorkOnlyWhileStarted
  BY DEF IInv
<1> USE <1>0 DEF CancelingInTime, WorkOnlyWhileStarted, TypeOK, Phases
<1>1. ASSUME LifeStep
      PROVE  WorkOnlyWhileStarted'
  BY <1>1 DEF LifeStep, BehavioralInit, BehavioralStart, BehavioralStop, BehavioralExit,
              CancelBegin, CancelEnd, BehavioralExitFree, BehavioralConfigure, TimerExpires,
              WorkerScan, WorkerRequeue, lifeVars
<1>2. ASSUME NEW h \in Handlers, HandlerStep(h)
      PROVE  WorkOnlyWhileStarted'
  <2>1. UNCHANGED lifeVars
    BY <1>2, ModelSteps, TreeSteps DEF HandlerStep, EnterStep, HandleEvent
  <2>2. QED
    BY <2>1 DEF lifeVars
<1>3. CASE UNCHANGED vars
  BY <1>3 DEF vars, lifeVars
<1>4. QED
  BY <1>1, <1>2, <1>3, NextSplit

\* A handler's own step goes on from the window it found.
LEMMA ComputedByStep ==
  ASSUME TypeOK, NEW h \in Handlers, ~disturbed[h], Computed(h), WriteStep(h) \/ ReadStep(h)
  PROVE  Computed(h)'
<1> USE DEF ModelStep, Goto, TypeOK
<1>0. Ones \in 0 .. WindowSize
  BY OnesCount DEF ModelOK
<1>1. CASE ModelClear(h) \/ ModelStore(h) \/ ModelAdvance(h)
  BY <1>1 DEF ModelClear, ModelStore, ModelAdvance, Computed
<1>2. CASE ModelFirst(h)
  BY <1>2 DEF ModelFirst, Computed
<1>3. CASE ModelMean(h)
  BY <1>3 DEF ModelMean, Reads, modelVars, Computed, Ones
<1>4. CASE ModelSetMean(h)
  <2>1. ones' = ones /\ local' = local /\ mean' = local[h] /\ pc'[h] = "variance" /\ pc[h] = "set_mean"
    BY <1>4 DEF ModelSetMean
  <2>2. QED
    BY <2>1 DEF Computed, Ones
<1>5. CASE ModelVariance(h)
  <2>1. /\ ones' = ones /\ mean' = mean /\ pc'[h] = "set_variance" /\ pc[h] = "variance"
        /\ \E k \in {local[h], mean} : local'[h] = Squares(Ones, k)
    BY <1>5 DEF ModelVariance, Reads, modelVars, Ones
  <2>2. QED
    BY <2>1 DEF Computed, Ones
<1>6. CASE ModelSetVariance(h)
  <2>1. /\ ones' = ones /\ mean' = mean /\ local' = local /\ variance' = local[h]
        /\ pc'[h] = "deviation" /\ pc[h] = "set_variance"
    BY <1>6 DEF ModelSetVariance
  <2>2. QED
    BY <2>1 DEF Computed, Ones
<1>7. CASE ModelDeviation(h)
  <2>1. /\ ones' = ones /\ mean' = mean /\ pc'[h] = "set_deviation" /\ pc[h] = "deviation"
        /\ \E v \in {local[h], variance} : local'[h] = v
    BY <1>7 DEF ModelDeviation, Reads, modelVars
  <2>2. QED
    BY <2>1 DEF Computed, Ones
<1>8. CASE ModelSetDeviation(h)
  <2>1. /\ ones' = ones /\ mean' = mean /\ std_dev' = local[h]
        /\ pc'[h] = "detect" /\ pc[h] = "set_deviation"
    BY <1>8 DEF ModelSetDeviation
  <2>2. QED
    BY <2>1 DEF Computed, Ones
<1>9. CASE NoDeviation(h) \/ ModelCompare(h) \/ Alarm(h)
  BY <1>9 DEF NoDeviation, ModelCompare, Alarm, Computed
<1>10. CASE DetectAnomaly(h)
  <2>1. /\ ones' = ones /\ mean' = mean /\ std_dev' = std_dev /\ std_dev # 0 /\ local'[h] = std_dev
        /\ pc'[h] = "score" /\ pc[h] = "detect"
    BY <1>10 DEF DetectAnomaly, Reads, modelVars
  <2>2. QED
    BY <2>1 DEF Computed, Ones
<1>11. CASE ModelScore(h)
  <2>1. std_dev = Squares(Ones, Ones) /\ std_dev # 0 /\ mean = Ones /\ local[h] = std_dev
    BY <1>11 DEF ModelScore, Computed
  <2>2. over'[h] = {t \in Thresholds :
          (WindowSize - mean) * (WindowSize - mean) * WindowSize > t * std_dev}
    BY <1>11, <2>1 DEF ModelScore
  <2>3. \A t \in Thresholds :
          (WindowSize - Ones) * (WindowSize - Ones) * WindowSize > t * Squares(Ones, Ones)
            <=> WindowSize - Ones > t * Ones
    BY <1>0, <2>1, ScoreOfWindow, BehavioralAssumption
  <2>4. over'[h] = {t \in Thresholds : WindowSize - Ones > t * Ones}
    BY <2>1, <2>2, <2>3
  <2>5. ones' = ones /\ std_dev' = std_dev /\ pc'[h] = "compare"
    BY <1>11 DEF ModelScore, Reads, modelVars
  <2>6. QED
    BY <2>1, <2>4, <2>5 DEF Computed, Ones
<1>12. QED
  BY <1>1, <1>2, <1>3, <1>4, <1>5, <1>6, <1>7, <1>8, <1>9, <1>10, <1>11 DEF WriteStep, ReadStep

LEMMA ComputedFromWindowStep == IInv /\ [Next]_vars => ComputedFromWindow'
<1> SUFFICES ASSUME IInv, [Next]_vars, NEW g \in Handlers, ~disturbed'[g]
             PROVE  Computed(g)'
  BY DEF ComputedFromWindow
<1>0. TypeOK /\ (~disturbed[g] => Computed(g))
  BY DEF IInv, ComputedFromWindow
<1>1. ASSUME ~disturbed[g], UNCHANGED modelVars,
             UNCHANGED <<pc[g], local[g], over[g]>>
      PROVE  Computed(g)'
  BY <1>0, <1>1 DEF Computed, Ones, modelVars
<1>2. CASE pc'[g] \notin InModel
  BY <1>2 DEF Computed, InModel
<1>3. CASE LifeStep \/ UNCHANGED vars
  BY <1>1, <1>3, LifeSteps DEF vars, hanVars
<1>4. ASSUME NEW h \in Handlers, EnterStep(h)
      PROVE  Computed(g)'
  <2>1. CASE g = h
    <3>1. pc'[g] \in {"store", "clear"}
      BY <1>0, <1>4, <2>1 DEF EnterStep, HandleEvent, Goto, TypeOK
    <3>2. QED
      BY <3>1 DEF Computed
  <2>2. CASE g # h
    BY <1>0, <1>1, <1>4, <2>2 DEF EnterStep, HandleEvent, Goto, TypeOK
  <2>3. QED
    BY <2>1, <2>2
<1>5. ASSUME NEW h \in Handlers, TreeStep(h) \/ HandlerOnFreedData(h)
      PROVE  Computed(g)'
  <2>1. CASE g = h
    <3>1. pc'[g] \notin InModel
      BY <1>0, <1>5, <2>1, TreeSteps DEF TypeOK, InModel
    <3>2. QED
      BY <1>2, <3>1
  <2>2. CASE g # h
    BY <1>0, <1>1, <1>5, <2>2, TreeSteps DEF TypeOK
  <2>3. QED
    BY <2>1, <2>2
<1>6. ASSUME NEW h \in Handlers, WriteStep(h) \/ ReadStep(h), g # h
      PROVE  Computed(g)'
  <2>1. UNCHANGED <<pc[g], local[g], over[g]>>
    BY <1>0, <1>6 DEF TypeOK, WriteStep, ReadStep, ModelClear, ModelFirst, ModelStore, ModelAdvance,
       ModelSetMean, ModelSetVariance, ModelSetDeviation, ModelMean, ModelVariance, ModelDeviation,
       NoDeviation, DetectAnomaly, ModelScore, ModelCompare, Alarm, ModelStep, Goto
  <2>2. CASE WriteStep(h)
    <3>1. Writes(h)
      BY <2>2 DEF WriteStep, ModelClear, ModelFirst, ModelStore, ModelAdvance, ModelSetMean,
         ModelSetVariance, ModelSetDeviation
    <3>2. pc[g] \notin InModel
      BY <1>6, <3>1 DEF Writes
    <3>3. QED
      BY <1>2, <2>1, <3>2
  <2>3. CASE ReadStep(h)
    <3>1. UNCHANGED modelVars /\ disturbed'[g] = disturbed[g]
      BY <1>0, <1>6, <2>3 DEF TypeOK, ReadStep, ModelMean, ModelVariance, ModelDeviation,
         NoDeviation, DetectAnomaly, ModelScore, ModelCompare, Alarm, Reads, NotDisturbed
    <3>2. QED
      BY <1>1, <2>1, <3>1
  <2>4. QED
    BY <1>6, <2>2, <2>3
<1>7. CASE WriteStep(g) \/ ReadStep(g)
  <2>1. CASE disturbed[g]
    <3>1. NoDeviation(g) \/ ModelCompare(g)
      BY <1>0, <1>7, <2>1 DEF TypeOK, WriteStep, ReadStep, ModelClear, ModelFirst, ModelStore,
         ModelAdvance, ModelSetMean, ModelSetVariance, ModelSetDeviation, ModelMean, ModelVariance,
         ModelDeviation, DetectAnomaly, ModelScore, Alarm, Reads, Writes
    <3>2. pc'[g] \in {"alarm", "lock"}
      BY <1>0, <3>1 DEF TypeOK, NoDeviation, ModelCompare, ModelStep, Goto
    <3>3. QED
      BY <3>2 DEF Computed
  <2>2. CASE ~disturbed[g]
    BY <1>0, <1>7, <2>2, ComputedByStep
  <2>3. QED
    BY <2>1, <2>2
<1>8. QED
  BY <1>3, <1>4, <1>5, <1>6, <1>7, NextSplit DEF HandlerStep
-----------------------------------------------------------------------------
(***************************************************************************)
(* The theorems.                                                            *)
(***************************************************************************)

\* The invariant is inductive.
THEOREM Invariance == Spec => []IInv
<1>1. IInv /\ [Next]_vars => IInv'
  BY TypeOKStep, LifeOrderStep, OnlyDeadKeepTheLockStep, WorkOnlyWhileStartedStep,
     ComputedFromWindowStep DEF IInv
<1>2. QED
  BY InitIInv, <1>1, PTL DEF Spec

\* With any number of handlers and processes, tree_lock is given back by every
\* handler but the one that dies in a profile, which is then alone in the tree
\* (behavioral_analyzer.c:188, 376-382, 510-552, 591-605).
THEOREM DeadKeepsTheLock == Spec => []OnlyDeadKeepTheLock
<1>1. IInv => OnlyDeadKeepTheLock
  BY DEF IInv
<1>2. QED
  BY Invariance, <1>1, PTL

\* The periodic work is at rest before the plugin is started, from the return
\* of behavioral_stop on, and when behavioral_exit frees the data
\* (behavioral_analyzer.c:371-372, 408-413, 612-614).
THEOREM WorkCanceled == Spec => []WorkOnlyWhileStarted
<1>1. IInv => WorkOnlyWhileStarted
  BY DEF IInv
<1>2. QED
  BY Invariance, <1>1, PTL

\* A handler beside which no other writes to the model alarms exactly when the
\* window scores over the threshold in force, for every size of the window and
\* whatever the others left in the model (behavioral_analyzer.c:199-229, 485-490).
THEOREM AlarmByWindow == Spec => UndisturbedAlarm
<1>1. ASSUME IInv, [Next]_vars, NEW h \in Handlers, ~disturbed[h],
             pc[h] \in {"detect", "compare"}, pc'[h] \in {"alarm", "lock"}
      PROVE  pc'[h] = "alarm" <=> Anomaly /\ std_dev # 0
  <2>0. TypeOK /\ Computed(h)
    BY <1>1 DEF IInv, ComputedFromWindow
  <2>1. NoDeviation(h) \/ ModelCompare(h)
    <3>1. CASE UNCHANGED pc
      BY <1>1, <3>1
    <3>2. ASSUME NEW g \in Handlers, g # h, HandlerStep(g)
          PROVE  pc'[h] = pc[h]
      BY <2>0, <3>2, ModelSteps, TreeSteps DEF TypeOK, HandlerStep, EnterStep, HandleEvent, Goto
    <3>3. CASE EnterStep(h) \/ TreeStep(h) \/ HandlerOnFreedData(h)
      BY <1>1, <2>0, <3>3, TreeSteps DEF TypeOK, EnterStep, HandleEvent, Goto
    <3>4. CASE WriteStep(h) \/ ReadStep(h)
      BY <1>1, <2>0, <3>4 DEF TypeOK, WriteStep, ReadStep, ModelClear, ModelFirst, ModelStore,
         ModelAdvance, ModelSetMean, ModelSetVariance, ModelSetDeviation, ModelMean, ModelVariance,
         ModelDeviation, DetectAnomaly, ModelScore, Alarm, ModelStep, Goto
    <3>5. CASE LifeStep \/ UNCHANGED vars
      <4>1. UNCHANGED pc
        BY <3>5, LifeSteps DEF vars, hanVars
      <4>2. QED
        BY <3>1, <4>1
    <3>6. QED
      BY <1>1, <3>2, <3>3, <3>4, <3>5, NextSplit DEF HandlerStep
  <2>2. CASE NoDeviation(h)
    BY <2>0, <2>2 DEF NoDeviation, ModelStep, Goto, TypeOK
  <2>3. CASE ModelCompare(h)
    <3>1. std_dev # 0 /\ over[h] = {t \in Thresholds : WindowSize - Ones > t * Ones}
      BY <2>0, <2>3 DEF ModelCompare, ModelStep, Goto, Computed
    <3>2. pc'[h] = "alarm" <=> anomaly_threshold \in over[h]
      BY <2>0, <2>3 DEF ModelCompare, ModelStep, Goto, TypeOK
    <3>3. anomaly_threshold \in over[h] <=> Anomaly
      BY <2>0, <3>1 DEF Anomaly, Ones, TypeOK
    <3>4. QED
      BY <3>1, <3>2, <3>3
  <2>4. QED
    BY <2>1, <2>2, <2>3
<1>2. IInv /\ [Next]_vars =>
        [\A h \in Handlers :
           ~disturbed[h] /\ pc[h] \in {"detect", "compare"} /\ pc'[h] \in {"alarm", "lock"}
             => (pc'[h] = "alarm" <=> Anomaly /\ std_dev # 0)]_vars
  BY <1>1
<1>3. QED
  BY Invariance, <1>2, PTL DEF Spec, UndisturbedAlarm
=============================================================================
