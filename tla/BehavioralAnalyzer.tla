------------------------- MODULE BehavioralAnalyzer -------------------------
(***************************************************************************)
(* src/src/plugins/behavioral_analyzer.c: the global model that handlers     *)
(* update without a lock, the profiles in a tree under tree_lock, and the    *)
(* periodic work.  PluginManager has the control calls in all their orders;  *)
(* here one caller takes the plugin through its life while events arrive.    *)
(*                                                                           *)
(* A feature's value is always 1, so the window is the set of its places     *)
(* that hold a one, and everything computed from it is an integer: the mean  *)
(* in units of 1 / WindowSize, the variance in units of its third power, the *)
(* deviation and the thresholds as their squares.  One feature stands for    *)
(* all: the models are independent and a profile has all of them at once.    *)
(***************************************************************************)
EXTENDS Integers, FiniteSets

CONSTANTS
  WindowSize,  \* window_size, 100
  Thresholds,  \* what anomaly_threshold is set to, squared
  Pids,
  Handlers,    \* callers of behavioral_handle_event
  Limits       \* what max_profiles is set to

Window == 0 .. WindowSize - 1
Free == "free"

ASSUME BehavioralAssumption ==
  /\ WindowSize \in Nat \ {0, 1} /\ Thresholds \subseteq Nat /\ Limits \subseteq Nat
  /\ Pids # {} /\ Free \notin Handlers

VARIABLES
  phase,          \* the plugin's life
  work,           \* analysis_work
  canceling,      \* cancel_delayed_work_sync has begun
  max_profiles, anomaly_threshold,
  initialized, ones, current_index,   \* the global model: its window
  mean, variance, std_dev,            \* and what was last computed from it
  tree_lock, process_tree, profiles_active,
  pc, pid,        \* handlers
  local, over,    \* a handler's number in use, and the thresholds its score exceeds
  disturbed       \* history: another handler wrote to the model meanwhile

lifeVars  == <<phase, work, canceling>>
confVars  == <<max_profiles, anomaly_threshold>>
modelVars == <<initialized, ones, current_index, mean, variance, std_dev>>
treeVars  == <<tree_lock, process_tree, profiles_active>>
hanVars   == <<pc, pid, local, over, disturbed>>
vars == <<lifeVars, confVars, modelVars, treeVars, hanVars>>

Init ==
  /\ phase = "absent" /\ work = "idle" /\ canceling = FALSE
  /\ max_profiles \in Limits /\ anomaly_threshold \in Thresholds
  /\ initialized = FALSE /\ ones = {} /\ current_index = 0
  /\ mean = 0 /\ variance = 0 /\ std_dev = 0
  /\ tree_lock = Free /\ process_tree = {} /\ profiles_active = 0
  /\ pc = [h \in Handlers |-> "idle"]
  /\ pid = [h \in Handlers |-> CHOOSE p \in Pids : TRUE]
  /\ local = [h \in Handlers |-> 0]
  /\ over = [h \in Handlers |-> {}]
  /\ disturbed = [h \in Handlers |-> FALSE]

-----------------------------------------------------------------------------
(***************************************************************************)
(* The life of the plugin.                                                  *)
(***************************************************************************)
LifeOnly == UNCHANGED <<confVars, modelVars, hanVars>>

\* A failed allocation frees the windows allocated before it: nothing is left.
BehavioralInit ==
  /\ phase = "absent" /\ phase' = "inited"
  /\ UNCHANGED <<work, canceling, treeVars>> /\ LifeOnly

BehavioralStart ==
  /\ phase = "inited" /\ phase' = "started"
  /\ work' = "timer"
  /\ UNCHANGED <<canceling, treeVars>> /\ LifeOnly

\* The other settings have no effect on what is modelled.
BehavioralConfigure ==
  /\ phase \in {"inited", "started", "stopped"}
  /\ \/ max_profiles' \in Limits /\ UNCHANGED anomaly_threshold
     \/ anomaly_threshold' \in Thresholds /\ UNCHANGED max_profiles
  /\ UNCHANGED <<lifeVars, modelVars, treeVars, hanVars>>

\* cancel_delayed_work_sync takes a timer back and waits for a worker.
CancelBegin(from, to) ==
  /\ phase \in from /\ phase' = to
  /\ canceling' = TRUE
  /\ work' = IF work = "timer" THEN "idle" ELSE work
  /\ UNCHANGED treeVars /\ LifeOnly

CancelEnd(from, to) ==
  /\ phase = from /\ work = "idle" /\ phase' = to
  /\ canceling' = FALSE
  /\ UNCHANGED <<work, treeVars>> /\ LifeOnly

\* Mutant: behavioral_stop does not wait (cancel_delayed_work).
BehavioralStopAtOnce ==
  /\ phase = "started" /\ phase' = "stopped"
  /\ work' = IF work = "timer" THEN "idle" ELSE work
  /\ UNCHANGED <<canceling, treeVars>> /\ LifeOnly

BehavioralStop == \/ CancelBegin({"started"}, "stopping")
                  \/ CancelEnd("stopping", "stopped")

BehavioralExit == \/ CancelBegin({"inited", "stopped"}, "canceling")
                  \/ CancelEnd("canceling", "exiting")

\* The walk that frees the profiles, under the lock, then the data.  It goes on
\* from each node it has freed, which is defined only for an empty tree.
BehavioralExitFree ==
  /\ phase = "exiting" /\ tree_lock = Free
  /\ phase' = "gone"
  /\ process_tree' = {} /\ profiles_active' = 0
  /\ UNCHANGED <<work, canceling, tree_lock>> /\ LifeOnly

-----------------------------------------------------------------------------
(***************************************************************************)
(* behavioral_analysis_worker.                                              *)
(***************************************************************************)
TimerExpires ==
  /\ work = "timer" /\ work' = "scan"
  /\ UNCHANGED <<phase, canceling, treeVars>> /\ LifeOnly

\* Profiles that are old go while there are more than max_profiles.
WorkerScan ==
  /\ work = "scan" /\ tree_lock = Free
  /\ \E old \in SUBSET process_tree :
       /\ Cardinality(old) <= profiles_active - max_profiles \/ old = {}
       /\ process_tree' = process_tree \ old
       /\ profiles_active' = profiles_active - Cardinality(old)
  /\ work' = "requeue"
  /\ UNCHANGED <<phase, canceling, tree_lock>> /\ LifeOnly

\* A work item that is being cancelled cannot be queued.
WorkerRequeue ==
  /\ work = "requeue"
  /\ work' = IF canceling THEN "idle" ELSE "timer"
  /\ UNCHANGED <<phase, canceling, treeVars>> /\ LifeOnly

-----------------------------------------------------------------------------
(***************************************************************************)
(* behavioral_handle_event, for an event that has a feature: first          *)
(* update_statistical_model and detect_anomaly on the global model, every   *)
(* field of which is read and written without a lock.                       *)
(***************************************************************************)
Goto(h, from, to) == pc[h] = from /\ pc' = [pc EXCEPT ![h] = to]
InModel == {"clear", "first", "store", "advance", "mean", "set_mean", "variance",
            "set_variance", "deviation", "set_deviation", "detect", "score", "compare"}

ModelStep(h, from, to) ==
  /\ phase # "gone" /\ Goto(h, from, to)
  /\ UNCHANGED <<lifeVars, confVars, treeVars, pid>>

Reads == UNCHANGED <<modelVars, disturbed>>
Writes(h) ==
  disturbed' = [g \in Handlers |-> disturbed[g] \/ (g # h /\ pc[g] \in InModel)]

HandleEvent(h, p) ==
  /\ phase = "started"
  /\ Goto(h, "idle", IF initialized THEN "store" ELSE "clear")
  /\ pid' = [pid EXCEPT ![h] = p]
  /\ UNCHANGED <<lifeVars, confVars, modelVars, treeVars, local, over, disturbed>>

ModelClear(h) ==
  /\ ModelStep(h, "clear", "first")
  /\ ones' = {}
  /\ Writes(h)
  /\ UNCHANGED <<initialized, current_index, mean, variance, std_dev, local, over>>

\* The mean of a first value is the value itself, whatever the window.
ModelFirst(h) ==
  /\ ModelStep(h, "first", "detect")
  /\ initialized' = TRUE /\ ones' = ones \cup {0} /\ current_index' = 1
  /\ mean' = WindowSize /\ variance' = 0 /\ std_dev' = 0
  /\ Writes(h)
  /\ UNCHANGED <<local, over>>

ModelStore(h) ==
  /\ ModelStep(h, "store", "advance")
  /\ ones' = ones \cup {current_index}
  /\ local' = [local EXCEPT ![h] = current_index]
  /\ Writes(h)
  /\ UNCHANGED <<initialized, current_index, mean, variance, std_dev, over>>

\* The index is read once for both lines or once more.
ModelAdvance(h) ==
  /\ ModelStep(h, "advance", "mean")
  /\ \E i \in {local[h], current_index} : current_index' = (i + 1) % WindowSize
  /\ local' = [local EXCEPT ![h] = 0]
  /\ Writes(h)
  /\ UNCHANGED <<initialized, ones, mean, variance, std_dev, over>>

ModelMean(h) ==
  /\ ModelStep(h, "mean", "set_mean")
  /\ local' = [local EXCEPT ![h] = Cardinality(ones)]
  /\ Reads /\ UNCHANGED over

\* Mutant: the mean is not stored any more.
ModelSetMeanNot(h) ==
  /\ ModelStep(h, "set_mean", "variance")
  /\ Writes(h)
  /\ UNCHANGED <<initialized, ones, current_index, mean, variance, std_dev, local, over>>

ModelSetMean(h) ==
  /\ ModelStep(h, "set_mean", "variance")
  /\ mean' = local[h]
  /\ Writes(h)
  /\ UNCHANGED <<initialized, ones, current_index, variance, std_dev, local, over>>

\* The squares of n ones' and of the zeros' distances from a mean of k.
Squares(n, k) ==
  n * ((WindowSize - k) * (WindowSize - k)) + (WindowSize - n) * (k * k)

\* The mean just stored is kept or read again, and so is the variance.
ModelVariance(h) ==
  /\ ModelStep(h, "variance", "set_variance")
  /\ \E k \in {local[h], mean} :
       local' = [local EXCEPT ![h] = Squares(Cardinality(ones), k)]
  /\ Reads /\ UNCHANGED over

ModelSetVariance(h) ==
  /\ ModelStep(h, "set_variance", "deviation")
  /\ variance' = local[h]
  /\ Writes(h)
  /\ UNCHANGED <<initialized, ones, current_index, mean, std_dev, local, over>>

ModelDeviation(h) ==
  /\ ModelStep(h, "deviation", "set_deviation")
  /\ \E v \in {local[h], variance} : local' = [local EXCEPT ![h] = v]
  /\ Reads /\ UNCHANGED over

ModelSetDeviation(h) ==
  /\ ModelStep(h, "set_deviation", "detect")
  /\ std_dev' = local[h]
  /\ local' = [local EXCEPT ![h] = 0]
  /\ Writes(h)
  /\ UNCHANGED <<initialized, ones, current_index, mean, variance, over>>

NotDisturbed(h) == disturbed' = [disturbed EXCEPT ![h] = FALSE]

\* Without a deviation the score is 0, which exceeds nothing.
NoDeviation(h) ==
  /\ ModelStep(h, "detect", "lock") /\ std_dev = 0
  /\ NotDisturbed(h)
  /\ UNCHANGED <<modelVars, local, over>>

DetectAnomaly(h) ==
  /\ ModelStep(h, "detect", "score") /\ std_dev # 0
  /\ local' = [local EXCEPT ![h] = std_dev]
  /\ Reads /\ UNCHANGED over

\* The deviation just tested, or read again; one that has become 0 makes the
\* score of any distance infinite.
ModelScore(h) ==
  /\ ModelStep(h, "score", "compare")
  /\ \E v \in {local[h], std_dev} :
       over' = [over EXCEPT ![h] =
         {t \in Thresholds : (WindowSize - mean) * (WindowSize - mean) * WindowSize > t * v}]
  /\ local' = [local EXCEPT ![h] = 0]
  /\ Reads

ModelCompare(h) ==
  /\ ModelStep(h, "compare", IF anomaly_threshold \in over[h] THEN "alarm" ELSE "lock")
  /\ over' = [over EXCEPT ![h] = {}]
  /\ NotDisturbed(h)
  /\ UNCHANGED <<modelVars, local>>

\* An event of the anomaly is published.
Alarm(h) ==
  /\ ModelStep(h, "alarm", "lock")
  /\ Reads /\ UNCHANGED <<local, over>>

-----------------------------------------------------------------------------
(***************************************************************************)
(* Then the profile of the event's process, under tree_lock.                *)
(***************************************************************************)
ProfileStep(h, from, to) ==
  /\ phase # "gone" /\ Goto(h, from, to)
  /\ UNCHANGED <<lifeVars, confVars, modelVars, pid, local, over, disturbed>>

ProfileLock(h) ==
  /\ ProfileStep(h, "lock", "find") /\ tree_lock = Free
  /\ tree_lock' = h
  /\ UNCHANGED <<process_tree, profiles_active>>

\* find_process_profile, or create_process_profile and insert_process_profile.
ProfileFind(h) ==
  /\ ProfileStep(h, "find", "update")
  /\ process_tree' = process_tree \cup {pid[h]}
  /\ profiles_active' = IF pid[h] \in process_tree THEN profiles_active ELSE profiles_active + 1
  /\ UNCHANGED tree_lock

\* Mutant: without a profile the handler returns at once.
ProfileNoMemoryReturns(h) ==
  /\ ProfileStep(h, "find", "idle") /\ pid[h] \notin process_tree
  /\ UNCHANGED treeVars

\* There is no memory for the profile.
ProfileNoMemory(h) ==
  /\ ProfileStep(h, "find", "unlock") /\ pid[h] \notin process_tree
  /\ UNCHANGED treeVars

\* The models of a profile were never given a window: values is NULL, and the
\* write through it kills the handler where it stands.
ProfileUpdate(h) ==
  /\ ProfileStep(h, "update", "dead")
  /\ UNCHANGED treeVars

ProfileUnlock(h) ==
  /\ ProfileStep(h, "unlock", "idle")
  /\ tree_lock' = Free
  /\ UNCHANGED <<process_tree, profiles_active>>

\* The plugin's data was freed under a handler.
HandlerOnFreedData(h) ==
  /\ phase = "gone" /\ pc[h] \notin {"idle", "dead"}
  /\ pc' = [pc EXCEPT ![h] = "dead"]
  /\ UNCHANGED <<lifeVars, confVars, modelVars, treeVars, pid, local, over, disturbed>>

Next ==
  \/ BehavioralInit \/ BehavioralStart \/ BehavioralStop
  \/ BehavioralExit \/ BehavioralExitFree \/ BehavioralConfigure
  \/ TimerExpires \/ WorkerScan \/ WorkerRequeue
  \/ \E h \in Handlers, p \in Pids : HandleEvent(h, p)
  \/ \E h \in Handlers :
       \/ ModelClear(h) \/ ModelFirst(h) \/ ModelStore(h) \/ ModelAdvance(h)
       \/ ModelMean(h) \/ ModelSetMean(h) \/ ModelVariance(h) \/ ModelSetVariance(h)
       \/ ModelDeviation(h) \/ ModelSetDeviation(h)
       \/ NoDeviation(h) \/ DetectAnomaly(h) \/ ModelScore(h) \/ ModelCompare(h) \/ Alarm(h)
       \/ ProfileLock(h) \/ ProfileFind(h) \/ ProfileNoMemory(h) \/ ProfileUpdate(h)
       \/ ProfileUnlock(h) \/ HandlerOnFreedData(h)

Spec == Init /\ [][Next]_vars

-----------------------------------------------------------------------------
(***************************************************************************)
(* Correctness.                                                             *)
(***************************************************************************)

\* The tree is entered by one handler at a time, which gives the lock back on
\* every way out, except that no handler survives the profile it finds or
\* makes: it dies in the update with the lock, the profile stays alone in the
\* tree, and no later event, worker or exit gets in.  So there is none of the
\* "Per-Process Profiling" of README.md:69, nor of what the comments "Create new
\* profile", "Update process-specific model" and "Periodic cleanup of old
\* profiles" announce (behavioral_analyzer.c:188, 376-382, 510-552, 591-605).
OnlyDeadKeepTheLock ==
  /\ \A h \in Handlers :
       /\ pc[h] \in {"find", "update", "unlock"} => tree_lock = h
       /\ tree_lock = h => pc[h] \in {"find", "update", "unlock", "dead"}
  /\ profiles_active = Cardinality(process_tree)
  /\ process_tree # {} =>
       \E h \in Handlers : /\ tree_lock = h /\ pc[h] \in {"update", "dead"}
                           /\ process_tree = {pid[h]}

\* Once behavioral_stop or the cancellation of behavioral_exit has returned,
\* the work, which queues itself, is at rest and stays so: it never runs into
\* freed data (behavioral_analyzer.c:371-372, 408-413, 612-614).
WorkOnlyWhileStarted ==
  phase \in {"absent", "inited", "stopped", "exiting", "gone"} => work = "idle"

\* The score of a one, sqrt(zeros / ones), is over the threshold.
Anomaly == WindowSize - Cardinality(ones) > anomaly_threshold * Cardinality(ones)

\* A handler beside which no other writes to the model raises an alarm if and
\* only if the window, as it is by then, scores over the threshold, as it is by
\* then; whatever stale or mixed mean and deviation earlier handlers that ran
\* into each other left behind.  Only a disturbed handler can raise a false or a
\* late alarm, or miss one (behavioral_analyzer.c:199-229, 485-490).
UndisturbedAlarm ==
  [][\A h \in Handlers :
       ~disturbed[h] /\ pc[h] \in {"detect", "compare"} /\ pc'[h] \in {"alarm", "lock"}
         => (pc'[h] = "alarm" <=> Anomaly /\ std_dev # 0)]_vars
=============================================================================
