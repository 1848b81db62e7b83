-------------------------- MODULE EventSystem_proofs --------------------------
(***************************************************************************)
(* What holds of the event system for every QueueSize, MaxBatch, set of     *)
(* publishers and set of flushers.                                          *)
(***************************************************************************)
EXTENDS EventSystem, SequenceTheorems, FiniteSetTheorems, TLAPS

\* The slots between head and tail.
IsPending(i) == IF queue_head <= queue_tail
                THEN queue_head <= i /\ i < queue_tail
                ELSE queue_head <= i \/ i < queue_tail

\* A pending slot has been written: no consumer ever copies the initial
\* content of the array.
PendingSlotsFilled == \A i \in Slot : IsPending(i) => event_queue[i] \in Event

\* A publisher or consumer past its first step holds an event.
HeldEventsReal ==
  /\ \A p \in Publishers : pub_pc[p] = "enqueue" => pub_event[p] \in Event
  /\ \A c \in Consumers : con_pc[c] = "dispatch" => con_event[c] \in Event

\* exit_event_system takes its steps in order, and past destroy_workqueue the
\* worker is idle with nothing queued for it.
ExitOrder ==
  /\ running <=> exit_pc = "none"
  /\ dispatcher = "no_workqueue" <=> exit_pc = "free"
  /\ dispatcher = "freed" <=> exit_pc = "done"
  /\ dispatcher # "live" => work # "queued" /\ con_pc[Worker] = "idle"

\* Inside the loop there is room for one more event in the batch.
BatchBound ==
  \A c \in Consumers : con_pc[c] \in {"dequeue", "dispatch", "load", "store"}
                        => con_batch[c] < MaxBatch

IInv ==
  /\ TypeOK
  /\ CountIsPendingPlusDropped
  /\ PendingSlotsFilled
  /\ HeldEventsReal
  /\ BatchBound
  /\ ExitOrder
  /\ NoLostWakeup
-----------------------------------------------------------------------------
(***************************************************************************)
(* The index arithmetic of the ring.                                        *)
(***************************************************************************)
\* The successor of a slot without the modulus (events.c:139).
LEMMA SuccLemma ==
  ASSUME NEW i \in Slot
  PROVE  /\ Succ(i) \in Slot
         /\ Succ(i) = IF i = QueueSize - 1 THEN 0 ELSE i + 1
<1>1. CASE i = QueueSize - 1
  <2>1. (i + 1) % QueueSize = 0
    BY <1>1, QueueSizeAssumption
  <2>2. QED
    BY <1>1, <2>1, QueueSizeAssumption DEF Succ, Slot
<1>2. CASE i # QueueSize - 1
  <2>1. i + 1 \in 0 .. QueueSize - 1
    BY <1>2, QueueSizeAssumption DEF Slot
  <2>2. (i + 1) % QueueSize = i + 1
    BY <2>1, QueueSizeAssumption
  <2>3. QED
    BY <1>2, <2>1, <2>2, QueueSizeAssumption DEF Succ, Slot
<1>3. QED
  BY <1>1, <1>2

\* The ring never holds more than QueueSize - 1 events.
LEMMA NumPendingBound ==
  ASSUME RingTypeOK
  PROVE  /\ NumPending \in 0 .. QueueSize - 1
         /\ NumPending = 0 <=> Empty
         /\ NumPending = QueueSize - 1 <=> Full
<1>1. queue_head \in Slot /\ queue_tail \in Slot
  BY DEF RingTypeOK
<1>2. Succ(queue_tail) = IF queue_tail = QueueSize - 1 THEN 0 ELSE queue_tail + 1
  BY <1>1, SuccLemma
<1>3. QED
  BY <1>1, <1>2, QueueSizeAssumption DEF NumPending, Empty, Full, Slot

\* A publisher adds one pending event, or replaces the oldest one.
LEMMA PutLemma ==
  ASSUME RingTypeOK, NEW e \in Event, Put(e)
  PROVE  /\ RingTypeOK'
         /\ NumPending' = IF Full THEN NumPending ELSE NumPending + 1
         /\ dropped_events' = IF Full THEN dropped_events + 1 ELSE dropped_events
<1>1. queue_head \in Slot /\ queue_tail \in Slot
  BY DEF RingTypeOK
<1>2. /\ Succ(queue_tail) \in Slot
      /\ Succ(queue_tail) = IF queue_tail = QueueSize - 1 THEN 0 ELSE queue_tail + 1
  BY <1>1, SuccLemma
<1>3. /\ Succ(queue_head) \in Slot
      /\ Succ(queue_head) = IF queue_head = QueueSize - 1 THEN 0 ELSE queue_head + 1
  BY <1>1, SuccLemma
<1>4. RingTypeOK'
  BY <1>1, <1>2, <1>3 DEF RingTypeOK, Put, Full
<1>5. NumPending' = IF Full THEN NumPending ELSE NumPending + 1
  BY <1>1, <1>2, <1>3, QueueSizeAssumption DEF NumPending, Full, Put, Slot
<1>6. QED
  BY <1>4, <1>5 DEF Put

\* A consumer removes one pending event.
LEMMA TakeLemma ==
  ASSUME RingTypeOK, Take
  PROVE  /\ RingTypeOK'
         /\ event_queue[queue_head] \in Event \cup {NoEvent}
         /\ NumPending' = NumPending - 1
<1>1. queue_head \in Slot /\ queue_tail \in Slot
  BY DEF RingTypeOK
<1>2. /\ Succ(queue_head) \in Slot
      /\ Succ(queue_head) = IF queue_head = QueueSize - 1 THEN 0 ELSE queue_head + 1
  BY <1>1, SuccLemma
<1>3. RingTypeOK'
  BY <1>1, <1>2 DEF RingTypeOK, Take
<1>4. NumPending' = NumPending - 1
  BY <1>1, <1>2, QueueSizeAssumption DEF NumPending, Empty, Take, Slot
<1>5. QED
  BY <1>1, <1>3, <1>4 DEF RingTypeOK

\* The write of publish_event fills the slot it makes pending.
LEMMA PutFills ==
  ASSUME RingTypeOK, PendingSlotsFilled, NEW e \in Event, Put(e)
  PROVE  PendingSlotsFilled'
<1>1. queue_head \in Slot /\ queue_tail \in Slot
  BY DEF RingTypeOK
<1>2. /\ Succ(queue_tail) = IF queue_tail = QueueSize - 1 THEN 0 ELSE queue_tail + 1
      /\ Succ(queue_head) = IF queue_head = QueueSize - 1 THEN 0 ELSE queue_head + 1
  BY <1>1, SuccLemma
<1>3. ASSUME NEW i \in Slot, IsPending(i)'
      PROVE  event_queue'[i] \in Event
  <2>1. CASE i = queue_tail
    BY <1>1, <2>1 DEF Put, RingTypeOK
  <2>2. CASE i # queue_tail
    <3>1. IsPending(i)
      BY <1>1, <1>2, <1>3, <2>2, QueueSizeAssumption DEF IsPending, Put, Full, Slot
    <3>2. event_queue'[i] = event_queue[i]
      BY <2>2 DEF Put, RingTypeOK
    <3>3. QED
      BY <3>1, <3>2 DEF PendingSlotsFilled
  <2>3. QED
    BY <2>1, <2>2
<1>4. QED
  BY <1>3 DEF PendingSlotsFilled

\* A dequeue copies an event and leaves the others pending.
LEMMA TakeFills ==
  ASSUME RingTypeOK, PendingSlotsFilled, Take
  PROVE  PendingSlotsFilled' /\ event_queue[queue_head] \in Event
<1>1. queue_head \in Slot /\ queue_tail \in Slot
  BY DEF RingTypeOK
<1>2. Succ(queue_head) = IF queue_head = QueueSize - 1 THEN 0 ELSE queue_head + 1
  BY <1>1, SuccLemma
<1>3. IsPending(queue_head)
  BY <1>1, QueueSizeAssumption DEF IsPending, Take, Empty, Slot
<1>4. ASSUME NEW i \in Slot, IsPending(i)'
      PROVE  IsPending(i)
  BY <1>1, <1>2, <1>4, QueueSizeAssumption DEF IsPending, Take, Empty, Slot
<1>5. QED
  BY <1>1, <1>3, <1>4 DEF PendingSlotsFilled, Take

LEMMA RingUnchanged ==
  ASSUME UNCHANGED ringVars
  PROVE  /\ RingTypeOK => RingTypeOK'
         /\ NumPending' = NumPending
         /\ CountIsPendingPlusDropped => CountIsPendingPlusDropped'
         /\ PendingSlotsFilled => PendingSlotsFilled'
BY DEF ringVars, RingTypeOK, NumPending, CountIsPendingPlusDropped,
       PendingSlotsFilled, IsPending

LEMMA InitIInv == Init => IInv
<1> SUFFICES ASSUME Init
             PROVE  IInv
  OBVIOUS
<1>1. RingTypeOK
  BY QueueSizeAssumption DEF Init, RingInit, RingTypeOK, Slot
<1>2. TypeOK
  BY <1>1, EventSystemAssumption DEF Init, RingInit, TypeOK, WorkStates, PubStates, ConStates, ExitStates, Consumers
<1>3. NumPending = 0
  BY DEF Init, RingInit, NumPending
<1>4. CountIsPendingPlusDropped /\ NoLostWakeup
  BY <1>3 DEF Init, RingInit, CountIsPendingPlusDropped, NoLostWakeup
<1>5. PendingSlotsFilled
  BY QueueSizeAssumption DEF Init, RingInit, PendingSlotsFilled, IsPending, Slot
<1>6. HeldEventsReal /\ BatchBound /\ ExitOrder
  BY DEF Init, HeldEventsReal, BatchBound, ExitOrder, Consumers
<1>7. QED
  BY <1>2, <1>4, <1>5, <1>6 DEF IInv
-----------------------------------------------------------------------------
(***************************************************************************)
(* Each action preserves the invariant: first the conjuncts that say only   *)
(* that the state is well formed, action by action, then the two that       *)
(* relate the queue to what is scheduled.                                   *)
(***************************************************************************)
LEMMA TypeOKStep == IInv /\ [Next]_vars => TypeOK'
<1> SUFFICES ASSUME IInv, [Next]_vars
             PROVE  TypeOK'
  OBVIOUS
<1> USE DEF IInv, WorkStates, PubStates, ConStates, ExitStates
<1>0. RingTypeOK /\ PendingSlotsFilled /\ Worker \in Consumers /\ Flushers \subseteq Consumers
  BY DEF TypeOK, Consumers
<1>1. ASSUME NEW p \in Publishers, NEW delayed \in BOOLEAN, PublishBegin(p, delayed)
      PROVE  TypeOK'
  BY <1>1, RingUnchanged DEF PublishBegin, PubAt, TypeOK, conVars, exitVars, Event
<1>2. ASSUME NEW p \in Publishers, PublishEnqueue(p)
      PROVE  TypeOK'
  <2>1. RingTypeOK'
    BY <1>0, <1>2, PutLemma DEF PublishEnqueue, PubAt, HeldEventsReal
  <2>2. QED
    BY <1>2, <2>1 DEF PublishEnqueue, PubAt, TypeOK, conVars, exitVars
<1>3. ASSUME NEW p \in Publishers, PublishCheckRunning(p)
      PROVE  TypeOK'
  BY <1>3, RingUnchanged
     DEF PublishCheckRunning, PubAt, Return, TypeOK, conVars, exitVars
<1>4. ASSUME NEW p \in Publishers, PublishArm(p)
      PROVE  TypeOK'
  BY <1>4, RingUnchanged
     DEF PublishArm, PubAt, Return, QueueDelayedWork, TypeOK, conVars, exitVars
<1>5. ASSUME NEW f \in Flushers, FlushBegin(f)
      PROVE  TypeOK'
  BY <1>5, <1>0, RingUnchanged, EventSystemAssumption
     DEF FlushBegin, ConAt, TypeOK, pubVars, exitVars
<1>6. ASSUME NEW c \in Consumers, CheckCount(c)
      PROVE  TypeOK'
  BY <1>6, RingUnchanged DEF CheckCount, ConAt, TypeOK, pubVars, exitVars
<1>7. ASSUME NEW c \in Consumers, DequeueNothing(c)
      PROVE  TypeOK'
  BY <1>7, RingUnchanged DEF DequeueNothing, ConAt, TypeOK, pubVars, exitVars
<1>8. ASSUME NEW c \in Consumers, Dequeue(c)
      PROVE  TypeOK'
  <2>1. RingTypeOK' /\ event_queue[queue_head] \in Event
    BY <1>0, <1>8, TakeLemma, TakeFills DEF Dequeue
  <2>2. QED
    BY <1>8, <2>1 DEF Dequeue, ConAt, TypeOK, pubVars, exitVars
<1>9. ASSUME NEW c \in Consumers, Dispatch(c)
      PROVE  TypeOK'
  <2>1. con_event[c] \in Event
    BY <1>9 DEF Dispatch, ConAt, HeldEventsReal
  <2>2. delivered' \in [Consumers -> Seq(Event)]
    BY <1>9, <2>1 DEF Dispatch, TypeOK
  <2>3. QED
    BY <1>9, <2>2, RingUnchanged DEF Dispatch, ConAt, TypeOK, pubVars, exitVars
<1>10. ASSUME NEW c \in Consumers, LoadProcessed(c)
       PROVE  TypeOK'
  BY <1>10, RingUnchanged DEF LoadProcessed, ConAt, TypeOK, pubVars, exitVars
<1>11. ASSUME NEW c \in Consumers, StoreProcessed(c)
       PROVE  TypeOK'
  BY <1>11, RingUnchanged, EventSystemAssumption
     DEF StoreProcessed, ConAt, TypeOK, BatchBound, pubVars, exitVars
<1>12. ASSUME NEW c \in Consumers, CheckMore(c) \/ CheckRunning(c)
       PROVE  TypeOK'
  <2>1. CASE CheckMore(c)
    BY <2>1, RingUnchanged, EventSystemAssumption
       DEF CheckMore, ConAt, TypeOK, pubVars, exitVars
  <2>2. CASE CheckRunning(c)
    BY <2>2, RingUnchanged DEF CheckRunning, ConAt, TypeOK, pubVars, exitVars
  <2>3. QED
    BY <1>12, <2>1, <2>2
<1>13. ASSUME NEW c \in Consumers, Resched(c)
       PROVE  TypeOK'
  BY <1>13, RingUnchanged
     DEF Resched, ConAt, QueueDelayedWork, TypeOK, pubVars, exitVars
<1>14. ASSUME TimerExpires
       PROVE  TypeOK'
  BY <1>14, RingUnchanged DEF TimerExpires, TypeOK, pubVars, conVars, exitVars
<1>15. ASSUME WorkerStart
       PROVE  TypeOK'
  BY <1>15, <1>0, RingUnchanged, EventSystemAssumption
     DEF WorkerStart, ConAt, TypeOK, pubVars, exitVars
<1>16. ASSUME ExitStop \/ ExitStep
       PROVE  TypeOK'
  BY <1>16, RingUnchanged
     DEF ExitStop, ExitStep, ExitCancel, ExitFlush, ExitDestroy, ExitFree,
         ExitAt, TypeOK, pubVars, conVars
<1>17. ASSUME UNCHANGED vars
       PROVE  TypeOK'
  BY <1>17, RingUnchanged DEF vars, TypeOK, pubVars, conVars, exitVars
<1>18. QED
  BY <1>1, <1>2, <1>3, <1>4, <1>5, <1>6, <1>7, <1>8, <1>9, <1>10, <1>11, <1>12,
     <1>13, <1>14, <1>15, <1>16, <1>17
     DEF Next, PublishStep, ConsumeStep

\* Only a publisher's and a consumer's critical section touch the ring.
LEMMA RingSteps ==
  ASSUME [Next]_vars
  PROVE  \/ \E p \in Publishers : PublishEnqueue(p)
         \/ \E c \in Consumers : Dequeue(c)
         \/ UNCHANGED ringVars
<1>1. ASSUME NEW c \in Consumers, ConsumeStep(c), ~Dequeue(c)
      PROVE  UNCHANGED ringVars
  BY <1>1 DEF ConsumeStep, CheckCount, DequeueNothing, Dispatch, LoadProcessed,
              StoreProcessed, CheckMore, CheckRunning, Resched
<1>2. ASSUME NEW p \in Publishers, PublishCheckRunning(p) \/ PublishArm(p)
      PROVE  UNCHANGED ringVars
  BY <1>2 DEF PublishCheckRunning, PublishArm
<1>3. ASSUME TimerExpires \/ WorkerStart \/ ExitStop \/ ExitStep \/ UNCHANGED vars
      PROVE  UNCHANGED ringVars
  BY <1>3 DEF TimerExpires, WorkerStart, ExitStop, ExitStep, ExitCancel,
              ExitFlush, ExitDestroy, ExitFree, vars
<1>4. ASSUME NEW p \in Publishers, NEW delayed \in BOOLEAN,
             PublishBegin(p, delayed)
      PROVE  UNCHANGED ringVars
  BY <1>4 DEF PublishBegin
<1>5. ASSUME NEW f \in Flushers, FlushBegin(f)
      PROVE  UNCHANGED ringVars
  BY <1>5 DEF FlushBegin
<1>6. QED
  BY <1>1, <1>2, <1>3, <1>4, <1>5 DEF Next, PublishStep

\* queue_count follows the ring except for the events given up, and no slot
\* becomes pending unwritten, in every interleaving of publishers and
\* consumers.
LEMMA RingInvStep ==
  IInv /\ [Next]_vars => CountIsPendingPlusDropped' /\ PendingSlotsFilled'
<1> SUFFICES ASSUME IInv, [Next]_vars
             PROVE  CountIsPendingPlusDropped' /\ PendingSlotsFilled'
  OBVIOUS
<1>1. RingTypeOK /\ PendingSlotsFilled /\ CountIsPendingPlusDropped
  BY DEF IInv, TypeOK
<1>2. NumPending \in Nat /\ queue_count \in Int /\ dropped_events \in Nat
  BY <1>1, NumPendingBound, QueueSizeAssumption DEF RingTypeOK
<1>3. ASSUME NEW p \in Publishers, PublishEnqueue(p)
      PROVE  CountIsPendingPlusDropped' /\ PendingSlotsFilled'
  <2>1. pub_event[p] \in Event /\ Put(pub_event[p])
    BY <1>3 DEF PublishEnqueue, PubAt, IInv, HeldEventsReal
  <2>2. queue_count' = queue_count + 1
    BY <2>1 DEF Put
  <2>3. CountIsPendingPlusDropped'
    BY <1>1, <1>2, <2>1, <2>2, PutLemma DEF CountIsPendingPlusDropped
  <2>4. QED
    BY <1>1, <2>1, <2>3, PutFills
<1>4. ASSUME NEW c \in Consumers, Dequeue(c)
      PROVE  CountIsPendingPlusDropped' /\ PendingSlotsFilled'
  <2>1. Take
    BY <1>4 DEF Dequeue
  <2>2. queue_count' = queue_count - 1 /\ dropped_events' = dropped_events
    BY <2>1 DEF Take
  <2>3. CountIsPendingPlusDropped'
    BY <1>1, <1>2, <2>1, <2>2, TakeLemma DEF CountIsPendingPlusDropped
  <2>4. QED
    BY <1>1, <2>1, <2>3, TakeFills
<1>5. ASSUME UNCHANGED ringVars
      PROVE  CountIsPendingPlusDropped' /\ PendingSlotsFilled'
  BY <1>1, <1>5, RingUnchanged
<1>6. QED
  BY <1>3, <1>4, <1>5, RingSteps

\* What publishers and consumers hold between their steps.
LEMMA HeldStep == IInv /\ [Next]_vars => HeldEventsReal' /\ BatchBound'
<1> SUFFICES ASSUME IInv, [Next]_vars
             PROVE  HeldEventsReal' /\ BatchBound'
  OBVIOUS
<1> USE DEF IInv, TypeOK, HeldEventsReal, BatchBound
<1>0. Worker \in Consumers /\ Flushers \subseteq Consumers
  BY DEF Consumers
<1>1. ASSUME NEW p \in Publishers, NEW delayed \in BOOLEAN, PublishBegin(p, delayed)
      PROVE  HeldEventsReal' /\ BatchBound'
  BY <1>1 DEF PublishBegin, PubAt, conVars, Event
<1>2. ASSUME NEW p \in Publishers, PublishStep(p)
      PROVE  HeldEventsReal' /\ BatchBound'
  BY <1>2 DEF PublishStep, PublishEnqueue, PublishCheckRunning, PublishArm,
              PubAt, Return, conVars
<1>3. ASSUME NEW f \in Flushers, FlushBegin(f)
      PROVE  HeldEventsReal' /\ BatchBound'
  BY <1>0, <1>3 DEF FlushBegin, ConAt, pubVars
<1>4. ASSUME NEW c \in Consumers, Dequeue(c)
      PROVE  HeldEventsReal' /\ BatchBound'
  <2>1. event_queue[queue_head] \in Event
    BY <1>4, TakeFills DEF Dequeue
  <2>2. QED
    BY <1>4, <2>1 DEF Dequeue, ConAt, pubVars
<1>5. ASSUME NEW c \in Consumers, CheckCount(c) \/ DequeueNothing(c) \/ Dispatch(c)
      PROVE  HeldEventsReal' /\ BatchBound'
  BY <1>5 DEF CheckCount, DequeueNothing, Dispatch, ConAt, pubVars
<1>6. ASSUME NEW c \in Consumers,
             \/ LoadProcessed(c) \/ StoreProcessed(c)
             \/ CheckMore(c) \/ CheckRunning(c) \/ Resched(c)
      PROVE  HeldEventsReal' /\ BatchBound'
  BY <1>6 DEF LoadProcessed, StoreProcessed, CheckMore, CheckRunning, Resched, ConAt, pubVars
<1>7. ASSUME WorkerStart
      PROVE  HeldEventsReal' /\ BatchBound'
  BY <1>0, <1>7 DEF WorkerStart, ConAt, pubVars
<1>8. ASSUME TimerExpires \/ ExitStop \/ ExitStep \/ UNCHANGED vars
      PROVE  HeldEventsReal' /\ BatchBound'
  BY <1>8 DEF TimerExpires, ExitStop, ExitStep, ExitCancel, ExitFlush,
              ExitDestroy, ExitFree, vars, pubVars, conVars
<1>9. QED
  BY <1>1, <1>2, <1>3, <1>4, <1>5, <1>6, <1>7, <1>8 DEF Next, ConsumeStep

\* Nothing is queued on, and nothing runs in, a destroyed workqueue.
LEMMA ExitOrderStep == IInv /\ [Next]_vars => ExitOrder'
<1> SUFFICES ASSUME IInv, [Next]_vars
             PROVE  ExitOrder'
  OBVIOUS
<1> USE DEF IInv, TypeOK, ExitOrder
<1>0. Worker \in Consumers /\ Worker \notin Flushers
  BY EventSystemAssumption DEF Consumers
<1>1. ASSUME NEW p \in Publishers, NEW delayed \in BOOLEAN, PublishBegin(p, delayed)
      PROVE  ExitOrder'
  BY <1>1 DEF PublishBegin, conVars, exitVars
<1>2. ASSUME NEW p \in Publishers, PublishStep(p)
      PROVE  ExitOrder'
  BY <1>2 DEF PublishStep, PublishEnqueue, PublishCheckRunning, PublishArm,
              QueueDelayedWork, conVars, exitVars
<1>3. ASSUME NEW f \in Flushers, FlushBegin(f)
      PROVE  ExitOrder'
  BY <1>0, <1>3 DEF FlushBegin, ConAt, exitVars
<1>4. ASSUME NEW c \in Consumers, ConsumeStep(c)
      PROVE  ExitOrder'
  <2>1. exitVars' = exitVars
    BY <1>4 DEF ConsumeStep, CheckCount, DequeueNothing, Dequeue, Dispatch,
                LoadProcessed, StoreProcessed, CheckMore, CheckRunning, Resched, exitVars
  <2>2. c = Worker => dispatcher = "live" \/ con_pc[c] = "idle"
    OBVIOUS
  <2>3. con_pc[c] # "idle"
    BY <1>4 DEF ConsumeStep, CheckCount, DequeueNothing, Dequeue, Dispatch,
                LoadProcessed, StoreProcessed, CheckMore, CheckRunning, Resched, ConAt
  <2>4. c # Worker => con_pc'[Worker] = con_pc[Worker]
    BY <1>0, <1>4 DEF ConsumeStep, CheckCount, DequeueNothing, Dequeue, Dispatch,
                LoadProcessed, StoreProcessed, CheckMore, CheckRunning, Resched, ConAt
  <2>5. work' = work \/ work' = "delayed"
    BY <1>4 DEF ConsumeStep, CheckCount, DequeueNothing, Dequeue, Dispatch,
                LoadProcessed, StoreProcessed, CheckMore, CheckRunning, Resched,
                QueueDelayedWork
  <2>6. QED
    BY <2>1, <2>2, <2>3, <2>4, <2>5 DEF exitVars
<1>5. ASSUME TimerExpires \/ WorkerStart \/ UNCHANGED vars
      PROVE  ExitOrder'
  BY <1>0, <1>5 DEF TimerExpires, WorkerStart, ConAt, vars, conVars, exitVars
<1>6. ASSUME ExitStop \/ ExitStep
      PROVE  ExitOrder'
  BY <1>6 DEF ExitStop, ExitStep, ExitCancel, ExitFlush, ExitDestroy, ExitFree,
              ExitAt, conVars, ExitStates
<1>7. QED
  BY <1>1, <1>2, <1>3, <1>4, <1>5, <1>6 DEF Next

\* While the dispatcher runs, a step that leaves events pending leaves
\* somebody to look after them.
LEMMA NoLostWakeupStep == IInv /\ [Next]_vars => NoLostWakeup'
<1> DEFINE Watched == \/ work # "idle"
                      \/ \E p \in Publishers : pub_pc[p] \in {"check_running", "arm"}
                      \/ \E c \in Consumers : con_pc[c] \notin {"idle", "oops"}
<1> SUFFICES ASSUME IInv, [Next]_vars, running', NumPending' > 0
             PROVE  Watched'
  BY DEF NoLostWakeup
<1>0. TypeOK /\ TypeOK'
  BY TypeOKStep DEF IInv
<1>1. running /\ dispatcher = "live" /\ ~ExitStop /\ ~ExitStep
  <2>1. running
    BY DEF IInv, ExitOrder, Next, PublishBegin, PublishStep, PublishEnqueue,
           PublishCheckRunning, PublishArm, FlushBegin, ConsumeStep, CheckCount,
           DequeueNothing, Dequeue, Dispatch, LoadProcessed, StoreProcessed,
           CheckMore, CheckRunning, Resched, TimerExpires, WorkerStart, ExitStop, ExitStep,
           ExitCancel, ExitFlush, ExitDestroy, ExitFree, exitVars, vars
  <2>2. QED
    BY <2>1 DEF IInv, TypeOK, ExitOrder, ExitStop, ExitStep, ExitCancel,
                ExitFlush, ExitDestroy, ExitFree, ExitAt
<1>2. NumPending' = NumPending \/ (\E p \in Publishers : PublishEnqueue(p))
        \/ (\E c \in Consumers : Dequeue(c))
  BY RingSteps, RingUnchanged
<1>3. ASSUME NEW p \in Publishers, PublishEnqueue(p)
      PROVE  Watched'
  BY <1>0, <1>3 DEF PublishEnqueue, PubAt, TypeOK
<1>4. ASSUME NEW c \in Consumers, Dequeue(c)
      PROVE  Watched'
  BY <1>0, <1>4 DEF Dequeue, ConAt, TypeOK
<1>5. ASSUME NumPending' = NumPending, ~(\E p \in Publishers : PublishEnqueue(p)),
             ~(\E c \in Consumers : Dequeue(c))
      PROVE  Watched'
  <2>0. Watched /\ NumPending > 0
    BY <1>1, <1>5 DEF IInv, NoLostWakeup
  <2>1. ASSUME NEW p \in Publishers, NEW delayed \in BOOLEAN, PublishBegin(p, delayed)
        PROVE  Watched'
    BY <1>0, <2>0, <2>1 DEF PublishBegin, PubAt, TypeOK, conVars
  <2>2. ASSUME NEW p \in Publishers, PublishCheckRunning(p)
        PROVE  Watched'
    BY <1>0, <1>1, <2>2 DEF PublishCheckRunning, PubAt, TypeOK
  <2>3. ASSUME NEW p \in Publishers, PublishArm(p)
        PROVE  Watched'
    BY <1>1, <2>3 DEF PublishArm, QueueDelayedWork
  <2>4. ASSUME NEW f \in Flushers, FlushBegin(f)
        PROVE  Watched'
    BY <1>0, <2>4 DEF FlushBegin, ConAt, TypeOK, Consumers
  <2>5. ASSUME NEW c \in Consumers,
               \/ CheckCount(c) \/ DequeueNothing(c) \/ Dispatch(c)
               \/ LoadProcessed(c) \/ StoreProcessed(c)
        PROVE  Watched'
    BY <1>0, <2>5 DEF CheckCount, DequeueNothing, Dispatch, LoadProcessed,
                      StoreProcessed, ConAt, TypeOK
  <2>6. ASSUME NEW c \in Consumers, CheckMore(c)
        PROVE  Watched'
    <3>1. queue_count > 0
      <4>1. queue_count = NumPending + dropped_events /\ dropped_events \in Nat
        BY <1>0 DEF IInv, CountIsPendingPlusDropped, TypeOK, RingTypeOK
      <4>2. NumPending \in Nat
        BY <1>0, NumPendingBound, QueueSizeAssumption DEF TypeOK
      <4>3. QED
        BY <2>0, <4>1, <4>2
    <3>2. queue_count \in Int
      BY <1>0 DEF TypeOK, RingTypeOK
    <3>3. con_pc'[c] = "check_running"
      BY <1>0, <2>6, <3>1, <3>2 DEF CheckMore, ConAt, TypeOK
    <3>4. QED
      BY <3>3
  <2>7. ASSUME NEW c \in Consumers, CheckRunning(c)
        PROVE  Watched'
    <3>1. con_pc'[c] = "arm"
      BY <1>0, <1>1, <2>7 DEF CheckRunning, ConAt, TypeOK
    <3>2. QED
      BY <3>1
  <2>8. ASSUME NEW c \in Consumers, Resched(c)
        PROVE  Watched'
    BY <1>1, <2>8 DEF Resched, QueueDelayedWork
  <2>9. ASSUME TimerExpires
        PROVE  Watched'
    BY <2>9 DEF TimerExpires
  <2>10. ASSUME WorkerStart
        PROVE  Watched'
    BY <1>0, <2>10 DEF WorkerStart, ConAt, TypeOK, Consumers
  <2>11. ASSUME UNCHANGED vars
         PROVE  Watched'
    BY <2>0, <2>11 DEF vars, pubVars, conVars
  <2>12. QED
    BY <1>1, <1>5, <2>1, <2>2, <2>3, <2>4, <2>5, <2>6, <2>7, <2>8, <2>9, <2>10, <2>11
       DEF Next, PublishStep, ConsumeStep
<1>6. QED
  BY <1>2, <1>3, <1>4, <1>5
-----------------------------------------------------------------------------
(***************************************************************************)
(* The ring as a sequence.                                                  *)
(***************************************************************************)
At(i) == (queue_head + i - 1) % QueueSize

\* The slot of the i-th pending event without the modulus (events.c:309).
LEMMA AtLemma ==
  ASSUME RingTypeOK, NEW i \in 1 .. NumPending
  PROVE  /\ At(i) \in Slot /\ IsPending(At(i))
         /\ At(i) = IF queue_head + i - 1 < QueueSize
                    THEN queue_head + i - 1 ELSE queue_head + i - 1 - QueueSize
<1>1. queue_head \in 0 .. QueueSize - 1 /\ queue_tail \in 0 .. QueueSize - 1
  BY DEF RingTypeOK, Slot
<1>2. NumPending \in 0 .. QueueSize - 1
  BY NumPendingBound
<1> DEFINE x == queue_head + i - 1
<1>3. x \in Nat /\ x < 2 * QueueSize
  BY <1>1, <1>2, QueueSizeAssumption
<1>4. x % QueueSize = IF x < QueueSize THEN x ELSE x - QueueSize
  <2> HIDE DEF x
  <2>1. CASE x < QueueSize
    BY <1>3, <2>1, QueueSizeAssumption
  <2>2. CASE x >= QueueSize
    BY <1>3, <2>2, QueueSizeAssumption
  <2>3. QED
    BY <1>3, <2>1, <2>2, QueueSizeAssumption
<1>5. QED
  BY <1>1, <1>2, <1>3, <1>4, QueueSizeAssumption DEF At, Slot, IsPending, NumPending

LEMMA PendingFacts ==
  ASSUME RingTypeOK, PendingSlotsFilled
  PROVE  /\ NumPending \in Nat /\ Pending \in Seq(Event) /\ Len(Pending) = NumPending
         /\ \A i \in 1 .. NumPending : Pending[i] \in Event /\ Pending[i] = event_queue[At(i)]
<1>1. NumPending \in Nat
  BY NumPendingBound, QueueSizeAssumption
<1>2. \A i \in 1 .. NumPending : At(i) \in Slot /\ event_queue[At(i)] \in Event
  BY AtLemma DEF PendingSlotsFilled
<1>3. Pending = [i \in 1 .. NumPending |-> event_queue[At(i)]]
  BY DEF Pending, At
<1>4. QED
  BY <1>1, <1>2, <1>3

\* What is pending, before and after a step.
LEMMA RingRead ==
  RingTypeOK /\ PendingSlotsFilled =>
    \A i \in 1 .. NumPending :
      /\ At(i) \in Slot /\ IsPending(At(i)) /\ Pending[i] = event_queue[At(i)]
      /\ At(i) = IF queue_head + i - 1 < QueueSize
                 THEN queue_head + i - 1 ELSE queue_head + i - 1 - QueueSize
BY AtLemma, PendingFacts

LEMMA RingReadNext ==
  RingTypeOK' /\ PendingSlotsFilled' =>
    \A i \in 1 .. NumPending' :
      /\ At(i)' \in Slot /\ Pending'[i] = event_queue'[At(i)']
      /\ At(i)' = IF queue_head' + i - 1 < QueueSize
                  THEN queue_head' + i - 1 ELSE queue_head' + i - 1 - QueueSize
<1>1. (RingTypeOK /\ PendingSlotsFilled =>
         \A i \in 1 .. NumPending :
           /\ At(i) \in Slot /\ IsPending(At(i)) /\ Pending[i] = event_queue[At(i)]
           /\ At(i) = IF queue_head + i - 1 < QueueSize
                      THEN queue_head + i - 1 ELSE queue_head + i - 1 - QueueSize)'
  BY RingRead, PTL
<1>2. QED
  BY <1>1

\* publish_event appends; a full ring gives up its oldest event first.
LEMMA PutPending ==
  ASSUME RingTypeOK, PendingSlotsFilled, NEW e \in Event, Put(e)
  PROVE  /\ Full <=> NumPending = QueueSize - 1
         /\ ~Full => /\ NumPending' = NumPending + 1
                     /\ \A i \in 1 .. NumPending : Pending'[i] = Pending[i]
                     /\ Pending'[NumPending + 1] = e
         /\ Full => /\ NumPending' = NumPending /\ NumPending >= 1
                    /\ \A i \in 1 .. NumPending - 1 : Pending'[i] = Pending[i + 1]
                    /\ Pending'[NumPending] = e
<1>1. queue_head \in 0 .. QueueSize - 1 /\ queue_tail \in 0 .. QueueSize - 1
  BY DEF RingTypeOK, Slot
<1>2. /\ NumPending \in 0 .. QueueSize - 1 /\ (Full <=> NumPending = QueueSize - 1)
      /\ NumPending' = IF Full THEN NumPending ELSE NumPending + 1
  BY PutLemma, NumPendingBound
<1>3. RingTypeOK' /\ PendingSlotsFilled'
  BY PutLemma, PutFills
<1>4. /\ Succ(queue_head) = IF queue_head = QueueSize - 1 THEN 0 ELSE queue_head + 1
      /\ queue_head' = IF Full THEN Succ(queue_head) ELSE queue_head
  BY <1>1, SuccLemma DEF Put, Slot
<1>5. /\ event_queue'[queue_tail] = e
      /\ \A j \in Slot : j # queue_tail => event_queue'[j] = event_queue[j]
  BY <1>1 DEF Put, RingTypeOK, Slot
<1>6. \A i \in 1 .. NumPending : At(i) # queue_tail
  BY <1>1, RingRead, QueueSizeAssumption DEF IsPending
<1>7. \A i \in 1 .. NumPending : event_queue'[At(i)] = Pending[i]
  BY <1>5, <1>6, RingRead
<1>8. CASE ~Full
  <2>1. \A i \in 1 .. NumPending : At(i)' = At(i) /\ i \in 1 .. NumPending'
    BY <1>2, <1>3, <1>4, <1>8, RingRead, RingReadNext
  <2>2. \A i \in 1 .. NumPending' : i = NumPending + 1 => At(i)' = queue_tail
    BY <1>1, <1>2, <1>3, <1>4, <1>8, RingReadNext, QueueSizeAssumption DEF NumPending
  <2>3. \A i \in 1 .. NumPending : Pending'[i] = Pending[i]
    BY <1>3, <1>7, <2>1, RingReadNext
  <2>4. NumPending + 1 \in 1 .. NumPending' /\ Pending'[NumPending + 1] = e
    <3>1. NumPending + 1 \in 1 .. NumPending'
      BY <1>2, <1>8
    <3>2. \A i \in 1 .. NumPending' : i = NumPending + 1 => Pending'[i] = e
      BY <1>3, <1>5, <2>2, RingReadNext
    <3>3. QED
      BY <3>1, <3>2
  <2>5. QED
    BY <1>2, <1>8, <2>3, <2>4
<1>9. CASE Full
  <2>1. \A i \in 1 .. NumPending - 1 : i + 1 \in 1 .. NumPending /\ i \in 1 .. NumPending'
    BY <1>2, <1>9
  <2>2. \A i \in 1 .. NumPending - 1 : At(i)' = At(i + 1)
    BY <1>1, <1>2, <1>3, <1>4, <1>9, <2>1, RingRead, RingReadNext, QueueSizeAssumption
  <2>3. \A i \in 1 .. NumPending' : i = NumPending => At(i)' = queue_tail
    BY <1>1, <1>2, <1>3, <1>4, <1>9, RingReadNext, QueueSizeAssumption DEF NumPending
  <2>4. \A i \in 1 .. NumPending - 1 : Pending'[i] = Pending[i + 1]
    BY <1>3, <1>7, <2>1, <2>2, RingReadNext
  <2>5. NumPending >= 1 /\ NumPending \in 1 .. NumPending'
    BY <1>2, <1>9, QueueSizeAssumption
  <2>6. Pending'[NumPending] = e
    BY <1>3, <1>5, <2>3, <2>5, RingReadNext
  <2>7. QED
    BY <1>2, <1>9, <2>4, <2>5, <2>6
<1>10. QED
  BY <1>8, <1>9

\* The worker takes the oldest event.
LEMMA TakePending ==
  ASSUME RingTypeOK, PendingSlotsFilled, Take
  PROVE  /\ NumPending >= 1 /\ NumPending' = NumPending - 1
         /\ event_queue[queue_head] = Pending[1]
         /\ \A i \in 1 .. NumPending - 1 : Pending'[i] = Pending[i + 1]
<1>1. queue_head \in 0 .. QueueSize - 1 /\ queue_tail \in 0 .. QueueSize - 1
  BY DEF RingTypeOK, Slot
<1>2. NumPending \in 0 .. QueueSize - 1 /\ NumPending >= 1 /\ NumPending' = NumPending - 1
  BY TakeLemma, NumPendingBound DEF Take
<1>3. RingTypeOK' /\ PendingSlotsFilled'
  BY TakeLemma, TakeFills
<1>4. queue_head' = IF queue_head = QueueSize - 1 THEN 0 ELSE queue_head + 1
  BY <1>1, SuccLemma DEF Take, Slot
<1>5. event_queue' = event_queue
  BY DEF Take
<1>6. event_queue[queue_head] = Pending[1]
  <2>1. \A i \in 1 .. NumPending : i = 1 => At(i) = queue_head /\ Pending[i] = event_queue[At(i)]
    BY <1>1, RingRead, QueueSizeAssumption
  <2>2. 1 \in 1 .. NumPending
    BY <1>2
  <2>3. QED
    BY <2>1, <2>2
<1>7. \A i \in 1 .. NumPending - 1 : At(i)' = At(i + 1) /\ i \in 1 .. NumPending' /\ i + 1 \in 1 .. NumPending
  BY <1>1, <1>2, <1>3, <1>4, RingRead, RingReadNext, QueueSizeAssumption
<1>8. QED
  BY <1>2, <1>3, <1>5, <1>6, <1>7, RingRead, RingReadNext
-----------------------------------------------------------------------------
(***************************************************************************)
(* Where every event is: offered by a publisher that has its id but not yet *)
(* the lock, pending, in the hand of a consumer, or delivered.              *)
(***************************************************************************)
Publishing == {p \in Publishers : pub_pc[p] = "enqueue"}

OfferedIds   == {pub_event[p].id : p \in Publishing}
PendingIdSet == Range(PendingIds)
HandIds      == {con_event[c].id : c \in InHand}
PlacedIds    == PendingIdSet \cup HandIds \cup DeliveredIds

\* No id beyond the counter, and the counter within its bound.
Known ==
  /\ event_id_counter <= MaxEvents
  /\ OfferedIds \cup PlacedIds \subseteq 1 .. event_id_counter

\* No two events in one kind of place have the same id, and no id is in two
\* kinds of places.
Distinct ==
  /\ \A i, j \in 1 .. NumPending : Pending[i].id = Pending[j].id => i = j
  /\ \A c, d \in InHand : con_event[c].id = con_event[d].id => c = d
  /\ \A p, q \in Publishing : pub_event[p].id = pub_event[q].id => p = q

Apart ==
  /\ OfferedIds \cap PlacedIds = {}
  /\ PendingIdSet \cap HandIds = {}
  /\ PendingIdSet \cap DeliveredIds = {}
  /\ HandIds \cap DeliveredIds = {}

\* The events of one thread are in the order of their ids, from the delivered
\* over the one in hand and the pending to the one that is offered.
InOrder ==
  /\ \A i, j \in 1 .. NumPending : i < j /\ Pending[i].thread = Pending[j].thread
       => Pending[i].id < Pending[j].id
  /\ \A c \in Consumers : \A k \in DOMAIN delivered[c] :
       /\ \A i \in 1 .. NumPending : delivered[c][k].thread = Pending[i].thread
            => delivered[c][k].id < Pending[i].id
       /\ c \in InHand /\ delivered[c][k].thread = con_event[c].thread
            => delivered[c][k].id < con_event[c].id
  /\ \A c \in InHand, i \in 1 .. NumPending : con_event[c].thread = Pending[i].thread
       => con_event[c].id < Pending[i].id

\* What a publisher offers is younger than all that it published before.
OfferedLast ==
  \A p \in Publishing :
    /\ pub_event[p].thread = p
    /\ \A i \in 1 .. NumPending : Pending[i].thread = p => Pending[i].id < pub_event[p].id
    /\ \A c \in InHand : con_event[c].thread = p => con_event[c].id < pub_event[p].id
    /\ \A c \in Consumers : \A k \in DOMAIN delivered[c] :
         delivered[c][k].thread = p => delivered[c][k].id < pub_event[p].id

\* Steps that move no event.
QuietStep ==
  /\ UNCHANGED <<event_queue, queue_head, queue_tail, total_events, dropped_events,
                 event_id_counter, delivered>>
  /\ InHand' = InHand /\ \A c \in InHand : con_event'[c] = con_event[c]
  /\ Publishing' = Publishing /\ \A p \in Publishing : pub_event'[p] = pub_event[p]

LEMMA BeginMoves ==
  ASSUME TypeOK, NEW p \in Publishers, NEW delayed \in BOOLEAN, PublishBegin(p, delayed)
  PROVE  /\ UNCHANGED <<ringVars, delivered, con_event, InHand>>
         /\ event_id_counter < MaxEvents /\ event_id_counter' = event_id_counter + 1
         /\ p \notin Publishing /\ Publishing' = Publishing \cup {p}
         /\ pub_event'[p] = [id |-> event_id_counter + 1, thread |-> p]
         /\ \A q \in Publishing : pub_event'[q] = pub_event[q]
BY DEF PublishBegin, PubAt, TypeOK, Publishing, InHand, conVars

LEMMA EnqueueMoves ==
  ASSUME IInv, NEW p \in Publishers, PublishEnqueue(p)
  PROVE  /\ UNCHANGED <<delivered, con_event, InHand, event_id_counter, pub_event>>
         /\ p \in Publishing /\ Publishing' = Publishing \ {p}
         /\ pub_event[p] \in Event /\ Put(pub_event[p])
BY DEF PublishEnqueue, PubAt, IInv, TypeOK, HeldEventsReal, Publishing, InHand, conVars

LEMMA DequeueMoves ==
  ASSUME IInv, NEW c \in Consumers, Dequeue(c)
  PROVE  /\ UNCHANGED <<delivered, pub_event, Publishing, event_id_counter, total_events, dropped_events>>
         /\ c \notin InHand /\ InHand' = InHand \cup {c}
         /\ con_event'[c] = Pending[1] /\ Pending[1] \in Event
         /\ \A d \in InHand : con_event'[d] = con_event[d]
         /\ NumPending >= 1 /\ NumPending' = NumPending - 1
         /\ \A i \in 1 .. NumPending - 1 : Pending'[i] = Pending[i + 1]
<1>1. TypeOK /\ RingTypeOK /\ PendingSlotsFilled /\ Take
  BY DEF IInv, TypeOK, Dequeue
<1>2. /\ NumPending >= 1 /\ NumPending' = NumPending - 1
      /\ event_queue[queue_head] = Pending[1] /\ event_queue[queue_head] \in Event
      /\ \A i \in 1 .. NumPending - 1 : Pending'[i] = Pending[i + 1]
  BY <1>1, TakePending, TakeFills
<1>3. UNCHANGED <<delivered, pub_event, Publishing, event_id_counter, total_events, dropped_events>>
  BY <1>1 DEF Dequeue, Publishing, pubVars, Take
<1>4. /\ c \notin InHand /\ InHand' = InHand \cup {c}
      /\ con_event'[c] = event_queue[queue_head]
      /\ \A d \in InHand : con_event'[d] = con_event[d]
  BY <1>1 DEF Dequeue, ConAt, TypeOK, InHand
<1>5. QED
  BY <1>2, <1>3, <1>4

LEMMA DispatchMoves ==
  ASSUME IInv, NEW c \in Consumers, Dispatch(c)
  PROVE  /\ UNCHANGED <<ringVars, con_event, pub_event, Publishing, event_id_counter>>
         /\ c \in InHand /\ InHand' = InHand \ {c} /\ con_event[c] \in Event
         /\ \A d \in Consumers : d # c => delivered'[d] = delivered[d]
         /\ Len(delivered[c]) \in Nat /\ DOMAIN delivered[c] = 1 .. Len(delivered[c])
         /\ DOMAIN delivered'[c] = 1 .. Len(delivered[c]) + 1
         /\ \A k \in 1 .. Len(delivered[c]) : delivered'[c][k] = delivered[c][k]
         /\ delivered'[c][Len(delivered[c]) + 1] = con_event[c]
<1>1. TypeOK /\ con_event[c] \in Event /\ con_pc[c] = "dispatch"
  BY DEF IInv, HeldEventsReal, Dispatch, ConAt
<1>2. /\ UNCHANGED <<ringVars, con_event, pub_event, Publishing, event_id_counter>>
      /\ c \in InHand /\ InHand' = InHand \ {c}
  BY <1>1 DEF Dispatch, ConAt, TypeOK, InHand, Publishing, pubVars
<1>3. /\ delivered'[c] = Append(delivered[c], con_event[c]) /\ delivered[c] \in Seq(Event)
      /\ \A d \in Consumers : d # c => delivered'[d] = delivered[d]
  BY <1>1 DEF Dispatch, TypeOK
<1> DEFINE s == delivered[c]
           t == Append(s, con_event[c])
<1>4. /\ Len(s) \in Nat /\ DOMAIN s = 1 .. Len(s) /\ DOMAIN t = 1 .. Len(s) + 1
      /\ \A k \in 1 .. Len(s) : t[k] = s[k]
      /\ t[Len(s) + 1] = con_event[c]
  <2>1. s \in Seq(Event)
    BY <1>3
  <2> HIDE DEF s
  <2>2. QED
    BY <1>1, <2>1
<1>5. QED
  BY <1>1, <1>2, <1>3, <1>4

LEMMA StepKinds ==
  ASSUME IInv, [Next]_vars
  PROVE  \/ \E p \in Publishers, delayed \in BOOLEAN : PublishBegin(p, delayed)
         \/ \E p \in Publishers : PublishEnqueue(p)
         \/ \E c \in Consumers : Dequeue(c)
         \/ \E c \in Consumers : Dispatch(c)
         \/ QuietStep
<1>0. TypeOK /\ Worker \in Consumers /\ Flushers \subseteq Consumers
  BY DEF IInv, Consumers
<1>1. ASSUME UNCHANGED <<ringVars, event_id_counter, delivered>>,
             UNCHANGED <<InHand, Publishing>>,
             \A c \in InHand : con_event'[c] = con_event[c],
             \A p \in Publishing : pub_event'[p] = pub_event[p]
      PROVE  QuietStep
  BY <1>1 DEF QuietStep, ringVars
<1>2. ASSUME NEW p \in Publishers, PublishCheckRunning(p) \/ PublishArm(p)
      PROVE  QuietStep
  <2>1. UNCHANGED <<ringVars, event_id_counter, delivered, InHand, con_event>>
    BY <1>2 DEF PublishCheckRunning, PublishArm, conVars, InHand
  <2>2. /\ pub_pc[p] # "enqueue" /\ pub_pc'[p] # "enqueue"
        /\ \A q \in Publishers : q # p => pub_pc'[q] = pub_pc[q] /\ pub_event'[q] = pub_event[q]
    BY <1>0, <1>2 DEF PublishCheckRunning, PublishArm, PubAt, Return, TypeOK
  <2>3. QED
    BY <1>1, <2>1, <2>2 DEF Publishing
<1>3. ASSUME NEW c \in Consumers,
             \/ CheckCount(c) \/ DequeueNothing(c) \/ LoadProcessed(c) \/ StoreProcessed(c)
             \/ CheckMore(c) \/ CheckRunning(c) \/ Resched(c)
      PROVE  QuietStep
  <2>1. UNCHANGED <<ringVars, event_id_counter, delivered, Publishing, pub_event>>
    BY <1>3 DEF CheckCount, DequeueNothing, LoadProcessed, StoreProcessed, CheckMore, CheckRunning,
                Resched, pubVars, Publishing
  <2>2. /\ con_pc[c] # "dispatch" /\ con_pc'[c] # "dispatch"
        /\ \A d \in Consumers : d # c => con_pc'[d] = con_pc[d] /\ con_event'[d] = con_event[d]
    BY <1>0, <1>3 DEF CheckCount, DequeueNothing, LoadProcessed, StoreProcessed, CheckMore,
                      CheckRunning, Resched, ConAt, TypeOK
  <2>3. QED
    BY <1>1, <2>1, <2>2 DEF InHand
<1>4. ASSUME WorkerStart \/ \E f \in Flushers : FlushBegin(f)
      PROVE  QuietStep
  <2>1. UNCHANGED <<ringVars, event_id_counter, delivered, Publishing, pub_event, con_event>>
    BY <1>4 DEF WorkerStart, FlushBegin, pubVars, Publishing
  <2>2. InHand' = InHand
    BY <1>0, <1>4 DEF WorkerStart, FlushBegin, ConAt, TypeOK, InHand
  <2>3. QED
    BY <1>1, <2>1, <2>2
<1>5. ASSUME TimerExpires \/ ExitStop \/ ExitStep \/ UNCHANGED vars
      PROVE  QuietStep
  <2>1. UNCHANGED <<ringVars, pubVars, conVars>>
    BY <1>5 DEF TimerExpires, ExitStop, ExitStep, ExitCancel, ExitFlush, ExitDestroy, ExitFree, vars
  <2>2. QED
    BY <1>1, <2>1 DEF pubVars, conVars, InHand, Publishing
<1>6. QED
  BY <1>2, <1>3, <1>4, <1>5 DEF Next, PublishStep, ConsumeStep
-----------------------------------------------------------------------------
(***************************************************************************)
(* How each step moves ids between the four places.                         *)
(***************************************************************************)
Members ==
  /\ \A n : n \in OfferedIds <=> \E p \in Publishing : pub_event[p].id = n
  /\ \A n : n \in PendingIdSet <=> \E i \in 1 .. NumPending : Pending[i].id = n
  /\ \A n : n \in HandIds <=> \E c \in InHand : con_event[c].id = n
  /\ \A n : n \in DeliveredIds <=>
       \E c \in Consumers : \E k \in DOMAIN delivered[c] : delivered[c][k].id = n

LEMMA MembersLemma == Members
<1>1. \A n : n \in PendingIdSet <=> \E i \in 1 .. NumPending : Pending[i].id = n
  BY DEF PendingIdSet, PendingIds, Range
<1>2. \A n : n \in DeliveredIds <=>
        \E c \in Consumers : \E k \in DOMAIN delivered[c] : delivered[c][k].id = n
  BY DEF DeliveredIds, Range
<1>3. QED
  BY <1>1, <1>2 DEF Members, OfferedIds, HandIds

LEMMA MembersNext == Members'
BY MembersLemma, PTL

\* A publisher that has taken its id offers it.
LEMMA BeginIds ==
  ASSUME IInv, NEW p \in Publishers, NEW delayed \in BOOLEAN, PublishBegin(p, delayed)
  PROVE  /\ OfferedIds' = OfferedIds \cup {event_id_counter + 1}
         /\ PendingIdSet' = PendingIdSet /\ HandIds' = HandIds /\ DeliveredIds' = DeliveredIds
<1>1. TypeOK
  BY DEF IInv
<1>2. /\ UNCHANGED <<ringVars, delivered, con_event, InHand>>
      /\ Publishing' = Publishing \cup {p}
      /\ pub_event'[p] = [id |-> event_id_counter + 1, thread |-> p]
      /\ \A q \in Publishing : pub_event'[q] = pub_event[q]
      /\ p \notin Publishing
  BY <1>1, BeginMoves
<1>3. OfferedIds' = OfferedIds \cup {event_id_counter + 1}
  BY <1>2 DEF OfferedIds
<1>4. PendingIdSet' = PendingIdSet
  BY <1>2 DEF PendingIdSet, PendingIds, Pending, NumPending, ringVars
<1>5. HandIds' = HandIds /\ DeliveredIds' = DeliveredIds
  BY <1>2 DEF HandIds, DeliveredIds
<1>6. QED
  BY <1>3, <1>4, <1>5

\* The id that makes room when a publisher finds the ring full.
Displaced == IF Full THEN {Pending[1].id} ELSE {}

LEMMA EnqueueIds ==
  ASSUME IInv, Distinct, NEW p \in Publishers, PublishEnqueue(p)
  PROVE  /\ pub_event[p].id \in OfferedIds
         /\ OfferedIds' = OfferedIds \ {pub_event[p].id}
         /\ Displaced \subseteq PendingIdSet
         /\ PendingIdSet' = (PendingIdSet \ Displaced) \cup {pub_event[p].id}
         /\ HandIds' = HandIds /\ DeliveredIds' = DeliveredIds
<1>1. /\ UNCHANGED <<delivered, con_event, InHand, pub_event>>
      /\ p \in Publishing /\ Publishing' = Publishing \ {p}
      /\ pub_event[p] \in Event /\ Put(pub_event[p])
  BY EnqueueMoves
<1>2. RingTypeOK /\ PendingSlotsFilled
  BY DEF IInv, TypeOK
<1> DEFINE e == pub_event[p]
<1>3. NumPending \in Nat
  BY <1>2, PendingFacts
<1>4. Members /\ Members'
  BY MembersLemma, MembersNext
<1>5. OfferedIds' = OfferedIds \ {e.id} /\ e.id \in OfferedIds
  BY <1>1 DEF OfferedIds, Distinct
<1>6. HandIds' = HandIds /\ DeliveredIds' = DeliveredIds
  BY <1>1 DEF HandIds, DeliveredIds
<1>7. CASE ~Full
  <2>1. /\ NumPending' = NumPending + 1
        /\ \A i \in 1 .. NumPending : Pending'[i] = Pending[i]
        /\ Pending'[NumPending + 1] = e
    BY <1>1, <1>2, <1>7, PutPending
  <2>2. ASSUME NEW n
        PROVE  (\E i \in 1 .. NumPending' : Pending'[i].id = n)
                 <=> n = e.id \/ \E i \in 1 .. NumPending : Pending[i].id = n
    <3>1. 1 .. NumPending' = (1 .. NumPending) \cup {NumPending + 1}
      BY <1>3, <2>1
    <3>2. QED
      BY <2>1, <3>1
  <2>3. PendingIdSet' = PendingIdSet \cup {e.id}
    BY <1>4, <2>2 DEF Members
  <2>4. QED
    BY <1>1, <1>5, <1>6, <1>7, <2>3 DEF Displaced
<1>8. CASE Full
  <2>1. /\ NumPending' = NumPending /\ NumPending >= 1
        /\ \A i \in 1 .. NumPending - 1 : Pending'[i] = Pending[i + 1]
        /\ Pending'[NumPending] = e
    BY <1>1, <1>2, <1>8, PutPending
  <2>2. 1 \in 1 .. NumPending /\ NumPending \in 1 .. NumPending
    BY <1>3, <2>1
  <2>3. ASSUME NEW n
        PROVE  (\E i \in 1 .. NumPending' : Pending'[i].id = n)
                 <=> n = e.id \/ \E i \in 2 .. NumPending : Pending[i].id = n
    <3>1. ASSUME NEW i \in 1 .. NumPending', Pending'[i].id = n
          PROVE  n = e.id \/ \E j \in 2 .. NumPending : Pending[j].id = n
      <4>1. CASE i = NumPending
        BY <2>1, <3>1, <4>1
      <4>2. CASE i # NumPending
        <5>1. i \in 1 .. NumPending - 1 /\ i + 1 \in 2 .. NumPending
          BY <1>3, <2>1, <3>1, <4>2
        <5>2. QED
          BY <2>1, <3>1, <5>1
      <4>3. QED
        BY <4>1, <4>2
    <3>2. ASSUME NEW j \in 2 .. NumPending, Pending[j].id = n
          PROVE  \E i \in 1 .. NumPending' : Pending'[i].id = n
      <4>1. /\ j - 1 \in 1 .. NumPending - 1 /\ j - 1 \in 1 .. NumPending'
            /\ (j - 1) + 1 = j
        BY <1>3, <2>1, <3>2
      <4>2. Pending'[j - 1] = Pending[j]
        BY <2>1, <4>1
      <4>3. QED
        BY <3>2, <4>1, <4>2
    <3>3. QED
      BY <2>1, <2>2, <3>1, <3>2
  <2>4. ASSUME NEW n
        PROVE  (\E i \in 2 .. NumPending : Pending[i].id = n)
                 <=> n # Pending[1].id /\ \E i \in 1 .. NumPending : Pending[i].id = n
    <3>1. \A i \in 1 .. NumPending : i = 1 \/ i \in 2 .. NumPending
      BY <1>3
    <3>2. \A i \in 2 .. NumPending : i # 1 /\ i \in 1 .. NumPending
      BY <1>3
    <3>3. QED
      BY <2>2, <3>1, <3>2 DEF Distinct
  <2>5. PendingIdSet' = (PendingIdSet \ {Pending[1].id}) \cup {e.id}
    BY <1>4, <2>3, <2>4 DEF Members
  <2>6. Pending[1].id \in PendingIdSet
    BY <1>4, <2>2 DEF Members
  <2>7. QED
    BY <1>1, <1>5, <1>6, <1>8, <2>5, <2>6 DEF Displaced
<1>9. QED
  BY <1>7, <1>8

LEMMA DequeueIds ==
  ASSUME IInv, Distinct, NEW c \in Consumers, Dequeue(c)
  PROVE  /\ Pending[1].id \in PendingIdSet
         /\ PendingIdSet' = PendingIdSet \ {Pending[1].id}
         /\ HandIds' = HandIds \cup {Pending[1].id}
         /\ OfferedIds' = OfferedIds /\ DeliveredIds' = DeliveredIds
<1>1. /\ UNCHANGED <<delivered, pub_event, Publishing>>
      /\ InHand' = InHand \cup {c} /\ con_event'[c] = Pending[1]
      /\ \A d \in InHand : con_event'[d] = con_event[d]
      /\ NumPending >= 1 /\ NumPending' = NumPending - 1
      /\ \A i \in 1 .. NumPending - 1 : Pending'[i] = Pending[i + 1]
      /\ c \notin InHand
  BY DequeueMoves
<1>2. NumPending \in Nat
  BY PendingFacts DEF IInv, TypeOK
<1>3. Members /\ Members'
  BY MembersLemma, MembersNext
<1>4. OfferedIds' = OfferedIds /\ DeliveredIds' = DeliveredIds
  BY <1>1 DEF OfferedIds, DeliveredIds
<1>5. HandIds' = HandIds \cup {Pending[1].id}
  BY <1>1 DEF HandIds
<1>6. 1 \in 1 .. NumPending
  BY <1>1, <1>2
<1>7. ASSUME NEW n
      PROVE  (\E i \in 1 .. NumPending' : Pending'[i].id = n)
               <=> n # Pending[1].id /\ \E i \in 1 .. NumPending : Pending[i].id = n
  <2>1. ASSUME NEW i \in 1 .. NumPending', Pending'[i].id = n
        PROVE  n # Pending[1].id /\ \E j \in 1 .. NumPending : Pending[j].id = n
    <3>1. i \in 1 .. NumPending - 1 /\ i + 1 \in 1 .. NumPending /\ i + 1 # 1
      BY <1>1, <1>2, <2>1
    <3>2. QED
      BY <1>1, <1>6, <2>1, <3>1 DEF Distinct
  <2>2. ASSUME NEW j \in 1 .. NumPending, Pending[j].id = n, n # Pending[1].id
        PROVE  \E i \in 1 .. NumPending' : Pending'[i].id = n
    <3>0. j # 1
      BY <2>2
    <3>1. j - 1 \in 1 .. NumPending - 1 /\ j - 1 \in 1 .. NumPending' /\ (j - 1) + 1 = j
      BY <1>1, <1>2, <2>2, <3>0
    <3>2. Pending'[j - 1] = Pending[j]
      BY <1>1, <3>1
    <3>3. QED
      BY <2>2, <3>1, <3>2
  <2>3. QED
    BY <2>1, <2>2
<1>8. PendingIdSet' = PendingIdSet \ {Pending[1].id} /\ Pending[1].id \in PendingIdSet
  BY <1>3, <1>6, <1>7 DEF Members
<1>9. QED
  BY <1>4, <1>5, <1>8

LEMMA DispatchIds ==
  ASSUME IInv, Distinct, NEW c \in Consumers, Dispatch(c)
  PROVE  /\ con_event[c].id \in HandIds
         /\ HandIds' = HandIds \ {con_event[c].id}
         /\ DeliveredIds' = DeliveredIds \cup {con_event[c].id}
         /\ OfferedIds' = OfferedIds /\ PendingIdSet' = PendingIdSet
<1>1. /\ UNCHANGED <<ringVars, con_event, pub_event, Publishing>>
      /\ c \in InHand /\ InHand' = InHand \ {c}
      /\ \A d \in Consumers : d # c => delivered'[d] = delivered[d]
      /\ Len(delivered[c]) \in Nat /\ DOMAIN delivered[c] = 1 .. Len(delivered[c])
      /\ DOMAIN delivered'[c] = 1 .. Len(delivered[c]) + 1
      /\ \A k \in 1 .. Len(delivered[c]) : delivered'[c][k] = delivered[c][k]
      /\ delivered'[c][Len(delivered[c]) + 1] = con_event[c]
  BY DispatchMoves
<1>2. Members /\ Members'
  BY MembersLemma, MembersNext
<1>3. OfferedIds' = OfferedIds
  BY <1>1 DEF OfferedIds
<1>4. PendingIdSet' = PendingIdSet
  BY <1>1 DEF PendingIdSet, PendingIds, Pending, NumPending, ringVars
<1>5. HandIds' = HandIds \ {con_event[c].id} /\ con_event[c].id \in HandIds
  BY <1>1 DEF HandIds, Distinct
<1>6. DOMAIN delivered'[c] = DOMAIN delivered[c] \cup {Len(delivered[c]) + 1}
  BY <1>1
<1>7. ASSUME NEW n
      PROVE  (\E d \in Consumers : \E k \in DOMAIN delivered'[d] : delivered'[d][k].id = n)
               <=> \/ n = con_event[c].id
                   \/ \E d \in Consumers : \E k \in DOMAIN delivered[d] : delivered[d][k].id = n
  <2>1. ASSUME NEW d \in Consumers, NEW k \in DOMAIN delivered'[d], delivered'[d][k].id = n
        PROVE  n = con_event[c].id \/ \E x \in Consumers : \E j \in DOMAIN delivered[x] : delivered[x][j].id = n
    <3>1. CASE d # c
      BY <1>1, <2>1, <3>1
    <3>2. CASE d = c /\ k = Len(delivered[c]) + 1
      BY <1>1, <2>1, <3>2
    <3>3. CASE d = c /\ k \in DOMAIN delivered[c]
      BY <1>1, <2>1, <3>3
    <3>4. QED
      BY <1>6, <2>1, <3>1, <3>2, <3>3
  <2>2. ASSUME NEW d \in Consumers, NEW k \in DOMAIN delivered[d], delivered[d][k].id = n
        PROVE  k \in DOMAIN delivered'[d] /\ delivered'[d][k].id = n
    <3>1. CASE d # c
      BY <1>1, <2>2, <3>1
    <3>2. CASE d = c
      BY <1>1, <1>6, <2>2, <3>2
    <3>3. QED
      BY <3>1, <3>2
  <2>3. Len(delivered[c]) + 1 \in DOMAIN delivered'[c] /\ delivered'[c][Len(delivered[c]) + 1].id = con_event[c].id
    BY <1>1, <1>6
  <2>4. QED
    BY <2>1, <2>2, <2>3
<1>8. DeliveredIds' = DeliveredIds \cup {con_event[c].id}
  BY <1>2, <1>7 DEF Members
<1>9. QED
  BY <1>3, <1>4, <1>5, <1>8

LEMMA QuietIds ==
  ASSUME QuietStep
  PROVE  /\ NumPending' = NumPending /\ Pending' = Pending
         /\ OfferedIds' = OfferedIds /\ PendingIdSet' = PendingIdSet
         /\ HandIds' = HandIds /\ DeliveredIds' = DeliveredIds
<1>1. NumPending' = NumPending
  BY DEF QuietStep, NumPending
<1>2. Pending' = Pending
  BY <1>1 DEF QuietStep, Pending
<1>3. PendingIdSet' = PendingIdSet
  BY <1>1, <1>2 DEF PendingIdSet, PendingIds
<1>4. OfferedIds' = OfferedIds /\ HandIds' = HandIds
  BY DEF QuietStep, OfferedIds, HandIds
<1>5. DeliveredIds' = DeliveredIds
  BY DEF QuietStep, DeliveredIds
<1>6. QED
  BY <1>1, <1>2, <1>3, <1>4, <1>5
\* What is in each place is as many as the code counts there.
Sized ==
  /\ IsFiniteSet(PendingIdSet) /\ Cardinality(PendingIdSet) = NumPending
  /\ IsFiniteSet(HandIds) /\ Cardinality(HandIds) = Cardinality(InHand)
  /\ IsFiniteSet(DeliveredIds) /\ Cardinality(DeliveredIds) = NumDelivered
  /\ IsFiniteSet(Deliveries)

\* The consumers that have delivered an event and not yet counted it.
Finishing == {c \in Consumers : con_pc[c] \in {"load", "store"}}

\* Neither the counter nor a value that a consumer is about to write back
\* leaves less room than there are deliveries still to be counted.
RoomToCount ==
  /\ processed_events + Cardinality(Finishing) <= NumDelivered
  /\ \A c \in Consumers : con_pc[c] = "store"
       => con_seen[c] + Cardinality(Finishing) <= NumDelivered

\* With the worker alone nothing is lost between its load and its store.
CountExact ==
  WorkerAlone =>
    /\ processed_events + Cardinality(Finishing) = NumDelivered
    /\ con_pc[Worker] = "store" => con_seen[Worker] = processed_events
    /\ \A f \in Flushers : con_pc[f] \notin {"load", "store"}

DInv ==
  /\ Known
  /\ Distinct
  /\ Apart
  /\ InOrder
  /\ OfferedLast
  /\ ThreadOrder
  /\ Sized
  /\ EventsAccountedFor
  /\ RoomToCount
  /\ CountExact
-----------------------------------------------------------------------------
(***************************************************************************)
(* Each step keeps the events apart and in order.                           *)
(***************************************************************************)
LEMMA KnownApartStep ==
  ASSUME IInv, Known, Distinct, Apart, [Next]_vars
  PROVE  Known' /\ Apart'
<1>0. event_id_counter \in Nat /\ MaxEvents \in Nat
  BY EventSystemAssumption DEF IInv, TypeOK
<1>1. ASSUME NEW p \in Publishers, NEW delayed \in BOOLEAN, PublishBegin(p, delayed)
      PROVE  Known' /\ Apart'
  <2>1. event_id_counter' = event_id_counter + 1 /\ event_id_counter < MaxEvents
    BY <1>1, BeginMoves DEF IInv
  <2>2. /\ OfferedIds' = OfferedIds \cup {event_id_counter + 1}
        /\ PendingIdSet' = PendingIdSet /\ HandIds' = HandIds /\ DeliveredIds' = DeliveredIds
    BY <1>1, BeginIds
  <2>3. event_id_counter + 1 \notin PlacedIds
    BY <1>0 DEF Known
  <2>4. Known'
    <3>1. event_id_counter' <= MaxEvents
      BY <1>0, <2>1
    <3>2. \A n \in 1 .. event_id_counter : n \in 1 .. event_id_counter'
      BY <1>0, <2>1
    <3>3. event_id_counter + 1 \in 1 .. event_id_counter'
      BY <1>0, <2>1
    <3>4. QED
      BY <2>2, <3>1, <3>2, <3>3 DEF Known, PlacedIds
  <2>5. Apart'
    BY <2>2, <2>3 DEF Apart, PlacedIds
  <2>6. QED
    BY <2>4, <2>5
<1>2. ASSUME NEW p \in Publishers, PublishEnqueue(p)
      PROVE  Known' /\ Apart'
  <2>1. event_id_counter' = event_id_counter
    BY <1>2, EnqueueMoves
  <2>2. /\ pub_event[p].id \in OfferedIds
        /\ OfferedIds' = OfferedIds \ {pub_event[p].id}
        /\ PendingIdSet' = (PendingIdSet \ Displaced) \cup {pub_event[p].id}
        /\ HandIds' = HandIds /\ DeliveredIds' = DeliveredIds
    BY <1>2, EnqueueIds
  <2>3. QED
    BY <2>1, <2>2 DEF Known, Apart, PlacedIds
<1>3. ASSUME NEW c \in Consumers, Dequeue(c)
      PROVE  Known' /\ Apart'
  <2>1. event_id_counter' = event_id_counter
    BY <1>3, DequeueMoves
  <2>2. /\ Pending[1].id \in PendingIdSet
        /\ PendingIdSet' = PendingIdSet \ {Pending[1].id}
        /\ HandIds' = HandIds \cup {Pending[1].id}
        /\ OfferedIds' = OfferedIds /\ DeliveredIds' = DeliveredIds
    BY <1>3, DequeueIds
  <2>3. QED
    BY <2>1, <2>2 DEF Known, Apart, PlacedIds
<1>4. ASSUME NEW c \in Consumers, Dispatch(c)
      PROVE  Known' /\ Apart'
  <2>1. event_id_counter' = event_id_counter
    BY <1>4, DispatchMoves
  <2>2. /\ con_event[c].id \in HandIds
        /\ HandIds' = HandIds \ {con_event[c].id}
        /\ DeliveredIds' = DeliveredIds \cup {con_event[c].id}
        /\ OfferedIds' = OfferedIds /\ PendingIdSet' = PendingIdSet
    BY <1>4, DispatchIds
  <2>3. QED
    BY <2>1, <2>2 DEF Known, Apart, PlacedIds
<1>5. ASSUME QuietStep
      PROVE  Known' /\ Apart'
  BY <1>5, QuietIds DEF Known, Apart, PlacedIds, QuietStep
<1>6. QED
  BY <1>1, <1>2, <1>3, <1>4, <1>5, StepKinds

\* The pending events after a step, without what has been taken off the front.
LEMMA PendingShift ==
  ASSUME IInv, [Next]_vars
  PROVE  \E d \in {0, 1} :
           /\ \/ NumPending' = NumPending - d
              \/ \E p \in Publishing :
                   /\ PublishEnqueue(p)
                   /\ NumPending' = NumPending - d + 1
                   /\ Pending'[NumPending - d + 1] = pub_event[p]
           /\ d <= NumPending
           /\ \A i \in 1 .. NumPending - d : i + d \in 1 .. NumPending /\ Pending'[i] = Pending[i + d]
<1>1. RingTypeOK /\ PendingSlotsFilled /\ NumPending \in Nat
  BY PendingFacts DEF IInv, TypeOK
<1>2. ASSUME NEW p \in Publishers, PublishEnqueue(p)
      PROVE  \E d \in {0, 1} :
               /\ p \in Publishing /\ NumPending' = NumPending - d + 1 /\ d <= NumPending
               /\ Pending'[NumPending - d + 1] = pub_event[p]
               /\ \A i \in 1 .. NumPending - d : i + d \in 1 .. NumPending /\ Pending'[i] = Pending[i + d]
  <2>1. p \in Publishing /\ pub_event[p] \in Event /\ Put(pub_event[p])
    BY <1>2, EnqueueMoves
  <2>2. CASE Full
    <3>1. /\ NumPending' = NumPending /\ NumPending >= 1
          /\ \A i \in 1 .. NumPending - 1 : Pending'[i] = Pending[i + 1]
          /\ Pending'[NumPending] = pub_event[p]
      BY <1>1, <2>1, <2>2, PutPending
    <3>2. NumPending' = NumPending - 1 + 1 /\ NumPending - 1 + 1 = NumPending /\ 1 <= NumPending
      BY <1>1, <3>1
    <3>3. \A i \in 1 .. NumPending - 1 : i + 1 \in 1 .. NumPending
      BY <1>1
    <3>4. QED
      BY <2>1, <3>1, <3>2, <3>3
  <2>3. CASE ~Full
    <3>1. /\ NumPending' = NumPending + 1
          /\ \A i \in 1 .. NumPending : Pending'[i] = Pending[i]
          /\ Pending'[NumPending + 1] = pub_event[p]
      BY <1>1, <2>1, <2>3, PutPending
    <3>2. NumPending - 0 = NumPending /\ 0 <= NumPending /\ \A i \in 1 .. NumPending : i + 0 = i
      BY <1>1
    <3>3. QED
      BY <2>1, <3>1, <3>2
  <2>4. QED
    BY <2>2, <2>3
<1>3. ASSUME NEW c \in Consumers, Dequeue(c)
      PROVE  /\ NumPending' = NumPending - 1 /\ 1 <= NumPending
             /\ \A i \in 1 .. NumPending - 1 : i + 1 \in 1 .. NumPending /\ Pending'[i] = Pending[i + 1]
  BY <1>1, <1>3, DequeueMoves
<1>4. ASSUME UNCHANGED <<NumPending, Pending>>
      PROVE  /\ NumPending' = NumPending - 0 /\ 0 <= NumPending
             /\ \A i \in 1 .. NumPending - 0 : i + 0 \in 1 .. NumPending /\ Pending'[i] = Pending[i + 0]
  BY <1>1, <1>4
<1>5. ASSUME UNCHANGED ringVars
      PROVE  UNCHANGED <<NumPending, Pending>>
  BY <1>5 DEF NumPending, Pending, ringVars
<1>6. QED
  <2>1. CASE \E p \in Publishers : PublishEnqueue(p)
    BY <1>2, <2>1
  <2>2. CASE \E c \in Consumers : Dequeue(c)
    BY <1>3, <2>2
  <2>3. CASE UNCHANGED ringVars
    BY <1>4, <1>5, <2>3
  <2>4. QED
    BY <2>1, <2>2, <2>3, RingSteps

\* Where a place's events were before the step.
LEMMA PendingNext ==
  ASSUME IInv, [Next]_vars
  PROVE  \E d \in {0, 1} : \A i \in 1 .. NumPending' :
           \/ i + d \in 1 .. NumPending /\ Pending'[i] = Pending[i + d]
           \/ /\ i = NumPending'
              /\ \E p \in Publishing : p \notin Publishing' /\ Pending'[i] = pub_event[p]
<1>0. NumPending \in Nat
  BY PendingFacts DEF IInv, TypeOK
<1>1. PICK d \in {0, 1} :
           /\ \/ NumPending' = NumPending - d
              \/ \E p \in Publishing :
                   /\ PublishEnqueue(p)
                   /\ NumPending' = NumPending - d + 1
                   /\ Pending'[NumPending - d + 1] = pub_event[p]
           /\ d <= NumPending
           /\ \A i \in 1 .. NumPending - d : i + d \in 1 .. NumPending /\ Pending'[i] = Pending[i + d]
  BY PendingShift
<1>2. CASE NumPending' = NumPending - d
  BY <1>1, <1>2
<1>3. ASSUME NEW p \in Publishing, PublishEnqueue(p), NumPending' = NumPending - d + 1,
             Pending'[NumPending - d + 1] = pub_event[p]
      PROVE  \A i \in 1 .. NumPending' :
               \/ i + d \in 1 .. NumPending /\ Pending'[i] = Pending[i + d]
               \/ i = NumPending' /\ p \notin Publishing' /\ Pending'[i] = pub_event[p]
  <2>1. p \notin Publishing'
    BY <1>3, EnqueueMoves DEF Publishing
  <2>2. \A i \in 1 .. NumPending' : i = NumPending' \/ i \in 1 .. NumPending - d
    BY <1>0, <1>1, <1>3
  <2>3. QED
    BY <1>1, <1>3, <2>1, <2>2
<1>4. QED
  BY <1>1, <1>2, <1>3

LEMMA HandNext ==
  ASSUME IInv, [Next]_vars, NEW c \in InHand'
  PROVE  \/ c \in InHand /\ con_event'[c] = con_event[c]
         \/ c \in Consumers \ InHand /\ Dequeue(c) /\ con_event'[c] = Pending[1]
<1>1. c \in Consumers /\ TypeOK
  BY DEF InHand, IInv
<1>2. ASSUME NEW d \in Consumers, Dequeue(d)
      PROVE  \/ c \in InHand /\ con_event'[c] = con_event[c]
             \/ c \notin InHand /\ c = d /\ con_event'[c] = Pending[1]
  BY <1>2, DequeueMoves
<1>3. ASSUME NEW d \in Consumers, Dispatch(d)
      PROVE  c \in InHand /\ con_event'[c] = con_event[c]
  BY <1>3, DispatchMoves
<1>4. ASSUME NEW p \in Publishers, PublishEnqueue(p)
      PROVE  c \in InHand /\ con_event'[c] = con_event[c]
  BY <1>4, EnqueueMoves
<1>5. ASSUME NEW p \in Publishers, NEW delayed \in BOOLEAN, PublishBegin(p, delayed)
      PROVE  c \in InHand /\ con_event'[c] = con_event[c]
  BY <1>1, <1>5, BeginMoves
<1>6. ASSUME QuietStep
      PROVE  c \in InHand /\ con_event'[c] = con_event[c]
  BY <1>6 DEF QuietStep
<1>7. QED
  BY <1>1, <1>2, <1>3, <1>4, <1>5, <1>6, StepKinds

LEMMA PublishingNext ==
  ASSUME IInv, [Next]_vars, NEW p \in Publishing'
  PROVE  \/ p \in Publishing /\ pub_event'[p] = pub_event[p]
         \/ /\ \E delayed \in BOOLEAN : PublishBegin(p, delayed)
            /\ p \in Publishers \ Publishing
            /\ pub_event'[p] = [id |-> event_id_counter + 1, thread |-> p]
            /\ \A q \in Publishing' : q # p => q \in Publishing
<1>1. p \in Publishers /\ TypeOK
  BY DEF Publishing, IInv
<1>2. ASSUME NEW d \in Consumers, Dequeue(d)
      PROVE  p \in Publishing /\ pub_event'[p] = pub_event[p]
  BY <1>2, DequeueMoves
<1>3. ASSUME NEW d \in Consumers, Dispatch(d)
      PROVE  p \in Publishing /\ pub_event'[p] = pub_event[p]
  BY <1>3, DispatchMoves
<1>4. ASSUME NEW q \in Publishers, PublishEnqueue(q)
      PROVE  p \in Publishing /\ pub_event'[p] = pub_event[p]
  BY <1>4, EnqueueMoves
<1>5. ASSUME NEW q \in Publishers, NEW delayed \in BOOLEAN, PublishBegin(q, delayed)
      PROVE  \/ p \in Publishing /\ pub_event'[p] = pub_event[p]
             \/ /\ p = q /\ p \notin Publishing
                /\ pub_event'[p] = [id |-> event_id_counter + 1, thread |-> p]
                /\ \A r \in Publishing' : r # p => r \in Publishing
  <2>1. /\ q \notin Publishing /\ Publishing' = Publishing \cup {q}
        /\ pub_event'[q] = [id |-> event_id_counter + 1, thread |-> q]
        /\ \A r \in Publishing : pub_event'[r] = pub_event[r]
    BY <1>1, <1>5, BeginMoves
  <2>2. CASE p = q
    BY <2>1, <2>2
  <2>3. CASE p # q
    BY <2>1, <2>3
  <2>4. QED
    BY <2>2, <2>3
<1>6. ASSUME QuietStep
      PROVE  p \in Publishing /\ pub_event'[p] = pub_event[p]
  BY <1>6 DEF QuietStep
<1>7. QED
  BY <1>1, <1>2, <1>3, <1>4, <1>5, <1>6, StepKinds

LEMMA DeliveredNext ==
  ASSUME IInv, [Next]_vars, NEW c \in Consumers
  PROVE  /\ Len(delivered[c]) \in Nat /\ DOMAIN delivered[c] = 1 .. Len(delivered[c])
         /\ \A k \in DOMAIN delivered'[c] :
              \/ k \in DOMAIN delivered[c] /\ delivered'[c][k] = delivered[c][k]
              \/ /\ c \in InHand /\ c \notin InHand' /\ k = Len(delivered[c]) + 1
                 /\ DOMAIN delivered'[c] = 1 .. Len(delivered[c]) + 1
                 /\ delivered'[c][k] = con_event[c]
<1>1. TypeOK
  BY DEF IInv
<1>2. Len(delivered[c]) \in Nat /\ DOMAIN delivered[c] = 1 .. Len(delivered[c])
  BY <1>1 DEF TypeOK
<1>3. ASSUME NEW d \in Consumers, Dispatch(d)
      PROVE  \A k \in DOMAIN delivered'[c] :
              \/ k \in DOMAIN delivered[c] /\ delivered'[c][k] = delivered[c][k]
              \/ /\ c \in InHand /\ c \notin InHand' /\ k = Len(delivered[c]) + 1
                 /\ DOMAIN delivered'[c] = 1 .. Len(delivered[c]) + 1
                 /\ delivered'[c][k] = con_event[c]
  <2>1. CASE c # d
    BY <1>3, <2>1, DispatchMoves
  <2>2. CASE c = d
    <3>1. /\ c \in InHand /\ c \notin InHand'
          /\ DOMAIN delivered'[c] = 1 .. Len(delivered[c]) + 1
          /\ \A k \in 1 .. Len(delivered[c]) : delivered'[c][k] = delivered[c][k]
          /\ delivered'[c][Len(delivered[c]) + 1] = con_event[c]
      BY <1>3, <2>2, DispatchMoves
    <3>2. \A k \in 1 .. Len(delivered[c]) + 1 : k = Len(delivered[c]) + 1 \/ k \in 1 .. Len(delivered[c])
      BY <1>2
    <3>3. QED
      BY <1>2, <3>1, <3>2
  <2>3. QED
    BY <2>1, <2>2
<1>4. ASSUME NEW d \in Consumers, Dequeue(d)
      PROVE  delivered' = delivered
  BY <1>4, DequeueMoves
<1>5. ASSUME NEW p \in Publishers, PublishEnqueue(p)
      PROVE  delivered' = delivered
  BY <1>5, EnqueueMoves
<1>6. ASSUME NEW p \in Publishers, NEW delayed \in BOOLEAN, PublishBegin(p, delayed)
      PROVE  delivered' = delivered
  BY <1>1, <1>6, BeginMoves
<1>7. ASSUME QuietStep
      PROVE  delivered' = delivered
  BY <1>7 DEF QuietStep
<1>8. QED
  BY <1>2, <1>3, <1>4, <1>5, <1>6, <1>7, StepKinds

LEMMA DistinctStep ==
  ASSUME IInv, Known, Distinct, Apart, [Next]_vars
  PROVE  Distinct'
<1>0. Members /\ event_id_counter \in Nat
  BY MembersLemma DEF IInv, TypeOK
<1>1. \A i \in 1 .. NumPending, p \in Publishing : Pending[i].id # pub_event[p].id
  BY <1>0 DEF Members, Apart, PlacedIds
<1>2. \A c \in InHand, i \in 1 .. NumPending : con_event[c].id # Pending[i].id
  BY <1>0 DEF Members, Apart
<1>3. \A p \in Publishing : pub_event[p].id # event_id_counter + 1
  <2>1. \A p \in Publishing : pub_event[p].id \in 1 .. event_id_counter
    BY <1>0 DEF Members, Known
  <2>2. event_id_counter + 1 \notin 1 .. event_id_counter
    BY <1>0
  <2>3. QED
    BY <2>1, <2>2
<1>4. ASSUME NEW i \in 1 .. NumPending', NEW j \in 1 .. NumPending', Pending'[i].id = Pending'[j].id
      PROVE  i = j
  <2>1. PICK d \in {0, 1} : \A k \in 1 .. NumPending' :
           \/ k + d \in 1 .. NumPending /\ Pending'[k] = Pending[k + d]
           \/ /\ k = NumPending'
              /\ \E p \in Publishing : p \notin Publishing' /\ Pending'[k] = pub_event[p]
    BY PendingNext
  <2>2. CASE i + d \in 1 .. NumPending /\ j + d \in 1 .. NumPending
              /\ Pending'[i] = Pending[i + d] /\ Pending'[j] = Pending[j + d]
    <3>1. i + d = j + d
      BY <1>4, <2>2 DEF Distinct
    <3>2. QED
      BY <3>1
  <2>3. QED
    BY <1>1, <1>4, <2>1, <2>2
<1>5. ASSUME NEW c \in InHand', NEW d \in InHand', con_event'[c].id = con_event'[d].id
      PROVE  c = d
  <2>1. ASSUME NEW e \in Consumers, Dequeue(e)
        PROVE  /\ 1 \in 1 .. NumPending /\ e \notin InHand /\ InHand' = InHand \cup {e}
               /\ con_event'[e] = Pending[1]
               /\ \A a \in InHand : con_event'[a] = con_event[a]
    <3>1. NumPending >= 1 /\ NumPending \in Nat
      BY <2>1, DequeueMoves, PendingFacts DEF IInv, TypeOK
    <3>2. QED
      BY <2>1, <3>1, DequeueMoves
  <2>2. CASE \E e \in Consumers : Dequeue(e)
    BY <1>2, <1>5, <2>1, <2>2 DEF Distinct
  <2>3. CASE ~\E e \in Consumers : Dequeue(e)
    BY <1>5, <2>3, HandNext DEF Distinct
  <2>4. QED
    BY <2>2, <2>3
<1>6. ASSUME NEW p \in Publishing', NEW q \in Publishing', pub_event'[p].id = pub_event'[q].id
      PROVE  p = q
  <2>1. CASE p \in Publishing /\ q \in Publishing
    BY <1>6, <2>1, PublishingNext DEF Distinct
  <2>2. CASE p \notin Publishing
    <3>1. /\ pub_event'[p] = [id |-> event_id_counter + 1, thread |-> p]
          /\ \A r \in Publishing' : r # p => r \in Publishing
      BY <2>2, PublishingNext
    <3>2. q # p => q \in Publishing /\ pub_event'[q] = pub_event[q]
      BY <3>1, PublishingNext
    <3>3. QED
      BY <1>3, <1>6, <3>1, <3>2
  <2>3. CASE q \notin Publishing
    <3>1. /\ pub_event'[q] = [id |-> event_id_counter + 1, thread |-> q]
          /\ \A r \in Publishing' : r # q => r \in Publishing
      BY <2>3, PublishingNext
    <3>2. q # p => p \in Publishing /\ pub_event'[p] = pub_event[p]
      BY <3>1, PublishingNext
    <3>3. QED
      BY <1>3, <1>6, <3>1, <3>2
  <2>4. QED
    BY <2>1, <2>2, <2>3
<1>7. QED
  BY <1>4, <1>5, <1>6 DEF Distinct

LEMMA InOrderStep ==
  ASSUME IInv, InOrder, OfferedLast, [Next]_vars
  PROVE  InOrder'
<1>0. NumPending \in Nat
  BY PendingFacts DEF IInv, TypeOK
<1>1. PICK d \in {0, 1} : \A k \in 1 .. NumPending' :
           \/ k + d \in 1 .. NumPending /\ Pending'[k] = Pending[k + d]
           \/ /\ k = NumPending'
              /\ \E p \in Publishing : p \notin Publishing' /\ Pending'[k] = pub_event[p]
  BY PendingNext
<1>2. ASSUME NEW i \in 1 .. NumPending', NEW j \in 1 .. NumPending', i < j,
             Pending'[i].thread = Pending'[j].thread
      PROVE  Pending'[i].id < Pending'[j].id
  <2>1. i + d \in 1 .. NumPending /\ Pending'[i] = Pending[i + d]
    <3>1. i # NumPending'
      BY <1>2
    <3>2. QED
      BY <1>1, <3>1
  <2>2. CASE j + d \in 1 .. NumPending /\ Pending'[j] = Pending[j + d]
    <3>1. i + d < j + d
      BY <1>2
    <3>2. QED
      BY <1>2, <2>1, <2>2, <3>1 DEF InOrder
  <2>3. ASSUME NEW p \in Publishing, Pending'[j] = pub_event[p]
        PROVE  Pending'[i].id < Pending'[j].id
    BY <1>2, <2>1, <2>3 DEF OfferedLast
  <2>4. QED
    BY <1>1, <2>2, <2>3
<1>3. ASSUME NEW c \in Consumers, NEW k \in DOMAIN delivered'[c], NEW i \in 1 .. NumPending',
             delivered'[c][k].thread = Pending'[i].thread
      PROVE  delivered'[c][k].id < Pending'[i].id
  <2>1. \/ k \in DOMAIN delivered[c] /\ delivered'[c][k] = delivered[c][k]
        \/ c \in InHand /\ delivered'[c][k] = con_event[c]
    BY DeliveredNext
  <2>2. CASE i + d \in 1 .. NumPending /\ Pending'[i] = Pending[i + d]
    BY <1>3, <2>1, <2>2 DEF InOrder
  <2>3. ASSUME NEW p \in Publishing, Pending'[i] = pub_event[p]
        PROVE  delivered'[c][k].id < Pending'[i].id
    BY <1>3, <2>1, <2>3 DEF OfferedLast
  <2>4. QED
    BY <1>1, <2>2, <2>3
<1>4. ASSUME NEW c \in Consumers, c \in InHand', Dequeue(c)
      PROVE  /\ 1 \in 1 .. NumPending /\ con_event'[c] = Pending[1] /\ delivered' = delivered
             /\ \A i \in 1 .. NumPending' : i + 1 \in 1 .. NumPending /\ 1 < i + 1 /\ Pending'[i] = Pending[i + 1]
  <2>1. /\ NumPending >= 1 /\ NumPending' = NumPending - 1 /\ delivered' = delivered
        /\ con_event'[c] = Pending[1]
        /\ \A i \in 1 .. NumPending - 1 : Pending'[i] = Pending[i + 1]
    BY <1>4, DequeueMoves
  <2>2. QED
    BY <1>0, <2>1
<1>5. ASSUME NEW c \in Consumers, NEW k \in DOMAIN delivered'[c],
             c \in InHand', delivered'[c][k].thread = con_event'[c].thread
      PROVE  delivered'[c][k].id < con_event'[c].id
  <2>1. k \in DOMAIN delivered[c] /\ delivered'[c][k] = delivered[c][k]
    BY <1>5, DeliveredNext
  <2>2. CASE Dequeue(c)
    BY <1>4, <1>5, <2>1, <2>2 DEF InOrder
  <2>3. CASE c \in InHand /\ con_event'[c] = con_event[c]
    BY <1>5, <2>1, <2>3 DEF InOrder
  <2>4. QED
    BY <1>5, <2>2, <2>3, HandNext
<1>6. ASSUME NEW c \in InHand', NEW i \in 1 .. NumPending', con_event'[c].thread = Pending'[i].thread
      PROVE  con_event'[c].id < Pending'[i].id
  <2>1. CASE c \in Consumers /\ Dequeue(c)
    BY <1>4, <1>6, <2>1 DEF InOrder
  <2>2. CASE c \in InHand /\ con_event'[c] = con_event[c]
    <3>1. CASE i + d \in 1 .. NumPending /\ Pending'[i] = Pending[i + d]
      BY <1>6, <2>2, <3>1 DEF InOrder
    <3>2. ASSUME NEW p \in Publishing, Pending'[i] = pub_event[p]
          PROVE  con_event'[c].id < Pending'[i].id
      BY <1>6, <2>2, <3>2 DEF OfferedLast
    <3>3. QED
      BY <1>1, <3>1, <3>2
  <2>3. QED
    BY <1>6, <2>1, <2>2, HandNext
<1>7. QED
  BY <1>2, <1>3, <1>5, <1>6 DEF InOrder

LEMMA OfferedLastStep ==
  ASSUME IInv, Known, InOrder, OfferedLast, [Next]_vars
  PROVE  OfferedLast'
<1>0. NumPending \in Nat /\ Members /\ event_id_counter \in Nat /\ TypeOK
  BY PendingFacts, MembersLemma DEF IInv, TypeOK
<1>1. SUFFICES ASSUME NEW p \in Publishing'
               PROVE  /\ pub_event'[p].thread = p
                      /\ \A i \in 1 .. NumPending' : Pending'[i].thread = p
                           => Pending'[i].id < pub_event'[p].id
                      /\ \A c \in InHand' : con_event'[c].thread = p
                           => con_event'[c].id < pub_event'[p].id
                      /\ \A c \in Consumers : \A k \in DOMAIN delivered'[c] :
                           delivered'[c][k].thread = p => delivered'[c][k].id < pub_event'[p].id
  BY DEF OfferedLast
<1>2. CASE p \in Publishing /\ pub_event'[p] = pub_event[p]
  <2>1. PICK d \in {0, 1} : \A k \in 1 .. NumPending' :
           \/ k + d \in 1 .. NumPending /\ Pending'[k] = Pending[k + d]
           \/ /\ k = NumPending'
              /\ \E q \in Publishing : q \notin Publishing' /\ Pending'[k] = pub_event[q]
    BY PendingNext
  <2>2. \A i \in 1 .. NumPending' : Pending'[i].thread = p => Pending'[i].id < pub_event'[p].id
    BY <1>1, <1>2, <2>1 DEF OfferedLast
  <2>3. ASSUME NEW c \in InHand', con_event'[c].thread = p
        PROVE  con_event'[c].id < pub_event'[p].id
    <3>1. CASE c \in InHand /\ con_event'[c] = con_event[c]
      BY <1>2, <2>3, <3>1 DEF OfferedLast
    <3>2. CASE c \in Consumers /\ Dequeue(c)
      <4>1. con_event'[c] = Pending[1] /\ NumPending >= 1
        BY <3>2, DequeueMoves
      <4>2. 1 \in 1 .. NumPending
        BY <1>0, <4>1
      <4>3. QED
        BY <1>2, <2>3, <4>1, <4>2 DEF OfferedLast
    <3>3. QED
      BY <2>3, <3>1, <3>2, HandNext
  <2>4. ASSUME NEW c \in Consumers, NEW k \in DOMAIN delivered'[c], delivered'[c][k].thread = p
        PROVE  delivered'[c][k].id < pub_event'[p].id
    <3>1. \/ k \in DOMAIN delivered[c] /\ delivered'[c][k] = delivered[c][k]
          \/ c \in InHand /\ delivered'[c][k] = con_event[c]
      BY DeliveredNext
    <3>2. QED
      BY <1>2, <2>4, <3>1 DEF OfferedLast
  <2>5. QED
    BY <1>2, <2>2, <2>3, <2>4 DEF OfferedLast
<1>3. ASSUME NEW delayed \in BOOLEAN, PublishBegin(p, delayed), p \in Publishers,
             pub_event'[p] = [id |-> event_id_counter + 1, thread |-> p]
      PROVE  /\ pub_event'[p].thread = p
             /\ \A i \in 1 .. NumPending' : Pending'[i].id < pub_event'[p].id
             /\ \A c \in InHand' : con_event'[c].id < pub_event'[p].id
             /\ \A c \in Consumers : \A k \in DOMAIN delivered'[c] : delivered'[c][k].id < pub_event'[p].id
  <2>1. pub_event'[p].thread = p /\ pub_event'[p].id = event_id_counter + 1
    BY <1>3
  <2>2. UNCHANGED <<ringVars, delivered, con_event, InHand>>
    BY <1>0, <1>3, BeginMoves
  <2>3. NumPending' = NumPending
    BY <2>2 DEF NumPending, ringVars
  <2>4. Pending' = Pending
    BY <2>2, <2>3 DEF Pending, ringVars
  <2>5. \A n \in PlacedIds : n < event_id_counter + 1
    BY <1>0 DEF Known
  <2>6. /\ \A i \in 1 .. NumPending : Pending[i].id \in PlacedIds
        /\ \A c \in InHand : con_event[c].id \in PlacedIds
        /\ \A c \in Consumers : \A k \in DOMAIN delivered[c] : delivered[c][k].id \in PlacedIds
    BY <1>0 DEF Members, PlacedIds
  <2>7. QED
    BY <2>1, <2>2, <2>3, <2>4, <2>5, <2>6
<1>4. QED
  BY <1>2, <1>3, PublishingNext

LEMMA ThreadOrderStep ==
  ASSUME IInv, InOrder, ThreadOrder, [Next]_vars
  PROVE  ThreadOrder'
<1>1. ASSUME NEW c \in Consumers, NEW j \in DOMAIN delivered'[c], NEW i \in 1 .. j - 1,
             delivered'[c][i].thread = delivered'[c][j].thread
      PROVE  delivered'[c][i].id < delivered'[c][j].id
  <2>1. Len(delivered[c]) \in Nat /\ DOMAIN delivered[c] = 1 .. Len(delivered[c])
    BY DeliveredNext
  <2>2. CASE j \in DOMAIN delivered[c] /\ delivered'[c][j] = delivered[c][j]
    <3>1. i \in DOMAIN delivered[c] /\ i \in DOMAIN delivered'[c] /\ i # Len(delivered[c]) + 1
      <4>1. i \in 1 .. Len(delivered[c]) /\ i # Len(delivered[c]) + 1
        BY <2>1, <2>2
      <4>2. TypeOK'
        BY TypeOKStep
      <4>3. delivered'[c] \in Seq(Event)
        BY <4>2 DEF TypeOK
      <4>4. DOMAIN delivered'[c] = 1 .. Len(delivered'[c]) /\ Len(delivered'[c]) \in Nat
        BY <4>3
      <4>5. i \in 1 .. Len(delivered'[c])
        BY <4>4
      <4>6. QED
        BY <2>1, <4>1, <4>4, <4>5
    <3>2. delivered'[c][i] = delivered[c][i]
      BY <3>1, DeliveredNext
    <3>3. QED
      BY <1>1, <2>2, <3>2 DEF ThreadOrder
  <2>3. CASE /\ c \in InHand /\ j = Len(delivered[c]) + 1
             /\ DOMAIN delivered'[c] = 1 .. Len(delivered[c]) + 1
             /\ delivered'[c][j] = con_event[c]
    <3>1. /\ i \in DOMAIN delivered[c] /\ i \in DOMAIN delivered'[c]
          /\ i # Len(delivered[c]) + 1
      BY <2>1, <2>3
    <3>2. delivered'[c][i] = delivered[c][i]
      BY <3>1, DeliveredNext
    <3>3. QED
      BY <1>1, <2>3, <3>1, <3>2 DEF InOrder
  <2>4. QED
    BY <2>2, <2>3, DeliveredNext
<1>2. QED
  BY <1>1 DEF ThreadOrder
-----------------------------------------------------------------------------
(***************************************************************************)
(* Each step keeps the count of every place.                                *)
(***************************************************************************)
LEMMA FiniteConsumers ==
  /\ IsFiniteSet(Consumers) /\ IsFiniteSet(InHand) /\ IsFiniteSet(Finishing)
  /\ IsFiniteSet(InHand') /\ IsFiniteSet(Finishing')
<1>1. IsFiniteSet(Consumers)
  BY FS_AddElement, EventSystemAssumption DEF Consumers
<1>2. InHand \subseteq Consumers /\ Finishing \subseteq Consumers
  BY DEF InHand, Finishing
<1>3. InHand' \subseteq Consumers /\ Finishing' \subseteq Consumers
  BY DEF InHand, Finishing
<1>4. QED
  BY <1>1, <1>2, <1>3, FS_Subset

\* A consumer delivers one event at a time.
LEMMA DispatchCounts ==
  ASSUME IInv, IsFiniteSet(Deliveries), NEW c \in Consumers, Dispatch(c)
  PROVE  /\ IsFiniteSet(Deliveries') /\ NumDelivered \in Nat /\ NumDelivered' = NumDelivered + 1
<1> DEFINE n == Len(delivered[c]) + 1
<1>1. /\ \A d \in Consumers : d # c => delivered'[d] = delivered[d]
      /\ Len(delivered[c]) \in Nat /\ DOMAIN delivered[c] = 1 .. Len(delivered[c])
      /\ DOMAIN delivered'[c] = 1 .. n
  BY DispatchMoves
<1>2. n \notin DOMAIN delivered[c] /\ DOMAIN delivered'[c] = DOMAIN delivered[c] \cup {n}
  BY <1>1
<1>3. <<c, n>> \notin Deliveries
  BY <1>2 DEF Deliveries
<1>4. Deliveries' = Deliveries \cup {<<c, n>>}
  <2>1. \A d \in Consumers : DOMAIN delivered'[d] = DOMAIN delivered[d] \cup (IF d = c THEN {n} ELSE {})
    BY <1>1, <1>2
  <2> HIDE DEF n
  <2>2. \A x : x \in Deliveries' <=>
          \E d \in Consumers : \E k \in DOMAIN delivered'[d] : x = <<d, k>>
    BY DEF Deliveries
  <2>3. \A x : x \in Deliveries <=>
          \E d \in Consumers : \E k \in DOMAIN delivered[d] : x = <<d, k>>
    BY DEF Deliveries
  <2>4. \A x : x \in Deliveries' <=> x \in Deliveries \/ x = <<c, n>>
    BY <2>1, <2>2, <2>3
  <2>5. QED
    BY <2>4
<1> HIDE DEF n
<1>5. QED
  BY <1>3, <1>4, FS_AddElement, FS_CardinalityType DEF NumDelivered

LEMMA DeliveriesSame == delivered' = delivered => Deliveries' = Deliveries /\ NumDelivered' = NumDelivered
BY DEF Deliveries, NumDelivered

LEMMA SizedStep ==
  ASSUME IInv, Known, Distinct, Apart, Sized, [Next]_vars
  PROVE  Sized'
<1>0. NumPending \in Nat
  BY PendingFacts DEF IInv, TypeOK
<1>1. IsFiniteSet(InHand)
  BY FiniteConsumers
<1>2. ASSUME NEW p \in Publishers, NEW delayed \in BOOLEAN, PublishBegin(p, delayed)
      PROVE  Sized'
  <2>1. UNCHANGED <<ringVars, delivered, InHand>>
    BY <1>2, BeginMoves DEF IInv
  <2>2. NumPending' = NumPending
    BY <2>1 DEF NumPending, ringVars
  <2>3. PendingIdSet' = PendingIdSet /\ HandIds' = HandIds /\ DeliveredIds' = DeliveredIds
    BY <1>2, BeginIds
  <2>4. QED
    BY <2>1, <2>2, <2>3, DeliveriesSame DEF Sized
<1>3. ASSUME NEW p \in Publishers, PublishEnqueue(p)
      PROVE  Sized'
  <2>1. /\ UNCHANGED <<delivered, InHand>>
        /\ pub_event[p] \in Event /\ Put(pub_event[p])
    BY <1>3, EnqueueMoves
  <2>2. /\ pub_event[p].id \in OfferedIds
        /\ Displaced \subseteq PendingIdSet
        /\ PendingIdSet' = (PendingIdSet \ Displaced) \cup {pub_event[p].id}
        /\ HandIds' = HandIds /\ DeliveredIds' = DeliveredIds
    BY <1>3, EnqueueIds
  <2>3. pub_event[p].id \notin PendingIdSet
    BY <2>2 DEF Apart, PlacedIds
  <2>4. NumPending' = IF Full THEN NumPending ELSE NumPending + 1
    BY <2>1, PutLemma DEF IInv, TypeOK
  <2>5. IsFiniteSet(PendingIdSet') /\ Cardinality(PendingIdSet') = NumPending'
    <3>1. IsFiniteSet(PendingIdSet) /\ Cardinality(PendingIdSet) = NumPending
      BY DEF Sized
    <3>2. CASE Full
      <4>1. Displaced = {Pending[1].id}
        BY <3>2 DEF Displaced
      <4> DEFINE S == PendingIdSet \ {Pending[1].id}
      <4>2. IsFiniteSet(S) /\ Cardinality(S) = NumPending - 1
        BY <2>2, <3>1, <4>1, FS_RemoveElement
      <4>3. pub_event[p].id \notin S /\ PendingIdSet' = S \cup {pub_event[p].id}
        BY <2>2, <2>3, <4>1
      <4> HIDE DEF S
      <4>4. IsFiniteSet(PendingIdSet') /\ Cardinality(PendingIdSet') = NumPending - 1 + 1
        BY <4>2, <4>3, FS_AddElement
      <4>5. QED
        BY <1>0, <2>4, <3>2, <4>4
    <3>3. CASE ~Full
      <4>1. PendingIdSet' = PendingIdSet \cup {pub_event[p].id}
        BY <2>2, <3>3 DEF Displaced
      <4>2. IsFiniteSet(PendingIdSet') /\ Cardinality(PendingIdSet') = NumPending + 1
        BY <2>3, <3>1, <4>1, FS_AddElement
      <4>3. QED
        BY <2>4, <3>3, <4>2
    <3>4. QED
      BY <3>2, <3>3
  <2>6. QED
    BY <2>1, <2>2, <2>5, DeliveriesSame DEF Sized
<1>4. ASSUME NEW c \in Consumers, Dequeue(c)
      PROVE  Sized'
  <2>1. /\ delivered' = delivered /\ c \notin InHand /\ InHand' = InHand \cup {c}
        /\ NumPending' = NumPending - 1
    BY <1>4, DequeueMoves
  <2>2. /\ Pending[1].id \in PendingIdSet
        /\ PendingIdSet' = PendingIdSet \ {Pending[1].id}
        /\ HandIds' = HandIds \cup {Pending[1].id}
        /\ DeliveredIds' = DeliveredIds
    BY <1>4, DequeueIds
  <2>3. Pending[1].id \notin HandIds
    BY <2>2 DEF Apart
  <2>4. IsFiniteSet(PendingIdSet') /\ Cardinality(PendingIdSet') = NumPending'
    BY <2>1, <2>2, FS_RemoveElement DEF Sized
  <2>5. IsFiniteSet(HandIds') /\ Cardinality(HandIds') = Cardinality(HandIds) + 1
    BY <2>2, <2>3, FS_AddElement DEF Sized
  <2>6. Cardinality(InHand') = Cardinality(InHand) + 1
    BY <1>1, <2>1, FS_AddElement
  <2>7. QED
    BY <2>1, <2>2, <2>4, <2>5, <2>6, DeliveriesSame DEF Sized
<1>5. ASSUME NEW c \in Consumers, Dispatch(c)
      PROVE  Sized'
  <2>1. ringVars' = ringVars /\ c \in InHand /\ InHand' = InHand \ {c}
    BY <1>5, DispatchMoves
  <2>2. NumPending' = NumPending
    BY <2>1 DEF NumPending, ringVars
  <2>3. /\ con_event[c].id \in HandIds
        /\ HandIds' = HandIds \ {con_event[c].id}
        /\ DeliveredIds' = DeliveredIds \cup {con_event[c].id}
        /\ PendingIdSet' = PendingIdSet
    BY <1>5, DispatchIds
  <2>4. con_event[c].id \notin DeliveredIds
    BY <2>3 DEF Apart
  <2>5. IsFiniteSet(Deliveries') /\ NumDelivered \in Nat /\ NumDelivered' = NumDelivered + 1
    BY <1>5, DispatchCounts DEF Sized
  <2>6. IsFiniteSet(DeliveredIds') /\ Cardinality(DeliveredIds') = Cardinality(DeliveredIds) + 1
    BY <2>3, <2>4, FS_AddElement DEF Sized
  <2>7. IsFiniteSet(HandIds') /\ Cardinality(HandIds') = Cardinality(HandIds) - 1
    BY <2>3, FS_RemoveElement DEF Sized
  <2>8. Cardinality(InHand') = Cardinality(InHand) - 1
    BY <1>1, <2>1, FS_RemoveElement
  <2>9. QED
    BY <2>2, <2>3, <2>5, <2>6, <2>7, <2>8 DEF Sized
<1>6. ASSUME QuietStep
      PROVE  Sized'
  <2>1. delivered' = delivered /\ InHand' = InHand
    BY <1>6 DEF QuietStep
  <2>2. QED
    BY <1>6, <2>1, QuietIds, DeliveriesSame DEF Sized
<1>7. QED
  BY <1>2, <1>3, <1>4, <1>5, <1>6, StepKinds

LEMMA AccountsStep ==
  ASSUME IInv, Sized, EventsAccountedFor, [Next]_vars
  PROVE  EventsAccountedFor'
<1>0. /\ NumPending \in Nat /\ dropped_events \in Nat /\ NumDelivered \in Nat
      /\ RingTypeOK /\ TypeOK /\ total_events \in Nat
  BY PendingFacts, FS_CardinalityType DEF IInv, TypeOK, RingTypeOK, Sized, NumDelivered
<1>1. IsFiniteSet(InHand) /\ Cardinality(InHand) \in Nat
  BY FiniteConsumers, FS_CardinalityType
<1>2. ASSUME NEW p \in Publishers, NEW delayed \in BOOLEAN, PublishBegin(p, delayed)
      PROVE  EventsAccountedFor'
  <2>1. UNCHANGED <<ringVars, delivered, InHand>>
    BY <1>0, <1>2, BeginMoves
  <2>2. NumPending' = NumPending
    BY <2>1 DEF NumPending, ringVars
  <2>3. QED
    BY <2>1, <2>2, DeliveriesSame DEF EventsAccountedFor, ringVars
<1>3. ASSUME NEW p \in Publishers, PublishEnqueue(p)
      PROVE  EventsAccountedFor'
  <2>1. UNCHANGED <<delivered, InHand>> /\ pub_event[p] \in Event /\ Put(pub_event[p])
    BY <1>3, EnqueueMoves
  <2>2. /\ NumPending' = IF Full THEN NumPending ELSE NumPending + 1
        /\ dropped_events' = IF Full THEN dropped_events + 1 ELSE dropped_events
    BY <1>0, <2>1, PutLemma
  <2>3. total_events' = total_events + 1
    BY <2>1 DEF Put
  <2>4. NumDelivered' = NumDelivered /\ Cardinality(InHand') = Cardinality(InHand)
    BY <2>1, DeliveriesSame
  <2>5. QED
    BY <1>0, <1>1, <2>2, <2>3, <2>4 DEF EventsAccountedFor
<1>4. ASSUME NEW c \in Consumers, Dequeue(c)
      PROVE  EventsAccountedFor'
  <2>1. /\ UNCHANGED <<delivered, total_events, dropped_events>>
        /\ c \notin InHand /\ InHand' = InHand \cup {c} /\ NumPending' = NumPending - 1
    BY <1>4, DequeueMoves
  <2>2. Cardinality(InHand') = Cardinality(InHand) + 1
    BY <1>1, <2>1, FS_AddElement
  <2>3. NumDelivered' = NumDelivered
    BY <2>1, DeliveriesSame
  <2>4. QED
    BY <1>0, <1>1, <2>1, <2>2, <2>3 DEF EventsAccountedFor
<1>5. ASSUME NEW c \in Consumers, Dispatch(c)
      PROVE  EventsAccountedFor'
  <2>1. UNCHANGED ringVars /\ c \in InHand /\ InHand' = InHand \ {c}
    BY <1>5, DispatchMoves
  <2>2. NumPending' = NumPending
    BY <2>1 DEF NumPending, ringVars
  <2>3. Cardinality(InHand') = Cardinality(InHand) - 1
    BY <1>1, <2>1, FS_RemoveElement
  <2>4. NumDelivered' = NumDelivered + 1
    BY <1>5, DispatchCounts DEF Sized
  <2>5. total_events' = total_events /\ dropped_events' = dropped_events
    BY <2>1 DEF ringVars
  <2>6. QED
    BY <1>0, <1>1, <2>2, <2>3, <2>4, <2>5 DEF EventsAccountedFor
<1>6. ASSUME QuietStep
      PROVE  EventsAccountedFor'
  BY <1>6, QuietIds, DeliveriesSame DEF EventsAccountedFor, QuietStep
<1>7. QED
  BY <1>2, <1>3, <1>4, <1>5, <1>6, StepKinds
-----------------------------------------------------------------------------
(***************************************************************************)
(* processed_events.                                                        *)
(***************************************************************************)
LEMMA CountKinds ==
  ASSUME IInv, [Next]_vars
  PROVE  \/ \E c \in Consumers : Dispatch(c)
         \/ \E c \in Consumers : LoadProcessed(c)
         \/ \E c \in Consumers : StoreProcessed(c)
         \/ /\ UNCHANGED <<processed_events, delivered, Finishing>>
            /\ \A c \in Consumers : con_pc'[c] = "store"
                 => con_pc[c] = "store" /\ con_seen'[c] = con_seen[c]
<1>0. TypeOK /\ Worker \in Consumers /\ Flushers \subseteq Consumers
  BY DEF IInv, Consumers
<1>1. ASSUME NEW c \in Consumers,
             \/ CheckCount(c) \/ DequeueNothing(c) \/ Dequeue(c)
             \/ CheckMore(c) \/ CheckRunning(c) \/ Resched(c)
      PROVE  /\ UNCHANGED <<processed_events, delivered, con_seen>>
             /\ \A d \in Consumers : /\ con_pc'[d] = "store" <=> con_pc[d] = "store"
                                     /\ con_pc'[d] = "load" <=> con_pc[d] = "load"
  BY <1>0, <1>1 DEF CheckCount, DequeueNothing, Dequeue, CheckMore, CheckRunning, Resched, ConAt, TypeOK
<1>2. ASSUME WorkerStart \/ \E f \in Flushers : FlushBegin(f)
      PROVE  /\ UNCHANGED <<processed_events, delivered, con_seen>>
             /\ \A d \in Consumers : /\ con_pc'[d] = "store" <=> con_pc[d] = "store"
                                     /\ con_pc'[d] = "load" <=> con_pc[d] = "load"
  BY <1>0, <1>2 DEF WorkerStart, FlushBegin, ConAt, TypeOK
<1>3. ASSUME \/ TimerExpires \/ ExitStop \/ ExitStep \/ UNCHANGED vars
             \/ \E p \in Publishers, delayed \in BOOLEAN : PublishBegin(p, delayed)
             \/ \E p \in Publishers : PublishStep(p)
      PROVE  UNCHANGED <<processed_events, delivered, con_seen, con_pc>>
  BY <1>3 DEF TimerExpires, ExitStop, ExitStep, ExitCancel, ExitFlush, ExitDestroy, ExitFree, vars, conVars,
              PublishBegin, PublishStep, PublishEnqueue, PublishCheckRunning, PublishArm
<1>4. ASSUME UNCHANGED <<processed_events, delivered, con_seen>>,
             \A d \in Consumers : /\ con_pc'[d] = "store" <=> con_pc[d] = "store"
                                  /\ con_pc'[d] = "load" <=> con_pc[d] = "load"
      PROVE  /\ UNCHANGED <<processed_events, delivered, Finishing>>
             /\ \A c \in Consumers : con_pc'[c] = "store"
                  => con_pc[c] = "store" /\ con_seen'[c] = con_seen[c]
  BY <1>4 DEF Finishing
<1>5. QED
  BY <1>1, <1>2, <1>3, <1>4 DEF Next, ConsumeStep

\* Whoever dispatches has delivered something from then on, and only he.
LEMMA DispatchAppends ==
  ASSUME TypeOK, NEW c \in Consumers, Dispatch(c)
  PROVE  /\ delivered'[c] # <<>>
         /\ \A d \in Consumers : delivered'[d] = <<>> => delivered[d] = <<>>
<1>1. delivered \in [Consumers -> Seq(Event)] /\ con_event \in [Consumers -> Event \cup {NoEvent}]
  BY DEF TypeOK
<1>2. delivered' = [delivered EXCEPT ![c] = Append(@, con_event[c])]
  BY DEF Dispatch
<1>3. Append(delivered[c], con_event[c]) # <<>>
  <2> DEFINE X == Event \cup {NoEvent}
  <2>1. delivered[c] \in Seq(X) /\ con_event[c] \in X
    BY <1>1
  <2> HIDE DEF X
  <2>2. QED
    BY <2>1, AppendProperties
<1>4. QED
  BY <1>1, <1>2, <1>3

\* Each step keeps what processed_events promises: an increment is two
\* steps, between which other consumers may deliver and count.
LEMMA CountingStep ==
  ASSUME IInv, Sized, RoomToCount, CountExact, [Next]_vars
  PROVE  RoomToCount' /\ CountExact'
<1>0. TypeOK /\ TypeOK' /\ Worker \in Consumers
  BY TypeOKStep DEF IInv, Consumers
<1>1. /\ processed_events \in Nat /\ con_seen \in [Consumers -> Nat]
      /\ con_pc \in [Consumers -> ConStates]
  BY <1>0 DEF TypeOK
<1>2. NumDelivered \in Nat
  BY FS_CardinalityType DEF Sized, NumDelivered
<1>3. /\ IsFiniteSet(Finishing) /\ Cardinality(Finishing) \in Nat
      /\ IsFiniteSet(Finishing') /\ Cardinality(Finishing') \in Nat
  BY FiniteConsumers, FS_CardinalityType
<1>4. ASSUME NEW c \in Consumers, Dispatch(c)
      PROVE  RoomToCount' /\ CountExact'
  <2>1. /\ con_pc[c] = "dispatch" /\ con_pc' = [con_pc EXCEPT ![c] = "load"]
        /\ UNCHANGED <<processed_events, con_seen>>
    BY <1>4 DEF Dispatch, ConAt
  <2>2. NumDelivered' = NumDelivered + 1
    BY <1>4, DispatchCounts DEF Sized
  <2>3. c \notin Finishing /\ Finishing' = Finishing \cup {c}
    BY <1>1, <2>1 DEF Finishing
  <2>4. Cardinality(Finishing') = Cardinality(Finishing) + 1
    BY <1>3, <2>3, FS_AddElement
  <2>5. \A d \in Consumers : con_pc'[d] = "store" => con_pc[d] = "store" /\ con_seen[d] \in Nat
    BY <1>1, <2>1
  <2>6. RoomToCount'
    BY <1>0, <1>1, <1>2, <1>3, <2>1, <2>2, <2>4, <2>5 DEF RoomToCount
  <2>7. ASSUME WorkerAlone'
        PROVE  CountExact'
    <3>1. WorkerAlone /\ c \notin Flushers
      <4>1. /\ delivered'[c] # <<>>
            /\ \A d \in Consumers : delivered'[d] = <<>> => delivered[d] = <<>>
        BY <1>0, <1>4, DispatchAppends
      <4>2. \A f \in Flushers : f \in Consumers /\ delivered'[f] = <<>>
        BY <2>7 DEF WorkerAlone, Consumers
      <4>3. QED
        BY <4>1, <4>2 DEF WorkerAlone
    <3>2. \A f \in Flushers : f \in Consumers /\ con_pc'[f] = con_pc[f]
      BY <1>1, <2>1, <3>1 DEF Consumers
    <3>3. processed_events + Cardinality(Finishing) = NumDelivered
          /\ \A f \in Flushers : con_pc[f] \notin {"load", "store"}
      BY <3>1 DEF CountExact
    <3>4. c = Worker /\ con_pc'[Worker] # "store"
      BY <1>1, <2>1, <3>1 DEF Consumers
    <3>5. processed_events' + Cardinality(Finishing') = NumDelivered'
      BY <1>1, <1>2, <1>3, <2>1, <2>2, <2>4, <3>3
    <3>6. QED
      BY <3>2, <3>3, <3>4, <3>5 DEF CountExact
  <2>8. QED
    BY <2>6, <2>7 DEF CountExact
<1>5. ASSUME NEW c \in Consumers, LoadProcessed(c)
      PROVE  RoomToCount' /\ CountExact'
  <2>1. /\ con_pc[c] = "load" /\ con_pc' = [con_pc EXCEPT ![c] = "store"]
        /\ con_seen' = [con_seen EXCEPT ![c] = processed_events]
        /\ UNCHANGED <<processed_events, delivered>>
    BY <1>5 DEF LoadProcessed, ConAt
  <2>2. Finishing' = Finishing
    BY <1>1, <2>1 DEF Finishing
  <2>3. \A d \in Consumers : con_pc'[d] = "store" =>
          \/ con_seen'[d] = processed_events
          \/ con_pc[d] = "store" /\ con_seen'[d] = con_seen[d]
    BY <1>1, <2>1
  <2>4. NumDelivered' = NumDelivered
    BY <2>1, DeliveriesSame
  <2>5. Cardinality(Finishing') = Cardinality(Finishing)
    BY <2>2
  <2>6. RoomToCount'
    BY <2>1, <2>3, <2>4, <2>5 DEF RoomToCount
  <2>7. ASSUME WorkerAlone'
        PROVE  CountExact'
    <3>1. WorkerAlone
      BY <2>1, <2>7 DEF WorkerAlone
    <3>2. c = Worker
      BY <2>1, <3>1 DEF CountExact, Consumers
    <3>3. \A f \in Flushers : f \in Consumers /\ f # Worker /\ con_pc'[f] = con_pc[f]
      BY <1>1, <2>1, <3>2, EventSystemAssumption DEF Consumers
    <3>4. con_seen'[Worker] = processed_events'
      BY <1>0, <1>1, <2>1, <3>2
    <3>5. QED
      BY <2>1, <2>4, <2>5, <3>1, <3>3, <3>4 DEF CountExact
  <2>8. QED
    BY <2>6, <2>7 DEF CountExact
<1>6. ASSUME NEW c \in Consumers, StoreProcessed(c)
      PROVE  RoomToCount' /\ CountExact'
  <2>1. /\ con_pc[c] = "store" /\ con_pc' = [con_pc EXCEPT ![c] = "check"]
        /\ processed_events' = con_seen[c] + 1
        /\ con_seen' = [con_seen EXCEPT ![c] = 0]
        /\ delivered' = delivered
    BY <1>6 DEF StoreProcessed, ConAt
  <2>2. c \in Finishing /\ Finishing' = Finishing \ {c}
    BY <1>1, <2>1 DEF Finishing
  <2>3. Cardinality(Finishing') = Cardinality(Finishing) - 1
    BY <1>3, <2>2, FS_RemoveElement
  <2>4. NumDelivered' = NumDelivered
    BY <2>1, DeliveriesSame
  <2>5. \A d \in Consumers : con_pc'[d] = "store" =>
          con_pc[d] = "store" /\ con_seen'[d] = con_seen[d] /\ con_seen[d] \in Nat
    BY <1>1, <2>1
  <2>6. con_seen[c] \in Nat
    BY <1>1
  <2>7. RoomToCount'
    BY <1>2, <1>3, <2>1, <2>3, <2>4, <2>5, <2>6 DEF RoomToCount
  <2>8. ASSUME WorkerAlone'
        PROVE  CountExact'
    <3>1. WorkerAlone
      BY <2>1, <2>8 DEF WorkerAlone
    <3>2. c = Worker
      BY <2>1, <3>1 DEF CountExact, Consumers
    <3>3. con_seen[c] = processed_events /\ con_pc'[Worker] # "store"
      BY <1>0, <1>1, <2>1, <3>1, <3>2 DEF CountExact
    <3>4. \A f \in Flushers : f \in Consumers /\ f # Worker /\ con_pc'[f] = con_pc[f]
      BY <1>1, <2>1, <3>2, EventSystemAssumption DEF Consumers
    <3>5. processed_events + Cardinality(Finishing) = NumDelivered
          /\ \A f \in Flushers : con_pc[f] \notin {"load", "store"}
      BY <3>1 DEF CountExact
    <3>6. processed_events' + Cardinality(Finishing') = NumDelivered'
      BY <1>1, <1>2, <1>3, <2>1, <2>3, <2>4, <3>3, <3>5
    <3>7. QED
      BY <3>3, <3>4, <3>5, <3>6 DEF CountExact
  <2>9. QED
    BY <2>7, <2>8 DEF CountExact
<1>7. ASSUME UNCHANGED <<processed_events, delivered, Finishing>>,
             \A c \in Consumers : con_pc'[c] = "store"
               => con_pc[c] = "store" /\ con_seen'[c] = con_seen[c]
      PROVE  RoomToCount' /\ CountExact'
  <2>1. NumDelivered' = NumDelivered /\ Cardinality(Finishing') = Cardinality(Finishing)
    BY <1>7, DeliveriesSame
  <2>2. RoomToCount'
    BY <1>7, <2>1 DEF RoomToCount
  <2>3. Finishing' = Finishing /\ (WorkerAlone' => WorkerAlone)
    BY <1>7 DEF WorkerAlone
  <2>4. \A f \in Flushers : f \in Consumers
    BY DEF Consumers
  <2>5. \A f \in Flushers : con_pc[f] \notin {"load", "store"}
           => con_pc'[f] \notin {"load", "store"}
    BY <2>3, <2>4 DEF Finishing
  <2>6. QED
    BY <1>0, <1>7, <2>1, <2>2, <2>3, <2>5 DEF CountExact
<1>8. QED
  BY <1>4, <1>5, <1>6, <1>7, CountKinds
-----------------------------------------------------------------------------
LEMMA DisjointUnion ==
  ASSUME NEW S, IsFiniteSet(S), NEW T, IsFiniteSet(T), S \cap T = {}
  PROVE  IsFiniteSet(S \cup T) /\ Cardinality(S \cup T) = Cardinality(S) + Cardinality(T)
<1>1. Cardinality(S \cap T) = 0
  BY FS_EmptySet
<1>2. Cardinality(S) \in Nat /\ Cardinality(T) \in Nat
  BY FS_CardinalityType
<1>3. /\ IsFiniteSet(S \cup T)
      /\ Cardinality(S \cup T) = Cardinality(S) + Cardinality(T) - Cardinality(S \cap T)
  BY FS_Union
<1> DEFINE u == Cardinality(S \cup T)
           i == Cardinality(S \cap T)
<1>4. i = 0 /\ u = Cardinality(S) + Cardinality(T) - i
  BY <1>1, <1>3
<1> HIDE DEF u, i
<1>5. u = Cardinality(S) + Cardinality(T)
  BY <1>2, <1>4
<1>6. QED
  BY <1>3, <1>5 DEF u

LEMMA InitDInv == Init => DInv
<1> SUFFICES ASSUME Init
             PROVE  DInv
  OBVIOUS
<1>1. NumPending = 0
  BY DEF Init, RingInit, NumPending
<1>2. InHand = {} /\ Publishing = {} /\ Finishing = {}
  BY DEF Init, InHand, Publishing, Finishing, Consumers
<1>3. \A c \in Consumers : DOMAIN delivered[c] = {}
  <2>1. \A c \in Consumers : delivered[c] = <<>>
    BY DEF Init
  <2>2. QED
    BY <2>1
<1>4. \A i \in 1 .. NumPending : FALSE
  BY <1>1
<1>5. OfferedIds = {} /\ HandIds = {} /\ PendingIdSet = {} /\ DeliveredIds = {}
  BY <1>2, <1>3, <1>4, MembersLemma DEF Members
<1>6. Deliveries = {}
  BY <1>3 DEF Deliveries
<1>7. NumDelivered = 0 /\ IsFiniteSet(Deliveries)
  BY <1>6, FS_EmptySet DEF NumDelivered
<1>8. Known
  BY <1>5, EventSystemAssumption DEF Init, Known, PlacedIds
<1>9. Distinct /\ InOrder /\ OfferedLast /\ ThreadOrder
  BY <1>2, <1>3, <1>4 DEF Distinct, InOrder, OfferedLast, ThreadOrder
<1>10. Apart
  BY <1>5 DEF Apart
<1>11. Sized
  BY <1>1, <1>2, <1>5, <1>7, FS_EmptySet DEF Sized
<1>12. EventsAccountedFor
  BY <1>1, <1>2, <1>7, FS_EmptySet DEF Init, RingInit, EventsAccountedFor
<1>13. RoomToCount /\ CountExact
  BY <1>2, <1>7, FS_EmptySet, EventSystemAssumption
  DEF Init, Consumers, RoomToCount, CountExact, WorkerAlone
<1>14. QED
  BY <1>8, <1>9, <1>10, <1>11, <1>12, <1>13 DEF DInv

LEMMA DInvStep == IInv /\ DInv /\ [Next]_vars => DInv'
<1> SUFFICES ASSUME IInv, DInv, [Next]_vars
             PROVE  DInv'
  OBVIOUS
<1>1. /\ Known /\ Distinct /\ Apart /\ InOrder /\ OfferedLast /\ ThreadOrder
      /\ Sized /\ EventsAccountedFor /\ RoomToCount /\ CountExact
  BY DEF DInv
<1>2. Known' /\ Apart' /\ Distinct'
  BY <1>1, KnownApartStep, DistinctStep
<1>3. InOrder' /\ OfferedLast' /\ ThreadOrder'
  BY <1>1, InOrderStep, OfferedLastStep, ThreadOrderStep
<1>4. Sized' /\ EventsAccountedFor'
  BY <1>1, SizedStep, AccountsStep
<1>5. RoomToCount' /\ CountExact'
  BY <1>1, CountingStep
<1>6. QED
  BY <1>2, <1>3, <1>4, <1>5 DEF DInv
-----------------------------------------------------------------------------
(***************************************************************************)
(* The bounded FIFO: the ring as its queue, and the fate of each event.     *)
(***************************************************************************)
LEMMA IdsLemma ==
  IInv => /\ PendingIds \in Seq(Nat) /\ Len(PendingIds) = NumPending
          /\ \A i \in 1 .. NumPending : PendingIds[i] = Pending[i].id
<1> SUFFICES ASSUME IInv
             PROVE  /\ PendingIds \in Seq(Nat) /\ Len(PendingIds) = NumPending
                    /\ \A i \in 1 .. NumPending : PendingIds[i] = Pending[i].id
  OBVIOUS
<1>1. NumPending \in Nat /\ \A i \in 1 .. NumPending : Pending[i] \in Event
  BY PendingFacts DEF IInv, TypeOK
<1>2. \A i \in 1 .. NumPending : Pending[i].id \in Nat
  BY <1>1 DEF Event
<1>3. QED
  BY <1>1, <1>2 DEF PendingIds

LEMMA IdsNext ==
  IInv' => /\ PendingIds' \in Seq(Nat) /\ Len(PendingIds') = NumPending'
           /\ \A i \in 1 .. NumPending' : PendingIds'[i] = Pending'[i].id
<1>1. (IInv => /\ PendingIds \in Seq(Nat) /\ Len(PendingIds) = NumPending
               /\ \A i \in 1 .. NumPending : PendingIds[i] = Pending[i].id)'
  BY IdsLemma, PTL
<1>2. QED
  BY <1>1

\* publish_event appends to the queue when there is room.
LEMMA IdsAppend ==
  ASSUME IInv, IInv', NEW p \in Publishers, PublishEnqueue(p), ~Full
  PROVE  /\ Len(PendingIds) < QueueSize - 1
         /\ PendingIds' = Append(PendingIds, pub_event[p].id)
<1> DEFINE s == PendingIds
           t == PendingIds'
           n == pub_event[p].id
<1>1. pub_event[p] \in Event /\ Put(pub_event[p]) /\ RingTypeOK /\ PendingSlotsFilled
  BY EnqueueMoves DEF IInv, TypeOK
<1>2. /\ NumPending' = NumPending + 1 /\ NumPending # QueueSize - 1
      /\ \A i \in 1 .. NumPending : Pending'[i] = Pending[i]
      /\ Pending'[NumPending + 1] = pub_event[p]
  BY <1>1, PutPending
<1>3. NumPending \in 0 .. QueueSize - 1
  BY <1>1, NumPendingBound
<1>4. s \in Seq(Nat) /\ Len(s) = NumPending /\ \A i \in 1 .. NumPending : s[i] = Pending[i].id
  BY IdsLemma
<1>5. t \in Seq(Nat) /\ Len(t) = NumPending' /\ \A i \in 1 .. NumPending' : t[i] = Pending'[i].id
  BY IdsNext
<1>6. n \in Nat
  BY <1>1 DEF Event
<1>7. \A i \in 1 .. Len(s) : t[i] = s[i]
  <2>1. \A i \in 1 .. NumPending : i \in 1 .. NumPending'
    BY <1>2, <1>3
  <2> HIDE DEF s, t, n
  <2>2. QED
    BY <1>2, <1>4, <1>5, <2>1
<1>8. Len(t) = Len(s) + 1 /\ t[Len(s) + 1] = n
  <2>1. NumPending + 1 \in 1 .. NumPending'
    BY <1>2, <1>3
  <2>2. t[NumPending + 1] = n
    BY <1>2, <1>5, <2>1
  <2> HIDE DEF s, t, n
  <2>3. QED
    BY <1>2, <1>4, <1>5, <2>2
<1>9. Len(s) < QueueSize - 1
  BY <1>2, <1>3, <1>4, QueueSizeAssumption
<1> HIDE DEF s, t, n
<1>10. t = Append(s, n)
  <2>1. /\ Append(s, n) \in Seq(Nat) /\ Len(Append(s, n)) = Len(s) + 1
        /\ \A i \in 1 .. Len(s) : Append(s, n)[i] = s[i]
        /\ Append(s, n)[Len(s) + 1] = n
    BY <1>4, <1>6, AppendProperties
  <2>2. Len(s) \in Nat
    BY <1>4
  <2>3. \A i \in 1 .. Len(t) : t[i] = Append(s, n)[i]
    BY <1>7, <1>8, <2>1, <2>2
  <2>4. QED
    BY <1>5, <1>8, <2>1, <2>3, SeqEqual
<1>11. QED
  BY <1>9, <1>10 DEF s, t, n

\* It gives up the oldest event when there is none.
LEMMA IdsDisplace ==
  ASSUME IInv, IInv', NEW p \in Publishers, PublishEnqueue(p), Full
  PROVE  /\ Len(PendingIds) = QueueSize - 1
         /\ PendingIds' = Append(Tail(PendingIds), pub_event[p].id)
         /\ Head(PendingIds) = Pending[1].id
<1> DEFINE s == PendingIds
           t == PendingIds'
           n == pub_event[p].id
<1>1. pub_event[p] \in Event /\ Put(pub_event[p]) /\ RingTypeOK /\ PendingSlotsFilled
  BY EnqueueMoves DEF IInv, TypeOK
<1>2. /\ NumPending' = NumPending /\ NumPending >= 1 /\ NumPending = QueueSize - 1
      /\ \A i \in 1 .. NumPending - 1 : Pending'[i] = Pending[i + 1]
      /\ Pending'[NumPending] = pub_event[p]
  BY <1>1, PutPending
<1>3. NumPending \in Nat
  BY <1>1, PendingFacts
<1>4. s \in Seq(Nat) /\ Len(s) = NumPending /\ \A i \in 1 .. NumPending : s[i] = Pending[i].id
  BY IdsLemma
<1>5. t \in Seq(Nat) /\ Len(t) = NumPending /\ \A i \in 1 .. NumPending : t[i] = Pending'[i].id
  BY <1>2, IdsNext
<1>6. n \in Nat
  BY <1>1 DEF Event
<1>7. \A i \in 1 .. Len(s) - 1 : t[i] = s[i + 1]
  <2>1. \A i \in 1 .. NumPending - 1 : i \in 1 .. NumPending /\ i + 1 \in 1 .. NumPending
    BY <1>2, <1>3
  <2> HIDE DEF s, t, n
  <2>2. QED
    BY <1>2, <1>4, <1>5, <2>1
<1>8. t[Len(s)] = n /\ s[1] = Pending[1].id
  <2>1. NumPending \in 1 .. NumPending /\ 1 \in 1 .. NumPending
    BY <1>2, <1>3
  <2>2. t[NumPending] = n /\ s[1] = Pending[1].id
    BY <1>2, <1>4, <1>5, <2>1
  <2> HIDE DEF s, t, n
  <2>3. QED
    BY <1>4, <2>2
<1> HIDE DEF s, t, n
<1>9. s # << >> /\ Head(s) = s[1]
  BY <1>2, <1>4
<1>10. t = Append(Tail(s), n)
  <2> DEFINE u == Tail(s)
  <2>1. u \in Seq(Nat) /\ Len(u) = Len(s) - 1 /\ \A i \in 1 .. Len(u) : u[i] = s[i + 1]
    BY <1>4, <1>9, HeadTailProperties
  <2> HIDE DEF u
  <2>2. /\ Append(u, n) \in Seq(Nat) /\ Len(Append(u, n)) = Len(u) + 1
        /\ \A i \in 1 .. Len(u) : Append(u, n)[i] = u[i]
        /\ Append(u, n)[Len(u) + 1] = n
    BY <1>6, <2>1, AppendProperties
  <2>3. Len(u) \in Nat /\ Len(u) + 1 = Len(s) /\ Len(s) \in Nat /\ Len(t) = Len(s)
    BY <1>3, <1>4, <1>5, <2>1
  <2>4. \A i \in 1 .. Len(t) : t[i] = Append(u, n)[i]
    BY <1>7, <1>8, <2>1, <2>2, <2>3
  <2>5. QED
    BY <1>5, <2>2, <2>3, <2>4, SeqEqual DEF u
<1>11. QED
  BY <1>2, <1>4, <1>8, <1>9, <1>10 DEF s, t, n

\* The worker takes the oldest event.
LEMMA IdsTail ==
  ASSUME IInv, IInv', NEW c \in Consumers, Dequeue(c)
  PROVE  /\ PendingIds # << >> /\ Head(PendingIds) = Pending[1].id
         /\ PendingIds' = Tail(PendingIds)
<1> DEFINE s == PendingIds
           t == PendingIds'
<1>1. /\ NumPending >= 1 /\ NumPending' = NumPending - 1
      /\ \A i \in 1 .. NumPending - 1 : Pending'[i] = Pending[i + 1]
  BY DequeueMoves
<1>2. NumPending \in Nat
  BY PendingFacts DEF IInv, TypeOK
<1>3. s \in Seq(Nat) /\ Len(s) = NumPending /\ \A i \in 1 .. NumPending : s[i] = Pending[i].id
  BY IdsLemma
<1>4. t \in Seq(Nat) /\ Len(t) = NumPending - 1 /\ \A i \in 1 .. NumPending - 1 : t[i] = Pending'[i].id
  BY <1>1, IdsNext
<1>5. s[1] = Pending[1].id
  <2>1. 1 \in 1 .. NumPending
    BY <1>1, <1>2
  <2>2. QED
    BY <1>3, <2>1
<1>6. \A i \in 1 .. NumPending - 1 : t[i] = s[i + 1]
  <2>1. \A i \in 1 .. NumPending - 1 : i + 1 \in 1 .. NumPending
    BY <1>1, <1>2
  <2> HIDE DEF s, t
  <2>2. QED
    BY <1>1, <1>3, <1>4, <2>1
<1> HIDE DEF s, t
<1>7. s # << >> /\ Head(s) = s[1]
  BY <1>1, <1>3
<1>8. t = Tail(s)
  <2> DEFINE u == Tail(s)
  <2>1. u \in Seq(Nat) /\ Len(u) = Len(s) - 1 /\ \A i \in 1 .. Len(u) : u[i] = s[i + 1]
    BY <1>3, <1>7, HeadTailProperties
  <2> HIDE DEF u
  <2>2. QED
    BY <1>3, <1>4, <1>6, <2>1, SeqEqual DEF u
<1>9. QED
  BY <1>5, <1>7, <1>8 DEF s, t

\* What FateOf says of an event in each place.
LEMMA FateLemma ==
  Known /\ Apart /\ event_id_counter \in Nat =>
    \A n \in 1 .. MaxEvents :
      /\ n \in DeliveredIds => FateOf(n) = "delivered"
      /\ n \in HandIds => FateOf(n) = "taken"
      /\ n \in PendingIdSet => FateOf(n) = "queued"
      /\ n \in OfferedIds \/ n > event_id_counter => FateOf(n) = "new"
      /\ n \notin OfferedIds \cup PlacedIds /\ ~(n > event_id_counter) => FateOf(n) = "lost"
<1> SUFFICES ASSUME Known, Apart, event_id_counter \in Nat, NEW n \in 1 .. MaxEvents
             PROVE  /\ n \in DeliveredIds => FateOf(n) = "delivered"
                    /\ n \in HandIds => FateOf(n) = "taken"
                    /\ n \in PendingIdSet => FateOf(n) = "queued"
                    /\ n \in OfferedIds \/ n > event_id_counter => FateOf(n) = "new"
                    /\ n \notin OfferedIds \cup PlacedIds /\ ~(n > event_id_counter) => FateOf(n) = "lost"
  OBVIOUS
<1>1. (\E c \in InHand : con_event[c].id = n) <=> n \in HandIds
  BY DEF HandIds
<1>2. (\E p \in Publishers : pub_pc[p] = "enqueue" /\ pub_event[p].id = n) <=> n \in OfferedIds
  BY DEF OfferedIds, Publishing
<1>3. n > event_id_counter => n \notin OfferedIds \cup PlacedIds
  BY DEF Known
<1>4. FateOf(n) = CASE n \in DeliveredIds -> "delivered"
                    [] n \in HandIds -> "taken"
                    [] n \in PendingIdSet -> "queued"
                    [] n > event_id_counter -> "new"
                    [] n \in OfferedIds -> "new"
                    [] OTHER -> "lost"
  BY <1>1, <1>2 DEF FateOf, PendingIdSet
<1>5. QED
  BY <1>3, <1>4 DEF Apart, PlacedIds

LEMMA FateNext ==
  Known' /\ Apart' /\ event_id_counter' \in Nat =>
    \A n \in 1 .. MaxEvents :
      /\ n \in DeliveredIds' => FateOf(n)' = "delivered"
      /\ n \in HandIds' => FateOf(n)' = "taken"
      /\ n \in PendingIdSet' => FateOf(n)' = "queued"
      /\ n \in OfferedIds' \/ n > event_id_counter' => FateOf(n)' = "new"
      /\ n \notin OfferedIds' \cup PlacedIds' /\ ~(n > event_id_counter') => FateOf(n)' = "lost"
<1>1. (Known /\ Apart /\ event_id_counter \in Nat =>
        \A n \in 1 .. MaxEvents :
          /\ n \in DeliveredIds => FateOf(n) = "delivered"
          /\ n \in HandIds => FateOf(n) = "taken"
          /\ n \in PendingIdSet => FateOf(n) = "queued"
          /\ n \in OfferedIds \/ n > event_id_counter => FateOf(n) = "new"
          /\ n \notin OfferedIds \cup PlacedIds /\ ~(n > event_id_counter) => FateOf(n) = "lost")'
  BY FateLemma, PTL
<1>2. QED
  BY <1>1

Fate == [n \in 1 .. MaxEvents |-> FateOf(n)]

FifoStep == [Fifo!Next]_(Fifo!vars)

\* Only exit_event_system closes the system.
LEMMA RunningNext ==
  ASSUME IInv, [Next]_vars
  PROVE  \/ running' = running
         \/ ExitStop /\ running /\ ~running'
<1>1. ASSUME NEW p \in Publishers, PublishStep(p)
      PROVE  running' = running
  BY <1>1 DEF PublishStep, PublishEnqueue, PublishCheckRunning, PublishArm, exitVars
<1>2. ASSUME NEW c \in Consumers, ConsumeStep(c)
      PROVE  running' = running
  BY <1>2 DEF ConsumeStep, CheckCount, DequeueNothing, Dequeue, Dispatch, LoadProcessed, StoreProcessed,
              CheckMore, CheckRunning, Resched, exitVars
<1>3. ASSUME ExitStop
      PROVE  running /\ ~running'
  BY <1>3 DEF ExitStop, ExitAt, IInv, ExitOrder
<1>4. ASSUME \/ ExitStep \/ TimerExpires \/ WorkerStart \/ UNCHANGED vars
             \/ \E f \in Flushers : FlushBegin(f)
             \/ \E p \in Publishers, delayed \in BOOLEAN : PublishBegin(p, delayed)
      PROVE  running' = running
  BY <1>4 DEF ExitStep, ExitCancel, ExitFlush, ExitDestroy, ExitFree, TimerExpires, WorkerStart, vars,
              FlushBegin, PublishBegin, exitVars
<1>5. QED
  BY <1>1, <1>2, <1>3, <1>4 DEF Next

\* Every step is a step of the FIFO or changes nothing it can see.
LEMMA FifoSimulation ==
  ASSUME IInv, IInv', DInv, DInv', [Next]_vars
  PROVE  FifoStep
<1>0. /\ Known /\ Apart /\ Distinct /\ Known' /\ Apart'
      /\ event_id_counter \in Nat /\ event_id_counter' \in Nat /\ MaxEvents \in Nat
  BY EventSystemAssumption DEF DInv, IInv, TypeOK
<1>1. \A n \in 1 .. MaxEvents :
        /\ n \in DeliveredIds => FateOf(n) = "delivered"
        /\ n \in HandIds => FateOf(n) = "taken"
        /\ n \in PendingIdSet => FateOf(n) = "queued"
        /\ n \in OfferedIds \/ n > event_id_counter => FateOf(n) = "new"
        /\ n \notin OfferedIds \cup PlacedIds /\ ~(n > event_id_counter) => FateOf(n) = "lost"
  BY <1>0, FateLemma
<1>2. \A n \in 1 .. MaxEvents :
        /\ n \in DeliveredIds' => FateOf(n)' = "delivered"
        /\ n \in HandIds' => FateOf(n)' = "taken"
        /\ n \in PendingIdSet' => FateOf(n)' = "queued"
        /\ n \in OfferedIds' \/ n > event_id_counter' => FateOf(n)' = "new"
        /\ n \notin OfferedIds' \cup PlacedIds' /\ ~(n > event_id_counter') => FateOf(n)' = "lost"
  BY <1>0, FateNext
<1>3. OfferedIds \cup PlacedIds \subseteq 1 .. MaxEvents
  BY <1>0 DEF Known
<1>4. ASSUME \A n \in 1 .. MaxEvents : FateOf(n)' = FateOf(n)
      PROVE  Fate' = Fate
  BY <1>4 DEF Fate
<1>5. ASSUME NEW p \in Publishers, NEW delayed \in BOOLEAN, PublishBegin(p, delayed)
      PROVE  FifoStep
  <2>1. /\ OfferedIds' = OfferedIds \cup {event_id_counter + 1}
        /\ PendingIdSet' = PendingIdSet /\ HandIds' = HandIds /\ DeliveredIds' = DeliveredIds
    BY <1>5, BeginIds
  <2>2. UNCHANGED ringVars /\ event_id_counter' = event_id_counter + 1 /\ running' = running
    BY <1>5, BeginMoves DEF IInv, PublishBegin, exitVars
  <2>3. NumPending' = NumPending
    BY <2>2 DEF NumPending, ringVars
  <2>4. PendingIds' = PendingIds
    BY <2>2, <2>3 DEF PendingIds, Pending, ringVars
  <2>5. ASSUME NEW n \in 1 .. MaxEvents
        PROVE  FateOf(n)' = FateOf(n)
    <3>1. n > event_id_counter' => n > event_id_counter
      BY <1>0, <2>2
    <3>2. n > event_id_counter => n > event_id_counter' \/ n = event_id_counter + 1
      BY <1>0, <2>2
    <3>3. n = event_id_counter + 1 => n > event_id_counter
      BY <1>0
    <3>4. QED
      BY <1>1, <1>2, <2>1, <3>1, <3>2, <3>3 DEF PlacedIds
  <2>6. Fate' = Fate
    BY <1>4, <2>5
  <2>7. QED
    BY <2>2, <2>4, <2>6 DEF FifoStep, Fifo!vars, Fate
<1>6. ASSUME NEW p \in Publishers, PublishEnqueue(p)
      PROVE  FifoStep
  <2>0. pub_event[p].id \in OfferedIds
    BY <1>0, <1>6, EnqueueIds
  <2>e. PICK e \in 1 .. MaxEvents : e = pub_event[p].id
    BY <1>3, <2>0
  <2>1. /\ e \in OfferedIds
        /\ OfferedIds' = OfferedIds \ {e}
        /\ Displaced \subseteq PendingIdSet
        /\ PendingIdSet' = (PendingIdSet \ Displaced) \cup {e}
        /\ HandIds' = HandIds /\ DeliveredIds' = DeliveredIds
    BY <1>0, <1>6, <2>e, EnqueueIds
  <2>2. event_id_counter' = event_id_counter /\ running' = running
    BY <1>6, EnqueueMoves DEF PublishEnqueue, exitVars
  <2>3. e \in 1 .. MaxEvents
    BY <2>e
  <2>4. FateOf(e) = "new" /\ FateOf(e)' = "queued"
    BY <1>1, <1>2, <2>1, <2>3
  <2>5. \A n \in 1 .. MaxEvents : n \in Displaced => FateOf(n)' = "lost" /\ n # e
    BY <1>0, <1>2, <2>1, <2>2 DEF Apart, PlacedIds, Known
  <2>6. \A n \in 1 .. MaxEvents : n # e /\ n \notin Displaced => FateOf(n)' = FateOf(n)
    <3>1. SUFFICES ASSUME NEW n \in 1 .. MaxEvents, n # e, n \notin Displaced
                   PROVE  FateOf(n)' = FateOf(n)
      OBVIOUS
    <3>2. n \in OfferedIds' <=> n \in OfferedIds
      BY <2>1, <3>1
    <3>3. n \in PendingIdSet' <=> n \in PendingIdSet
      BY <2>1, <3>1
    <3>4. QED
      BY <1>1, <1>2, <2>1, <2>2, <3>1, <3>2, <3>3 DEF PlacedIds
  <2>7. CASE ~Full
    <3>1. /\ Len(PendingIds) < QueueSize - 1
          /\ PendingIds' = Append(PendingIds, e)
      BY <1>6, <2>7, <2>e, IdsAppend
    <3>2. Displaced = {}
      BY <2>7 DEF Displaced
    <3>3. Fate[e] = "new" /\ Fate' = [Fate EXCEPT ![e] = "queued"]
      BY <2>3, <2>4, <2>6, <3>2 DEF Fate
    <3>4. Fifo!Accept(e)
      BY <2>2, <3>1, <3>3 DEF Fifo!Accept, Fate
    <3>5. QED
      BY <2>3, <3>4 DEF FifoStep, Fifo!Next
  <2>8. CASE Full
    <3>1. /\ Len(PendingIds) = QueueSize - 1
          /\ PendingIds' = Append(Tail(PendingIds), e)
          /\ Head(PendingIds) = Pending[1].id
      BY <1>6, <2>8, <2>e, IdsDisplace
    <3>2. Displaced = {Head(PendingIds)}
      BY <2>8, <3>1 DEF Displaced
    <3>3. Head(PendingIds) \in 1 .. MaxEvents
      BY <1>3, <2>1, <3>2 DEF PlacedIds
    <3>h. PICK h \in 1 .. MaxEvents : h = Head(PendingIds)
      BY <3>3
    <3>4. Fate[e] = "new" /\ Fate' = [Fate EXCEPT ![e] = "queued", ![h] = "lost"]
      <4>1. h \in 1 .. MaxEvents /\ Displaced = {h}
        BY <3>2, <3>h
      <4>2. FateOf(h)' = "lost" /\ h # e
        BY <2>5, <4>1
      <4>3. \A n \in 1 .. MaxEvents : n # e /\ n # h => FateOf(n)' = FateOf(n)
        BY <2>6, <4>1
      <4>4. QED
        BY <2>3, <2>4, <4>1, <4>2, <4>3 DEF Fate
    <3>5. Fifo!Displace(e)
      BY <2>2, <3>1, <3>4, <3>h DEF Fifo!Displace, Fate
    <3>6. QED
      BY <2>3, <3>5 DEF FifoStep, Fifo!Next
  <2>9. QED
    BY <2>7, <2>8
<1>7. ASSUME NEW c \in Consumers, Dequeue(c)
      PROVE  FifoStep
  <2>1. /\ Pending[1].id \in PendingIdSet
        /\ PendingIdSet' = PendingIdSet \ {Pending[1].id}
        /\ HandIds' = HandIds \cup {Pending[1].id}
        /\ OfferedIds' = OfferedIds /\ DeliveredIds' = DeliveredIds
    BY <1>0, <1>7, DequeueIds
  <2>2. event_id_counter' = event_id_counter /\ running' = running
    BY <1>7, DequeueMoves DEF Dequeue, exitVars
  <2>3. /\ PendingIds # << >> /\ Head(PendingIds) = Pending[1].id
        /\ PendingIds' = Tail(PendingIds)
    BY <1>7, IdsTail
  <2>h. PICK h \in 1 .. MaxEvents : h = Head(PendingIds)
    BY <1>3, <2>1, <2>3 DEF PlacedIds
  <2>4. Fate' = [Fate EXCEPT ![h] = "taken"]
    <3>0. h = Pending[1].id
      BY <2>3, <2>h
    <3>1. h \in 1 .. MaxEvents
      BY <2>h
    <3>2. FateOf(h)' = "taken"
      BY <1>2, <2>1, <3>0, <3>1
    <3>3. ASSUME NEW n \in 1 .. MaxEvents, n # h
          PROVE  FateOf(n)' = FateOf(n)
      BY <1>1, <1>2, <2>1, <2>2, <3>0, <3>3 DEF PlacedIds
    <3>4. QED
      BY <3>1, <3>2, <3>3 DEF Fate
  <2>5. Fifo!TakeOldest
    BY <2>2, <2>3, <2>4, <2>h DEF Fifo!TakeOldest, Fate
  <2>6. QED
    BY <2>5 DEF FifoStep, Fifo!Next
<1>8. ASSUME NEW c \in Consumers, Dispatch(c)
      PROVE  FifoStep
  <2>0. con_event[c].id \in HandIds
    BY <1>0, <1>8, DispatchIds
  <2>e. PICK e \in 1 .. MaxEvents : e = con_event[c].id
    BY <1>3, <2>0 DEF PlacedIds
  <2>1. /\ e \in HandIds
        /\ HandIds' = HandIds \ {e}
        /\ DeliveredIds' = DeliveredIds \cup {e}
        /\ OfferedIds' = OfferedIds /\ PendingIdSet' = PendingIdSet
    BY <1>0, <1>8, <2>e, DispatchIds
  <2>2. event_id_counter' = event_id_counter /\ running' = running /\ UNCHANGED ringVars
    BY <1>8, DispatchMoves DEF Dispatch, exitVars
  <2>3. NumPending' = NumPending
    BY <2>2 DEF NumPending, ringVars
  <2>4. PendingIds' = PendingIds
    BY <2>2, <2>3 DEF PendingIds, Pending, ringVars
  <2>5. e \in 1 .. MaxEvents
    BY <2>e
  <2>6. FateOf(e) = "taken" /\ FateOf(e)' = "delivered"
    BY <1>1, <1>2, <2>1, <2>5
  <2>7. ASSUME NEW n \in 1 .. MaxEvents, n # e
        PROVE  FateOf(n)' = FateOf(n)
    BY <1>1, <1>2, <2>1, <2>2, <2>7 DEF PlacedIds
  <2>8. Fate[e] = "taken" /\ Fate' = [Fate EXCEPT ![e] = "delivered"]
    BY <2>5, <2>6, <2>7 DEF Fate
  <2>9. Fifo!Deliver(e)
    BY <2>2, <2>4, <2>8 DEF Fifo!Deliver, Fate
  <2>10. QED
    BY <2>5, <2>9 DEF FifoStep, Fifo!Next
<1>9. ASSUME QuietStep
      PROVE  FifoStep
  <2>1. /\ NumPending' = NumPending /\ Pending' = Pending
        /\ OfferedIds' = OfferedIds /\ PendingIdSet' = PendingIdSet
        /\ HandIds' = HandIds /\ DeliveredIds' = DeliveredIds
    BY <1>9, QuietIds
  <2>2. PendingIds' = PendingIds
    BY <2>1 DEF PendingIds
  <2>3. event_id_counter' = event_id_counter
    BY <1>9 DEF QuietStep
  <2>4. Fate' = Fate
    <3>1. ASSUME NEW n \in 1 .. MaxEvents
          PROVE  FateOf(n)' = FateOf(n)
      BY <1>1, <1>2, <2>1, <2>3 DEF PlacedIds
    <3>2. QED
      BY <1>4, <3>1
  <2>5. CASE running' = running
    BY <2>2, <2>4, <2>5 DEF FifoStep, Fifo!vars, Fate
  <2>6. CASE running /\ ~running'
    <3>1. running' = FALSE
      BY <2>6 DEF IInv, TypeOK
    <3>2. Fifo!Close
      BY <2>2, <2>4, <2>6, <3>1 DEF Fifo!Close, Fate
    <3>3. QED
      BY <3>2 DEF FifoStep, Fifo!Next
  <2>7. QED
    BY <2>5, <2>6, RunningNext
<1>10. QED
  BY <1>5, <1>6, <1>7, <1>8, <1>9, StepKinds

LEMMA FifoInit == Init => Fifo!Init
<1> SUFFICES ASSUME Init
             PROVE  Fifo!Init
  OBVIOUS
<1>1. NumPending = 0
  BY DEF Init, RingInit, NumPending
<1>2. PendingIds = << >>
  BY <1>1 DEF PendingIds
<1>3. InHand = {} /\ Publishing = {} /\ event_id_counter = 0
  BY DEF Init, InHand, Publishing, Consumers
<1>4. Known /\ Apart
  BY InitDInv DEF DInv
<1>5. \A n \in 1 .. MaxEvents : FateOf(n) = "new"
  <2>1. \A n \in 1 .. MaxEvents : n > event_id_counter
    BY <1>3
  <2>2. QED
    BY <1>3, <1>4, <2>1, FateLemma
<1>6. QED
  BY <1>2, <1>5 DEF Fifo!Init, Init
-----------------------------------------------------------------------------
(***************************************************************************)
(* The theorems.                                                            *)
(***************************************************************************)

\* The invariant is inductive.
THEOREM Invariance == Spec => []IInv
<1>1. IInv /\ [Next]_vars => IInv'
  BY TypeOKStep, RingInvStep, HeldStep, ExitOrderStep, NoLostWakeupStep DEF IInv
<1>2. QED
  BY InitIInv, <1>1, PTL DEF Spec

\* The state of the threads, the ring and the work item is well formed: the
\* indices stay inside the array, a batch stays within max_batch, and what
\* reaches the subscribers is always an event that was published.
THEOREM TypeCorrect == Spec => []TypeOK
<1>1. IInv => TypeOK
  BY DEF IInv
<1>2. QED
  BY Invariance, <1>1, PTL

\* queue_count exceeds the number of pending events by exactly the events
\* ever dropped, whatever the publishers and consumers do (events.c:143-150).
THEOREM CountDrift == Spec => []CountIsPendingPlusDropped
<1>1. IInv => CountIsPendingPlusDropped
  BY DEF IInv
<1>2. QED
  BY Invariance, <1>1, PTL

\* While the dispatcher runs no pending event is left with nobody to dispatch
\* it (events.c:155, 323).
THEOREM WakeupKept == Spec => []NoLostWakeup
<1>1. IInv => NoLostWakeup
  BY DEF IInv
<1>2. QED
  BY Invariance, <1>1, PTL

\* The workqueue and the dispatcher are never released under a running worker
\* (events.c:94-98, 110).
THEOREM WorkerStopped == Spec => []WorkerStoppedBeforeFree
<1>1. IInv => WorkerStoppedBeforeFree
  BY DEF IInv, ExitOrder, WorkerStoppedBeforeFree
<1>2. QED
  BY Invariance, <1>1, PTL

\* No step of a thread leads out of rest: publishers and consumers find
\* running cleared, and there is no timer and no queued work to go on with
\* (events.c:91, 154, 323).
THEOREM RestFinal == Spec => RestIsFinal
<1>1. IInv /\ [Next]_vars /\ AtRest => AtRest'
  <2> SUFFICES ASSUME IInv, [Next]_vars, AtRest
               PROVE  AtRest'
    OBVIOUS
  <2> USE DEF AtRest
  <2>0. TypeOK /\ ~running
    BY DEF IInv, ExitOrder
  <2>1. ASSUME NEW p \in Publishers, NEW delayed \in BOOLEAN, PublishBegin(p, delayed)
        PROVE  AtRest'
    BY <2>0, <2>1 DEF PublishBegin, PubAt, TypeOK, conVars, exitVars
  <2>2. ASSUME NEW p \in Publishers, PublishStep(p)
        PROVE  AtRest'
    BY <2>0, <2>2 DEF PublishStep, PublishEnqueue, PublishCheckRunning,
                      PublishArm, PubAt, TypeOK, conVars, exitVars
  <2>3. ASSUME NEW f \in Flushers, FlushBegin(f)
        PROVE  AtRest'
    BY <2>0, <2>3 DEF FlushBegin, ConAt, TypeOK, pubVars, exitVars
  <2>4. ASSUME NEW c \in Consumers,
               \/ CheckCount(c) \/ DequeueNothing(c) \/ Dequeue(c) \/ Dispatch(c)
               \/ LoadProcessed(c) \/ StoreProcessed(c)
        PROVE  AtRest'
    BY <2>0, <2>4 DEF CheckCount, DequeueNothing, Dequeue, Dispatch, LoadProcessed,
                      StoreProcessed, ConAt, TypeOK, pubVars, exitVars
  <2>5. ASSUME NEW c \in Consumers, CheckMore(c) \/ CheckRunning(c) \/ Resched(c)
        PROVE  AtRest'
    BY <2>0, <2>5 DEF CheckMore, CheckRunning, Resched, ConAt, TypeOK, pubVars,
                      exitVars
  <2>6. ASSUME TimerExpires \/ WorkerStart \/ ExitStop \/ UNCHANGED vars
        PROVE  AtRest'
    BY <2>6 DEF TimerExpires, WorkerStart, ExitStop, ExitAt, vars, pubVars,
                conVars, exitVars
  <2>7. ASSUME ExitStep
        PROVE  AtRest'
    BY <2>7 DEF ExitStep, ExitCancel, ExitFlush, ExitDestroy, ExitFree, ExitAt,
                pubVars, conVars
  <2>8. QED
    BY <2>1, <2>2, <2>3, <2>4, <2>5, <2>6, <2>7 DEF Next, ConsumeStep
<1>2. QED
  BY <1>1, Invariance, PTL DEF Spec, RestIsFinal

\* The second invariant, about the events, is inductive given the first.
THEOREM DeliveryInvariance == Spec => []DInv
BY InitDInv, DInvStep, Invariance, PTL DEF Spec

\* At any moment every event that got the lock is pending, counted as dropped,
\* delivered, or held by one consumer (events.c:138-149, 309-311).
THEOREM Accounted == Spec => []EventsAccountedFor
<1>1. DInv => EventsAccountedFor
  BY DEF DInv
<1>2. QED
  BY DeliveryInvariance, <1>1, PTL

\* No event is delivered twice, and no consumer reads a slot that has been
\* reused: the ids pending, in hand and delivered are all different
\* (events.c:146, 309).
THEOREM OnePlace == Spec => []EachEventInOnePlace
<1>1. ASSUME IInv, DInv
      PROVE  EachEventInOnePlace
  <2>1. Sized /\ Apart
    BY <1>1 DEF DInv
  <2>2. NumPending \in Nat /\ Cardinality(InHand) \in Nat /\ NumDelivered \in Nat
    BY <1>1, <2>1, PendingFacts, FiniteConsumers, FS_CardinalityType DEF IInv, TypeOK, Sized, NumDelivered
  <2>3. PendingIdSet \cap HandIds = {} /\ (PendingIdSet \cup HandIds) \cap DeliveredIds = {}
    BY <2>1 DEF Apart
  <2> DEFINE S == PendingIdSet \cup HandIds
  <2>4. IsFiniteSet(S) /\ Cardinality(S) = NumPending + Cardinality(InHand)
    BY <2>1, <2>2, <2>3, DisjointUnion DEF Sized
  <2> HIDE DEF S
  <2>5. S \cap DeliveredIds = {}
    BY <2>3 DEF S
  <2>6. Cardinality(S \cup DeliveredIds) = NumPending + Cardinality(InHand) + NumDelivered
    BY <2>1, <2>2, <2>4, <2>5, DisjointUnion DEF Sized
  <2>7. S \cup DeliveredIds = Range(PendingIds) \cup {con_event[c].id : c \in InHand} \cup DeliveredIds
    BY DEF S, PendingIdSet, HandIds
  <2>8. QED
    BY <2>6, <2>7 DEF EachEventInOnePlace
<1>2. QED
  BY Invariance, DeliveryInvariance, <1>1, PTL

\* A consumer delivers the events of one publishing thread in the order in
\* which the thread published them (events.c:130).
THEOREM InThreadOrder == Spec => []ThreadOrder
<1>1. DInv => ThreadOrder
  BY DEF DInv
<1>2. QED
  BY DeliveryInvariance, <1>1, PTL

\* processed_events never counts a delivery that did not happen
\* (events.c:318).
THEOREM NotOverstated == Spec => []ProcessedNotOverstated
<1>1. ASSUME IInv, DInv
      PROVE  ProcessedNotOverstated
  <2>1. /\ processed_events + Cardinality(Finishing) <= NumDelivered
        /\ Cardinality(Finishing) \in Nat /\ processed_events \in Nat /\ NumDelivered \in Nat
    BY <1>1, FiniteConsumers, FS_CardinalityType DEF IInv, TypeOK, DInv, Sized, NumDelivered, RoomToCount
  <2>2. QED
    BY <2>1 DEF ProcessedNotOverstated
<1>2. QED
  BY Invariance, DeliveryInvariance, <1>1, PTL

\* Until process_pending_events handles an event the statistics are exact:
\* what was published is processed, dropped, pending or in somebody's hands
\* (events.c:147-149, 318).
THEOREM StatsExact == Spec => []StatsBalance
<1>1. ASSUME IInv, DInv, WorkerAlone
      PROVE  total_events = processed_events + dropped_events + NumPending
               + Cardinality({c \in Consumers : con_pc[c] \in {"dispatch", "load", "store"}})
  <2> DEFINE B == {c \in Consumers : con_pc[c] \in {"dispatch", "load", "store"}}
             h == Cardinality(InHand)
             f == Cardinality(Finishing)
  <2>1. B = InHand \cup Finishing /\ InHand \cap Finishing = {}
    BY DEF InHand, Finishing
  <2>2. Cardinality(B) = h + f
    BY <2>1, FiniteConsumers, DisjointUnion
  <2>3. h \in Nat /\ f \in Nat
    BY FiniteConsumers, FS_CardinalityType
  <2>4. /\ processed_events \in Nat /\ dropped_events \in Nat /\ NumDelivered \in Nat
        /\ NumPending \in Nat
    BY <1>1, PendingFacts, FS_CardinalityType DEF IInv, TypeOK, RingTypeOK, DInv, Sized, NumDelivered
  <2>5. processed_events + f = NumDelivered /\ total_events = NumPending + dropped_events + NumDelivered + h
    BY <1>1 DEF DInv, CountExact, EventsAccountedFor
  <2> HIDE DEF B, h, f
  <2>6. total_events = processed_events + dropped_events + NumPending + Cardinality(B)
    BY <2>2, <2>3, <2>4, <2>5
  <2>7. QED
    BY <2>6 DEF B
<1>2. IInv /\ DInv => StatsBalance
  BY <1>1 DEF StatsBalance
<1>3. QED
  BY Invariance, DeliveryInvariance, <1>2, PTL

\* The steps of the bounded FIFO, without its fairness.
FifoSafety == Fifo!Init /\ [][Fifo!Next]_(Fifo!vars)

\* Publishers, worker, flushers and unloading together do what a bounded FIFO
\* does: only the oldest event is ever given up, only when QueueSize - 1 are
\* pending, and every event goes from new over queued and taken to delivered
\* without a step back (events.c:130-150, 300-315).
THEOREM FifoImplemented == Spec => FifoSafety
<1>1. Init => Fifo!Init
  BY FifoInit
<1>2. IInv /\ IInv' /\ DInv /\ DInv' /\ [Next]_vars => [Fifo!Next]_(Fifo!vars)
  BY FifoSimulation DEF FifoStep
<1>3. QED
  BY <1>1, <1>2, Invariance, DeliveryInvariance, PTL DEF Spec, FifoSafety
=============================================================================
