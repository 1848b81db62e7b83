----------------------------- MODULE EventSystem -----------------------------
(***************************************************************************)
(* The event system of src/src/core/events.c: threads that publish, the     *)
(* workqueue thread that runs event_dispatch_worker, threads that run the   *)
(* same function through process_pending_events, and exit_event_system.     *)
(* Delivery to the subscribers is one step here; EventDispatch looks into   *)
(* it.                                                                      *)
(*                                                                          *)
(* A step is what other threads cannot interrupt: a critical section of     *)
(* queue_lock, one atomic operation, or one access to processed_events,     *)
(* which is incremented under no lock.                                      *)
(***************************************************************************)
EXTENDS EventRing, FiniteSets, Functions

CONSTANTS
  Worker,      \* the single thread of the rootshield_events workqueue
  Flushers,    \* threads that call process_pending_events
  MaxBatch,    \* max_batch of event_dispatch_worker
  MaxEvents,   \* bound of the runs on event_id_counter
  Unloads      \* whether exit_event_system is called

ASSUME EventSystemAssumption ==
  /\ Worker \notin Flushers
  /\ IsFiniteSet(Flushers)
  /\ MaxBatch \in Nat \ {0}
  /\ MaxEvents \in Nat
  /\ Unloads \in BOOLEAN

Consumers == Flushers \cup {Worker}

VARIABLES
  event_id_counter,
  processed_events,
  running,       \* g_dispatcher->running
  dispatcher,    \* "live", "no_workqueue" once that is destroyed, "freed"
  work,          \* state of g_dispatcher->dispatch_work
  exit_pc,       \* where exit_event_system is
  pub_pc,        \* where each publisher is
  pub_event,     \* the event it is publishing
  pub_delayed,   \* whether it came through publish_event_async
  con_pc,        \* where each execution of event_dispatch_worker is
  con_batch,     \* its events_processed
  con_event,     \* its local copy of the event it handles
  con_seen,      \* the value of processed_events it has loaded
  delivered      \* history: the events each consumer passed to subscribers

pubVars  == <<event_id_counter, pub_pc, pub_event, pub_delayed>>
conVars  == <<processed_events, con_pc, con_batch, con_event, con_seen,
              delivered>>
exitVars == <<running, dispatcher, exit_pc>>
vars     == <<ringVars, pubVars, conVars, exitVars, work>>

WorkStates == {"idle", "delayed", "queued", "canceling", "oops"}
PubStates  == {"idle", "enqueue", "check_running", "arm", "oops"}
ConStates  == {"idle", "check", "dequeue", "dispatch", "load", "store",
               "resched", "check_running", "arm", "oops"}
ExitStates == {"none", "cancel", "flush", "destroy", "free", "done"}

TypeOK ==
  /\ RingTypeOK
  /\ event_id_counter \in Nat
  /\ processed_events \in Nat
  /\ running \in BOOLEAN
  /\ dispatcher \in {"live", "no_workqueue", "freed"}
  /\ work \in WorkStates
  /\ exit_pc \in ExitStates
  /\ pub_pc \in [Publishers -> PubStates]
  /\ pub_event \in [Publishers -> Event \cup {NoEvent}]
  /\ pub_delayed \in [Publishers -> BOOLEAN]
  /\ con_pc \in [Consumers -> ConStates]
  /\ con_batch \in [Consumers -> 0 .. MaxBatch]
  /\ con_event \in [Consumers -> Event \cup {NoEvent}]
  /\ con_seen \in [Consumers -> Nat]
  /\ delivered \in [Consumers -> Seq(Event)]

\* init_event_system.  It leaves the ring as it finds it: zeroed by the
\* loader, the module having one life.
Init ==
  /\ RingInit
  /\ event_id_counter = 0
  /\ processed_events = 0
  /\ running = TRUE
  /\ dispatcher = "live"
  /\ work = "idle"
  /\ exit_pc = "none"
  /\ pub_pc = [p \in Publishers |-> "idle"]
  /\ pub_event = [p \in Publishers |-> NoEvent]
  /\ pub_delayed = [p \in Publishers |-> FALSE]
  /\ con_pc = [c \in Consumers |-> "idle"]
  /\ con_batch = [c \in Consumers |-> 0]
  /\ con_event = [c \in Consumers |-> NoEvent]
  /\ con_seen = [c \in Consumers |-> 0]
  /\ delivered = [c \in Consumers |-> <<>>]

PubAt(p, from, to) ==
  /\ pub_pc[p] = from
  /\ pub_pc' = [pub_pc EXCEPT ![p] = to]

ConAt(c, from, to) ==
  /\ con_pc[c] = from
  /\ con_pc' = [con_pc EXCEPT ![c] = to]

ExitAt(from, to) ==
  /\ exit_pc = from
  /\ exit_pc' = to

\* A call that returns (or dies) leaves no locals behind.
Return(p) ==
  /\ pub_event' = [pub_event EXCEPT ![p] = NoEvent]
  /\ pub_delayed' = [pub_delayed EXCEPT ![p] = FALSE]

\* queue_delayed_work: nothing happens if the work is already pending, so an
\* armed timer keeps its delay.
QueueDelayedWork(delayed) ==
  work' = IF work # "idle" THEN work
          ELSE IF delayed THEN "delayed" ELSE "queued"
-----------------------------------------------------------------------------
(***************************************************************************)
(* publish_event and publish_event_async.                                   *)
(***************************************************************************)

\* The test of g_dispatcher (a call after teardown returns -EINVAL and
\* changes nothing), then the event's id, taken before queue_lock.
PublishBegin(p, delayed) ==
  /\ dispatcher # "freed"
  /\ event_id_counter < MaxEvents
  /\ PubAt(p, "idle", "enqueue")
  /\ event_id_counter' = event_id_counter + 1
  /\ pub_event' = [pub_event EXCEPT
                     ![p] = [id |-> event_id_counter', thread |-> p]]
  /\ pub_delayed' = [pub_delayed EXCEPT ![p] = delayed]
  /\ UNCHANGED <<ringVars, conVars, exitVars, work>>

PublishEnqueue(p) ==
  /\ PubAt(p, "enqueue", "check_running")
  /\ Put(pub_event[p])
  /\ UNCHANGED <<event_id_counter, pub_event, pub_delayed, conVars, exitVars,
                 work>>

\* Mutant: the dispatcher's presence is taken for its running.
PublishCheckPresent(p) ==
  /\ PubAt(p, "check_running", IF dispatcher = "freed" THEN "oops" ELSE "arm")
  /\ IF pub_pc'[p] = "arm" THEN UNCHANGED <<pub_event, pub_delayed>> ELSE Return(p)
  /\ UNCHANGED <<ringVars, event_id_counter, conVars, exitVars, work>>

\* atomic_read(&g_dispatcher->running): by now g_dispatcher may be NULL.
PublishCheckRunning(p) ==
  /\ PubAt(p, "check_running",
           IF dispatcher = "freed" THEN "oops"
           ELSE IF running THEN "arm" ELSE "idle")
  /\ IF pub_pc'[p] = "arm" THEN UNCHANGED <<pub_event, pub_delayed>> ELSE Return(p)
  /\ UNCHANGED <<ringVars, event_id_counter, conVars, exitVars, work>>

\* queue_delayed_work on g_dispatcher->workqueue.  After destroy_workqueue
\* the immediate form enters the freed workqueue; the delayed form only
\* starts the timer.
PublishArm(p) ==
  /\ \/ /\ dispatcher = "live" \/ (dispatcher = "no_workqueue" /\ pub_delayed[p])
        /\ PubAt(p, "arm", "idle")
        /\ QueueDelayedWork(pub_delayed[p])
     \/ /\ dispatcher = "freed" \/ (dispatcher = "no_workqueue" /\ ~pub_delayed[p])
        /\ PubAt(p, "arm", "oops")
        /\ UNCHANGED work
  /\ Return(p)
  /\ UNCHANGED <<ringVars, event_id_counter, conVars, exitVars>>
-----------------------------------------------------------------------------
(***************************************************************************)
(* The workqueue and event_dispatch_worker.                                 *)
(***************************************************************************)

\* The timer of a delayed work item; when the workqueue is gone it fires
\* into freed memory.
TimerExpires ==
  /\ work = "delayed"
  /\ work' = IF dispatcher = "live" THEN "queued" ELSE "oops"
  /\ UNCHANGED <<ringVars, pubVars, conVars, exitVars>>

\* The pending mark goes before the function runs, so the work can be queued
\* again while it runs; one thread, so two runs never overlap.
WorkerStart ==
  /\ work = "queued"
  /\ work' = "idle"
  /\ ConAt(Worker, "idle", "check")
  /\ con_batch' = [con_batch EXCEPT ![Worker] = 0]
  /\ UNCHANGED <<ringVars, pubVars, exitVars, processed_events, con_event,
                 con_seen, delivered>>

FlushBegin(f) ==
  /\ dispatcher # "freed"
  /\ ConAt(f, "idle", "check")
  /\ con_batch' = [con_batch EXCEPT ![f] = 0]
  /\ UNCHANGED <<ringVars, pubVars, exitVars, work, processed_events,
                 con_event, con_seen, delivered>>

\* The loop condition, which reads queue_count without queue_lock.
CheckCount(c) ==
  /\ ConAt(c, "check", IF con_batch[c] < MaxBatch /\ queue_count > 0
                       THEN "dequeue" ELSE "resched")
  /\ UNCHANGED <<ringVars, pubVars, exitVars, work, processed_events,
                 con_batch, con_event, con_seen, delivered>>

\* Mutant: an empty ring does not leave the loop body.
DequeueFallsThrough(c) ==
  /\ Empty
  /\ ConAt(c, "dequeue", "load")
  /\ UNCHANGED <<ringVars, pubVars, exitVars, work, processed_events,
                 con_batch, con_event, con_seen, delivered>>

\* The test for an empty ring that leaves the loop.
DequeueNothing(c) ==
  /\ Empty
  /\ ConAt(c, "dequeue", "resched")
  /\ UNCHANGED <<ringVars, pubVars, exitVars, work, processed_events,
                 con_batch, con_event, con_seen, delivered>>

Dequeue(c) ==
  /\ ConAt(c, "dequeue", "dispatch")
  /\ con_event' = [con_event EXCEPT ![c] = event_queue[queue_head]]
  /\ Take
  /\ UNCHANGED <<pubVars, exitVars, work, processed_events, con_batch,
                 con_seen, delivered>>

\* dispatch_to_subscribers
Dispatch(c) ==
  /\ ConAt(c, "dispatch", "load")
  /\ delivered' = [delivered EXCEPT ![c] = Append(@, con_event[c])]
  /\ UNCHANGED <<ringVars, pubVars, exitVars, work, processed_events,
                 con_batch, con_event, con_seen>>

\* processed_events++ is a load and a store.
LoadProcessed(c) ==
  /\ ConAt(c, "load", "store")
  /\ con_seen' = [con_seen EXCEPT ![c] = processed_events]
  /\ UNCHANGED <<ringVars, pubVars, exitVars, work, processed_events,
                 con_batch, con_event, delivered>>

StoreProcessed(c) ==
  /\ ConAt(c, "store", "check")
  /\ processed_events' = con_seen[c] + 1
  /\ con_batch' = [con_batch EXCEPT ![c] = @ + 1]
  /\ con_event' = [con_event EXCEPT ![c] = NoEvent]
  /\ con_seen' = [con_seen EXCEPT ![c] = 0]
  /\ UNCHANGED <<ringVars, pubVars, exitVars, work, delivered>>

\* Mutant: what a full batch leaves behind is left to the next publisher.
CheckMoreNever(c) ==
  /\ ConAt(c, "resched", "idle")
  /\ con_batch' = [con_batch EXCEPT ![c] = 0]
  /\ UNCHANGED <<ringVars, pubVars, exitVars, work, processed_events,
                 con_event, con_seen, delivered>>

\* "Reschedule if more events pending", first the two tests, then the call.
CheckMore(c) ==
  /\ ConAt(c, "resched", IF queue_count > 0 THEN "check_running" ELSE "idle")
  /\ con_batch' = [con_batch EXCEPT ![c] = 0]
  /\ UNCHANGED <<ringVars, pubVars, exitVars, work, processed_events,
                 con_event, con_seen, delivered>>

\* Mutant: running is not looked at.
CheckRunningNot(c) ==
  /\ ConAt(c, "check_running", IF dispatcher = "freed" THEN "oops" ELSE "arm")
  /\ UNCHANGED <<ringVars, pubVars, exitVars, work, processed_events,
                 con_batch, con_event, con_seen, delivered>>

CheckRunning(c) ==
  /\ ConAt(c, "check_running",
           IF dispatcher = "freed" THEN "oops"
           ELSE IF running THEN "arm" ELSE "idle")
  /\ UNCHANGED <<ringVars, pubVars, exitVars, work, processed_events,
                 con_batch, con_event, con_seen, delivered>>

\* Always with a delay of 10 ms, so a destroyed workqueue is not entered yet.
Resched(c) ==
  /\ \/ /\ dispatcher # "freed"
        /\ ConAt(c, "arm", "idle")
        /\ QueueDelayedWork(TRUE)
     \/ /\ dispatcher = "freed"
        /\ ConAt(c, "arm", "oops")
        /\ UNCHANGED work
  /\ UNCHANGED <<ringVars, pubVars, exitVars, processed_events, con_batch,
                 con_event, con_seen, delivered>>
-----------------------------------------------------------------------------
(***************************************************************************)
(* exit_event_system.                                                       *)
(***************************************************************************)

ExitStop ==
  /\ Unloads
  /\ ExitAt("none", "cancel")
  /\ running' = FALSE
  /\ UNCHANGED <<ringVars, pubVars, conVars, dispatcher, work>>

\* cancel_delayed_work_sync takes the pending mark for itself: until it is
\* done nobody can queue the work.
ExitCancel ==
  /\ ExitAt("cancel", "flush")
  /\ work' = "canceling"
  /\ UNCHANGED <<ringVars, pubVars, conVars, running, dispatcher>>

\* It waits for a run in progress and gives the mark back.
ExitFlush ==
  /\ con_pc[Worker] = "idle"
  /\ ExitAt("flush", "destroy")
  /\ work' = "idle"
  /\ UNCHANGED <<ringVars, pubVars, conVars, running, dispatcher>>

\* Mutant: the workqueue is destroyed without waiting for its thread.
ExitDestroyAtOnce ==
  /\ ExitAt("destroy", "free")
  /\ dispatcher' = "no_workqueue"
  /\ UNCHANGED <<ringVars, pubVars, conVars, running, work>>

\* destroy_workqueue drains what was queued meanwhile, but not a timer.
ExitDestroy ==
  /\ con_pc[Worker] = "idle"
  /\ work # "queued"
  /\ ExitAt("destroy", "free")
  /\ dispatcher' = "no_workqueue"
  /\ UNCHANGED <<ringVars, pubVars, conVars, running, work>>

\* kfree(g_dispatcher); g_dispatcher = NULL
ExitFree ==
  /\ ExitAt("free", "done")
  /\ dispatcher' = "freed"
  /\ UNCHANGED <<ringVars, pubVars, conVars, running, work>>
-----------------------------------------------------------------------------
PublishStep(p) == PublishEnqueue(p) \/ PublishCheckRunning(p) \/ PublishArm(p)

ConsumeStep(c) ==
  \/ CheckCount(c) \/ DequeueNothing(c) \/ Dequeue(c) \/ Dispatch(c)
  \/ LoadProcessed(c) \/ StoreProcessed(c)
  \/ CheckMore(c) \/ CheckRunning(c) \/ Resched(c)

ExitStep == ExitCancel \/ ExitFlush \/ ExitDestroy \/ ExitFree

Next ==
  \/ \E p \in Publishers, delayed \in BOOLEAN : PublishBegin(p, delayed)
  \/ \E p \in Publishers : PublishStep(p)
  \/ \E f \in Flushers : FlushBegin(f)
  \/ \E c \in Consumers : ConsumeStep(c)
  \/ TimerExpires
  \/ WorkerStart
  \/ ExitStop
  \/ ExitStep

\* The scheduler runs a thread that is inside the kernel, timers expire and
\* the workqueue runs what is queued.  Nobody has to publish, to call
\* process_pending_events or to unload the module.
Fairness ==
  /\ \A p \in Publishers : WF_vars(PublishStep(p))
  /\ \A c \in Consumers : WF_vars(ConsumeStep(c))
  /\ WF_vars(TimerExpires)
  /\ WF_vars(WorkerStart)
  /\ WF_vars(ExitStep)

Spec     == Init /\ [][Next]_vars
FairSpec == Spec /\ Fairness
-----------------------------------------------------------------------------
(***************************************************************************)
(* Correctness properties.                                                  *)
(***************************************************************************)

\* The events a consumer has taken off the ring and not yet passed on.
InHand == {c \in Consumers : con_pc[c] = "dispatch"}

DeliveredIds == UNION {{e.id : e \in Range(delivered[c])} : c \in Consumers}
PendingIds   == [i \in 1 .. NumPending |-> Pending[i].id]

Deliveries   == UNION {{c} \X DOMAIN delivered[c] : c \in Consumers}
NumDelivered == Cardinality(Deliveries)

\* Every call of publish_event that got the lock is, at any moment, pending,
\* counted as dropped, delivered, or held by exactly one consumer: the three
\* statistics, the two ring indices and the lock-free worker agree
\* (events.c:138-149, 309-311).
EventsAccountedFor ==
  total_events = NumPending + dropped_events + NumDelivered
                 + Cardinality(InHand)

\* No slot is delivered twice and no consumer reads a slot that a publisher
\* has since reused: the ids pending, in hand and delivered are all different
\* although stale copies stay in the array (events.c:146, 309).
EachEventInOnePlace ==
  Cardinality(Range(PendingIds) \cup {con_event[c].id : c \in InHand}
                \cup DeliveredIds)
    = NumPending + Cardinality(InHand) + NumDelivered

\* The events of one publishing thread are delivered by a consumer in the
\* order that thread published them, whatever was dropped in between.  Ids
\* are taken outside queue_lock (events.c:130), so this is not so across
\* threads, nor for all the events of one component: several threads publish
\* under one source name (self_protection.c:333).
ThreadOrder ==
  \A c \in Consumers : \A j \in DOMAIN delivered[c] : \A i \in 1 .. j - 1 :
    delivered[c][i].thread = delivered[c][j].thread
      => delivered[c][i].id < delivered[c][j].id

\* processed_events can lose increments when process_pending_events runs
\* beside the worker, but it never counts a delivery that did not happen
\* (events.c:318).
ProcessedNotOverstated == processed_events <= NumDelivered

\* process_pending_events has passed on no event.
WorkerAlone == \A f \in Flushers : delivered[f] = <<>>

\* Until process_pending_events handles an event the statistics are exact:
\* what get_event_stats returns differs from what was published by what is
\* pending or in hand (events.c:147-149, 318).
StatsBalance ==
  WorkerAlone =>
    total_events = processed_events + dropped_events + NumPending
      + Cardinality({c \in Consumers : con_pc[c] \in {"dispatch", "load", "store"}})

\* No lost wake-up: while the dispatcher runs, a pending event has the work
\* item armed, or a publisher on its way to arm it, or a consumer that will
\* still look at queue_count.  The pending mark is cleared before the worker
\* runs and max_batch may leave events behind (events.c:155, 298, 323).
NoLostWakeup ==
  running /\ NumPending > 0 =>
    \/ work # "idle"
    \/ \E p \in Publishers : pub_pc[p] \in {"check_running", "arm"}
    \/ \E c \in Consumers : con_pc[c] \notin {"idle", "oops"}

\* destroy_workqueue and kfree never happen under a running worker
\* (events.c:94-98, 110).
WorkerStoppedBeforeFree == dispatcher # "live" => con_pc[Worker] = "idle"

\* The dispatcher has been told to stop, the work item is at rest after its
\* cancellation, and nobody is between the test of running and
\* queue_delayed_work.
AtRest ==
  /\ exit_pc \in {"destroy", "free", "done"}
  /\ work = "idle"
  /\ \A p \in Publishers : pub_pc[p] # "arm"
  /\ \A c \in Consumers : con_pc[c] # "arm"

\* A stopped dispatcher that has come to rest is never armed again, whoever
\* still publishes: only a call that read running before exit_event_system
\* cleared it can start the timer that outlives the workqueue
\* (events.c:91, 154, 191, 323).
RestIsFinal == [][AtRest => AtRest']_vars

\* exit_event_system does not hang on a worker that keeps re-arming itself:
\* running is cleared first (events.c:91).
UnloadFinishes == exit_pc = "cancel" ~> exit_pc = "done"

(***************************************************************************)
(* The promise of EventFifo, by event id.                                   *)
(***************************************************************************)
FateOf(n) ==
  CASE n \in DeliveredIds -> "delivered"
    [] \E c \in InHand : con_event[c].id = n -> "taken"
    [] n \in Range(PendingIds) -> "queued"
    [] n > event_id_counter -> "new"
    [] \E p \in Publishers : pub_pc[p] = "enqueue" /\ pub_event[p].id = n -> "new"
    [] OTHER -> "lost"

Fifo == INSTANCE EventFifo WITH
          Capacity <- QueueSize - 1,
          Events   <- 1 .. MaxEvents,
          queue    <- PendingIds,
          fate     <- [n \in 1 .. MaxEvents |-> FateOf(n)],
          open     <- running

\* Every step of the threads is a step of the bounded FIFO, or changes
\* nothing it can see: only the oldest event is ever dropped, and only when
\* QueueSize - 1 events are pending; and while the module stays loaded every
\* event is dispatched or dropped in the end.
ImplementsFifo == Fifo!Spec

\* What the comment at events.c:322 says of the worker: "Reschedule if more
\* events pending".
ReschedOnlyIfPending ==
  [][\A c \in Consumers :
       con_pc[c] = "resched" /\ con_pc'[c] = "check_running" => NumPending > 0]_vars
=============================================================================
