------------------------------ MODULE EventRing ------------------------------
(***************************************************************************)
(* The circular event buffer of src/src/core/events.c: the array, its two   *)
(* indices, the atomic counter beside them and the two statistics that are  *)
(* updated with them.  Everything here happens inside one critical section  *)
(* of queue_lock, so each operator is a single step of the threads that     *)
(* EventSystem builds around it.                                            *)
(***************************************************************************)
EXTENDS Integers, Sequences

CONSTANTS
  QueueSize,    \* EVENT_QUEUE_SIZE
  Publishers,   \* threads that call publish_event / publish_event_async
  NoEvent       \* what a slot holds before its first use

\* With a single slot the full test of publish_event would also be the empty
\* test; the code's value is 256.
ASSUME QueueSizeAssumption == QueueSize \in Nat /\ QueueSize >= 2

VARIABLES
  event_queue,      \* the slots
  queue_head,       \* index of the oldest pending event
  queue_tail,       \* index of the next free slot
  queue_count,      \* the atomic that the dispatch loop looks at
  total_events,
  dropped_events

ringVars == <<event_queue, queue_head, queue_tail, queue_count,
              total_events, dropped_events>>

\* struct security_event, as far as the queue can tell two events apart: the
\* id given by event_id_counter.  The thread whose call of publish_event it
\* is has no field in the struct: it is noted here for ThreadOrder.  The
\* struct's own source field is a component's name, which several threads
\* publish under.
Event == [id : Nat, thread : Publishers]

ASSUME NoEventAssumption == NoEvent \notin Event

Slot == 0 .. QueueSize - 1

\* Mutant: the index does not wrap.
SuccNoWrap(i) == i + 1

Succ(i) == (i + 1) % QueueSize

\* The events between head and tail.
NumPending == IF queue_head <= queue_tail
              THEN queue_tail - queue_head
              ELSE queue_tail - queue_head + QueueSize

Pending == [i \in 1 .. NumPending |->
              event_queue[(queue_head + i - 1) % QueueSize]]

RingTypeOK ==
  /\ event_queue \in [Slot -> Event \cup {NoEvent}]
  /\ queue_head \in Slot
  /\ queue_tail \in Slot
  /\ queue_count \in Int
  /\ total_events \in Nat
  /\ dropped_events \in Nat

RingInit ==
  /\ event_queue = [i \in Slot |-> NoEvent]
  /\ queue_head = 0
  /\ queue_tail = 0
  /\ queue_count = 0
  /\ total_events = 0
  /\ dropped_events = 0

Full  == Succ(queue_tail) = queue_head
Empty == queue_head = queue_tail

\* Mutant: a full ring is not noticed, so tail runs into head.
PutUnchecked(e) ==
  /\ event_queue' = [event_queue EXCEPT ![queue_tail] = e]
  /\ queue_tail' = Succ(queue_tail)
  /\ queue_count' = queue_count + 1
  /\ total_events' = total_events + 1
  /\ UNCHANGED <<queue_head, dropped_events>>

\* Mutant: the event given up is not counted.
PutDropUncounted(e) ==
  /\ queue_head' = IF Full THEN Succ(queue_head) ELSE queue_head
  /\ event_queue' = [event_queue EXCEPT ![queue_tail] = e]
  /\ queue_tail' = Succ(queue_tail)
  /\ queue_count' = queue_count + 1
  /\ total_events' = total_events + 1
  /\ UNCHANGED dropped_events

\* Mutant: a full ring overwrites its oldest slot without moving the head.
PutOverOldest(e) ==
  /\ event_queue' = [event_queue EXCEPT ![IF Full THEN queue_head ELSE queue_tail] = e]
  /\ queue_tail' = IF Full THEN queue_tail ELSE Succ(queue_tail)
  /\ dropped_events' = IF Full THEN dropped_events + 1 ELSE dropped_events
  /\ queue_count' = queue_count + 1
  /\ total_events' = total_events + 1
  /\ UNCHANGED queue_head

\* Mutant: a full ring gives up the NEW event.
PutRefuses(e) ==
  /\ event_queue' = IF Full THEN event_queue ELSE [event_queue EXCEPT ![queue_tail] = e]
  /\ queue_tail' = IF Full THEN queue_tail ELSE Succ(queue_tail)
  /\ dropped_events' = IF Full THEN dropped_events + 1 ELSE dropped_events
  /\ queue_count' = queue_count + 1
  /\ total_events' = total_events + 1
  /\ UNCHANGED queue_head

\* The body of queue_lock in publish_event: a full ring gives up its oldest
\* event, and queue_count goes up whether or not one was given up.
Put(e) ==
  /\ queue_head' = IF Full THEN Succ(queue_head) ELSE queue_head
  /\ dropped_events' = IF Full THEN dropped_events + 1 ELSE dropped_events
  /\ event_queue' = [event_queue EXCEPT ![queue_tail] = e]
  /\ queue_tail' = Succ(queue_tail)
  /\ queue_count' = queue_count + 1
  /\ total_events' = total_events + 1

\* Mutant: the slot is copied but stays pending.
TakeKeepsHead ==
  /\ ~Empty
  /\ queue_count' = queue_count - 1
  /\ UNCHANGED <<queue_head, event_queue, queue_tail, total_events,
                 dropped_events>>

\* The body of queue_lock in event_dispatch_worker, past its empty test.
Take ==
  /\ ~Empty
  /\ queue_head' = Succ(queue_head)
  /\ queue_count' = queue_count - 1
  /\ UNCHANGED <<event_queue, queue_tail, total_events, dropped_events>>

\* The counter the dispatch loop trusts is exact until the first overflow
\* and from then on too high by every event ever dropped: Put never takes
\* back the count of the event it overwrites.
CountIsPendingPlusDropped == queue_count = NumPending + dropped_events
=============================================================================
