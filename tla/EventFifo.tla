------------------------------ MODULE EventFifo ------------------------------
(***************************************************************************)
(* What the event system promises to the components that publish: a FIFO    *)
(* of bounded capacity that gives up its OLDEST event when a new one does    *)
(* not fit, hands each event to at most one dispatch, and never keeps an     *)
(* event for ever.  EventSystem is shown to implement this specification.    *)
(***************************************************************************)
EXTENDS Integers, Sequences

CONSTANTS
  Capacity,   \* events held at once, at least one
  Events      \* the events of the run, each published at most once

VARIABLES
  queue,      \* the accepted events, oldest first
  fate,       \* what has become of each event
  open        \* FALSE once the system is being shut down

vars == <<queue, fate, open>>

TypeOK ==
  /\ queue \in Seq(Events)
  /\ Len(queue) <= Capacity
  /\ fate \in [Events -> {"new", "queued", "taken", "delivered", "lost"}]
  /\ open \in BOOLEAN

Init ==
  /\ queue = <<>>
  /\ fate = [e \in Events |-> "new"]
  /\ open = TRUE

\* There is room.
Accept(e) ==
  /\ fate[e] = "new"
  /\ Len(queue) < Capacity
  /\ queue' = Append(queue, e)
  /\ fate' = [fate EXCEPT ![e] = "queued"]
  /\ UNCHANGED open

\* There is none: the oldest event makes room and is lost.
Displace(e) ==
  /\ fate[e] = "new"
  /\ Len(queue) = Capacity
  /\ queue' = Append(Tail(queue), e)
  /\ fate' = [fate EXCEPT ![e] = "queued", ![Head(queue)] = "lost"]
  /\ UNCHANGED open

TakeOldest ==
  /\ queue # <<>>
  /\ queue' = Tail(queue)
  /\ fate' = [fate EXCEPT ![Head(queue)] = "taken"]
  /\ UNCHANGED open

Deliver(e) ==
  /\ fate[e] = "taken"
  /\ fate' = [fate EXCEPT ![e] = "delivered"]
  /\ UNCHANGED <<queue, open>>

\* Events may still come and go, but nobody is owed anything.
Close ==
  /\ open
  /\ open' = FALSE
  /\ UNCHANGED <<queue, fate>>

Next ==
  \/ \E e \in Events : Accept(e) \/ Displace(e) \/ Deliver(e)
  \/ TakeOldest
  \/ Close

\* While the system is open every event moves on.
Fairness ==
  /\ WF_vars(open /\ TakeOldest)
  /\ \A e \in Events : WF_vars(open /\ Deliver(e))

Spec == Init /\ [][Next]_vars /\ Fairness
=============================================================================
