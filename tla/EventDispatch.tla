---------------------------- MODULE EventDispatch ----------------------------
(***************************************************************************)
(* The subscriber list of src/src/core/events.c: subscribe_to_events,       *)
(* unsubscribe_from_events, the cleanup in exit_event_system, and           *)
(* dispatch_to_subscribers, which walks the list under subscriber_lock but  *)
(* lets the lock go around each callback and then goes on from the node it  *)
(* stood at.  The queue that feeds it is EventSystem.                       *)
(*                                                                          *)
(* A subscriber is one kmalloc object.  Objects are named, so that one can  *)
(* be freed and handed out again for another subscriber.                    *)
(***************************************************************************)
EXTENDS Integers, Sequences, SequencesExt, FiniteSetsExt

CONSTANTS
  MaxSubscribers,  \* MAX_SUBSCRIBERS
  Nodes,           \* the objects the allocator can hand out
  Names,           \* names of subscribers; nothing makes them unique
  Masks,           \* the event masks in use, each a set of bit numbers
  Types,           \* the values of event_type_t in use
  Subscribers,     \* threads that call subscribe_to_events
  Dispatchers      \* threads that run dispatch_to_subscribers

ASSUME EventDispatchAssumption ==
  /\ MaxSubscribers \in Nat \ {0} /\ IsFiniteSet(Subscribers)
  /\ \A m \in Masks : m \subseteq 0 .. 31
  /\ Types \subseteq Nat

VARIABLES
  subscriber_list,
  subscriber_count,
  mem,          \* state of each object
  sub,          \* its contents
  unloaded,     \* exit_event_system has freed the subscribers
  sub_pc,       \* where each subscribe_to_events call is
  sub_arg,      \* what it was called with
  sub_node,     \* the object it allocated
  dis_pc,       \* where each dispatch is
  dis_bit,      \* what 1 << event->type came to; 32 is no bit at all
  dis_at,       \* the local variable sub: the node it stands at
  due,          \* history: subscribers still owed a call
  called,       \* history: subscribers called
  undermined    \* history: the node it stands at was freed under it

subVars  == <<sub_pc, sub_arg, sub_node>>
disVars  == <<dis_pc, dis_bit, dis_at>>
history  == <<due, called, undermined>>
vars     == <<subscriber_list, subscriber_count, mem, sub,
              unloaded, subVars, disVars, history>>

Registration == [name : Names, mask : Masks]
NoArg  == [name |-> "none", mask |-> {}]
NoNode == "none"

\* Linux code shifts an int; a count of 32 or more is undefined, x86 takes it
\* modulo 32 and other processors shift everything out.
BitsOf(t) == IF t < 32 THEN {t} ELSE {t % 32, 32}

Init ==
  /\ subscriber_list = <<>>
  /\ subscriber_count = 0
  /\ mem = [n \in Nodes |-> "free"]
  /\ sub = [n \in Nodes |-> NoArg]
  /\ unloaded = FALSE
  /\ sub_pc = [s \in Subscribers |-> "idle"]
  /\ sub_arg = [s \in Subscribers |-> NoArg]
  /\ sub_node = [s \in Subscribers |-> NoNode]
  /\ dis_pc = [d \in Dispatchers |-> "idle"]
  /\ dis_bit = [d \in Dispatchers |-> 0]
  /\ dis_at = [d \in Dispatchers |-> NoNode]
  /\ due = [d \in Dispatchers |-> {}]
  /\ called = [d \in Dispatchers |-> {}]
  /\ undermined = [d \in Dispatchers |-> FALSE]

Linked == ToSet(subscriber_list)

\* Nobody died or spins inside the lock.
LockFree == \A d \in Dispatchers : dis_pc[d] # "stuck"

-----------------------------------------------------------------------------
(***************************************************************************)
(* subscribe_to_events and unsubscribe_from_events.                         *)
(***************************************************************************)

\* Mutant: off by one.
SubscribeCheckLate(s, r) ==
  /\ sub_pc[s] = "idle"
  /\ subscriber_count <= MaxSubscribers
  /\ sub_pc' = [sub_pc EXCEPT ![s] = "alloc"]
  /\ sub_arg' = [sub_arg EXCEPT ![s] = r]
  /\ UNCHANGED <<unloaded, subscriber_list, subscriber_count, mem, sub, sub_node,
                 disVars, history>>

\* The limit is tested before the lock is taken.
SubscribeCheck(s, r) ==
  /\ sub_pc[s] = "idle"
  /\ subscriber_count < MaxSubscribers
  /\ sub_pc' = [sub_pc EXCEPT ![s] = "alloc"]
  /\ sub_arg' = [sub_arg EXCEPT ![s] = r]
  /\ UNCHANGED <<unloaded, subscriber_list, subscriber_count, mem, sub, sub_node,
                 disVars, history>>

\* kzalloc, the assignments and INIT_LIST_HEAD: the object's next pointer is
\* now its own.
SubscribeAlloc(s, n) ==
  /\ sub_pc[s] = "alloc"
  /\ mem[n] = "free"
  /\ mem' = [mem EXCEPT ![n] = "own"]
  /\ sub' = [sub EXCEPT ![n] = sub_arg[s]]
  /\ sub_node' = [sub_node EXCEPT ![s] = n]
  /\ sub_pc' = [sub_pc EXCEPT ![s] = "link"]
  /\ UNCHANGED <<unloaded, subscriber_list, subscriber_count, sub_arg, disVars, history>>

\* -ENOMEM
SubscribeNoMemory(s) ==
  /\ sub_pc[s] = "alloc"
  /\ sub_pc' = [sub_pc EXCEPT ![s] = "idle"]
  /\ sub_arg' = [sub_arg EXCEPT ![s] = NoArg]
  /\ UNCHANGED <<unloaded, subscriber_list, subscriber_count, mem, sub, sub_node,
                 disVars, history>>

SubscribeLink(s) ==
  /\ sub_pc[s] = "link"
  /\ LockFree
  /\ subscriber_list' = Append(subscriber_list, sub_node[s])
  /\ mem' = [mem EXCEPT ![sub_node[s]] = "linked"]
  /\ subscriber_count' = subscriber_count + 1
  /\ sub_pc' = [sub_pc EXCEPT ![s] = "idle"]
  /\ sub_arg' = [sub_arg EXCEPT ![s] = NoArg]
  /\ sub_node' = [sub_node EXCEPT ![s] = NoNode]
  /\ UNCHANGED <<unloaded, sub, disVars, history>>

\* What freeing objects means to the dispatches in progress.
Forget(freed) ==
  /\ due' = [d \in Dispatchers |-> due[d] \ freed]
  /\ called' = [d \in Dispatchers |-> called[d] \ freed]
  /\ undermined' = [d \in Dispatchers |-> undermined[d] \/ dis_at[d] \in freed]

\* The first subscriber of that name goes; without one, -ENOENT.
Unsubscribe(name) ==
  LET matches == {i \in DOMAIN subscriber_list : sub[subscriber_list[i]].name = name}
      n       == subscriber_list[Min(matches)]
  IN  /\ LockFree
      /\ matches # {}
      /\ subscriber_list' = RemoveAt(subscriber_list, Min(matches))
      /\ mem' = [mem EXCEPT ![n] = "free"]
      /\ sub' = [sub EXCEPT ![n] = NoArg]
      /\ subscriber_count' = subscriber_count - 1
      /\ Forget({n})
      /\ UNCHANGED <<unloaded, subVars, disVars>>

\* Mutant: the count is not reset.
FreeSubscribersKeepsCount ==
  /\ LockFree
  /\ ~unloaded
  /\ unloaded' = TRUE
  /\ subscriber_list' = <<>>
  /\ mem' = [n \in Nodes |-> IF n \in Linked THEN "free" ELSE mem[n]]
  /\ sub' = [n \in Nodes |-> IF n \in Linked THEN NoArg ELSE sub[n]]
  /\ Forget(Linked)
  /\ UNCHANGED <<subscriber_count, subVars, disVars>>

\* The cleanup of exit_event_system.  Subscribing goes on working after it.
FreeSubscribers ==
  /\ LockFree
  /\ ~unloaded
  /\ unloaded' = TRUE
  /\ subscriber_list' = <<>>
  /\ mem' = [n \in Nodes |-> IF n \in Linked THEN "free" ELSE mem[n]]
  /\ sub' = [n \in Nodes |-> IF n \in Linked THEN NoArg ELSE sub[n]]
  /\ subscriber_count' = 0
  /\ Forget(Linked)
  /\ UNCHANGED <<subVars, disVars>>
-----------------------------------------------------------------------------
(***************************************************************************)
(* dispatch_to_subscribers.                                                 *)
(***************************************************************************)

Interested(n, bit) == bit \in sub[n].mask

\* The walk, from position i of the list to the next callback or to the end;
\* active is never cleared, so every node is a candidate.
Walk(d, i, bit) ==
  LET hits == {j \in i .. Len(subscriber_list) : Interested(subscriber_list[j], bit)}
  IN  IF hits # {}
      THEN /\ dis_pc' = [dis_pc EXCEPT ![d] = "unlocked"]
           /\ dis_bit' = [dis_bit EXCEPT ![d] = bit]
           /\ dis_at' = [dis_at EXCEPT ![d] = subscriber_list[Min(hits)]]
           /\ UNCHANGED <<called, undermined>>
      ELSE /\ dis_pc' = [dis_pc EXCEPT ![d] = "idle"]
           /\ dis_bit' = [dis_bit EXCEPT ![d] = 0]
           /\ dis_at' = [dis_at EXCEPT ![d] = NoNode]
           /\ called' = [called EXCEPT ![d] = {}]
           /\ undermined' = [undermined EXCEPT ![d] = FALSE]

DispatchBegin(d, t, bit) ==
  /\ dis_pc[d] = "idle"
  /\ LockFree
  /\ due' = [due EXCEPT ![d] = {n \in Linked : t \in sub[n].mask}]
  /\ Walk(d, 1, bit)
  /\ UNCHANGED <<unloaded, subscriber_list, subscriber_count, mem, sub, subVars>>

\* sub->callback is read after the lock is gone.  Freed memory may still hold
\* the pointer; whatever else it holds is called too.
Call(d) ==
  /\ dis_pc[d] = "unlocked"
  /\ \/ /\ dis_pc' = [dis_pc EXCEPT ![d] = "called"]
        /\ due' = [due EXCEPT ![d] = @ \ {dis_at[d]}]
        /\ called' = [called EXCEPT ![d] = @ \cup {dis_at[d]}]
     \/ /\ mem[dis_at[d]] = "free"
        /\ dis_pc' = [dis_pc EXCEPT ![d] = "oops"]
        /\ UNCHANGED <<due, called>>
  /\ UNCHANGED <<unloaded, subscriber_list, subscriber_count, mem, sub, subVars,
                 dis_bit, dis_at, undermined>>

\* Mutant: the position is remembered as an index across the callback.
ResumeAtIndex(d) ==
  /\ dis_pc[d] = "called"
  /\ LockFree
  /\ mem[dis_at[d]] = "linked"
  /\ Walk(d, Cardinality(called[d]) + 1, dis_bit[d])
  /\ due' = IF dis_pc'[d] = "idle" THEN [due EXCEPT ![d] = {}] ELSE due
  /\ UNCHANGED <<unloaded, subscriber_list, subscriber_count, mem, sub, subVars>>

\* Back in the lock, on along the next pointer of the node it stands at.
ResumeLinked(d) ==
  /\ dis_pc[d] = "called"
  /\ LockFree
  /\ mem[dis_at[d]] = "linked"
  /\ Walk(d, SelectInSeq(subscriber_list, LAMBDA n : n = dis_at[d]) + 1, dis_bit[d])
  /\ due' = IF dis_pc'[d] = "idle" THEN [due EXCEPT ![d] = {}] ELSE due
  /\ UNCHANGED <<unloaded, subscriber_list, subscriber_count, mem, sub, subVars>>

\* list_del poisoned the pointer: a fault inside the lock.
ResumeFreed(d) ==
  /\ dis_pc[d] = "called"
  /\ LockFree
  /\ mem[dis_at[d]] = "free"
  /\ dis_pc' = [dis_pc EXCEPT ![d] = "stuck"]
  /\ UNCHANGED <<unloaded, subscriber_list, subscriber_count, mem, sub, subVars,
                 dis_bit, dis_at, history>>

\* The object is being made into another subscriber and points to itself: it
\* is called again if its mask fits, else the walk spins on it in the lock
\* that the subscriber needs to link it.
ResumeSelfLoop(d) ==
  /\ dis_pc[d] = "called"
  /\ LockFree
  /\ mem[dis_at[d]] = "own"
  /\ dis_pc' = [dis_pc EXCEPT
       ![d] = IF Interested(dis_at[d], dis_bit[d]) THEN "unlocked" ELSE "stuck"]
  /\ UNCHANGED <<unloaded, subscriber_list, subscriber_count, mem, sub, subVars,
                 dis_bit, dis_at, history>>
-----------------------------------------------------------------------------
Next ==
  \/ \E s \in Subscribers :
       \/ \E r \in Registration : SubscribeCheck(s, r)
       \/ \E n \in Nodes : SubscribeAlloc(s, n)
       \/ SubscribeNoMemory(s)
       \/ SubscribeLink(s)
  \/ \E name \in Names : Unsubscribe(name)
  \/ FreeSubscribers
  \/ \E d \in Dispatchers :
       \/ \E t \in Types : \E bit \in BitsOf(t) : DispatchBegin(d, t, bit)
       \/ Call(d)
       \/ ResumeLinked(d)
       \/ ResumeFreed(d)
       \/ ResumeSelfLoop(d)

Spec == Init /\ [][Next]_vars
-----------------------------------------------------------------------------
(***************************************************************************)
(* Correctness properties.                                                  *)
(***************************************************************************)

\* The list, the count and the allocator agree whatever interleaves: no node
\* is linked twice, subscriber_count is the length of the list, a node is
\* linked, free, or owned by exactly the call that is about to link it
\* (events.c:229-232, 248-257, 102-107).
SubscriberListConsistent ==
  /\ subscriber_list \in Seq(Nodes)
  /\ IsInjective(subscriber_list)
  /\ subscriber_count = Len(subscriber_list)
  /\ mem \in [Nodes -> {"free", "own", "linked"}]
  /\ \A n \in Nodes : mem[n] = "linked" <=> n \in Linked
  /\ \A n \in Nodes : mem[n] = "own" =>
       Cardinality({s \in Subscribers : sub_pc[s] = "link" /\ sub_node[s] = n}) = 1

\* MAX_SUBSCRIBERS is tested outside the lock, so calls that race can exceed
\* it, but by no more than the calls in progress besides the last
\* (events.c:213, 231).
CountOvershoot ==
  subscriber_count + Cardinality({s \in Subscribers : sub_pc[s] # "idle"})
    < MaxSubscribers + Cardinality(Subscribers)

\* A subscriber that wants the event and stays subscribed while it is
\* dispatched is called exactly once, though the lock is given up around each
\* callback and others subscribe and unsubscribe meanwhile; the one exception
\* is a dispatch whose own node was freed under it (events.c:278-289).
CalledExactlyOnce ==
  [][\A d \in Dispatchers :
       ~undermined[d] =>
         /\ dis_pc[d] = "called" /\ dis_pc'[d] = "idle" => due[d] = {}
         /\ dis_pc[d] = "unlocked" /\ dis_pc'[d] = "called"
              => dis_at[d] \notin called[d]]_vars

\* events.c:284: "Call subscriber callback (outside spinlock for safety)".
CallbackOutsideLockIsSafe ==
  \A d \in Dispatchers : dis_pc[d] \notin {"oops", "stuck"}
=============================================================================
