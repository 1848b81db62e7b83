------------------------ MODULE EventDispatch_proofs ------------------------
(***************************************************************************)
(* What holds of the subscriber list for every limit, every allocator and   *)
(* every set of threads.                                                    *)
(***************************************************************************)
EXTENDS EventDispatch, SequenceTheorems, FiniteSetTheorems, WellFoundedInduction, TLAPS

TypeOK ==
  /\ sub \in [Nodes -> Registration \cup {NoArg}]
  /\ sub_pc \in [Subscribers -> {"idle", "alloc", "link"}]
  /\ sub_arg \in [Subscribers -> Registration \cup {NoArg}]
  /\ sub_node \in [Subscribers -> Nodes \cup {NoNode}]
  /\ dis_pc \in [Dispatchers -> {"idle", "unlocked", "called", "oops", "stuck"}]
  /\ dis_at \in [Dispatchers -> Nodes \cup {NoNode}]
  /\ dis_bit \in [Dispatchers -> Nat]
  /\ \A d \in Dispatchers : dis_pc[d] \in {"unlocked", "called"} => dis_at[d] \in Nodes
  /\ due \in [Dispatchers -> SUBSET Nodes]
  /\ called \in [Dispatchers -> SUBSET Nodes]
  /\ undermined \in [Dispatchers -> BOOLEAN]

ListOK ==
  /\ subscriber_list \in Seq(Nodes)
  /\ IsInjective(subscriber_list)
  /\ subscriber_count = Len(subscriber_list)
  /\ mem \in [Nodes -> {"free", "own", "linked"}]
  /\ \A n \in Nodes : mem[n] = "linked" <=> n \in Linked

\* An object that is neither free nor linked belongs to one call of subscribe.
Owned ==
  /\ \A s \in Subscribers : sub_pc[s] = "link" => sub_node[s] \in Nodes /\ mem[sub_node[s]] = "own"
  /\ \A s, u \in Subscribers :
       sub_pc[s] = "link" /\ sub_pc[u] = "link" /\ sub_node[s] = sub_node[u] => s = u
  /\ \A n \in Nodes : mem[n] = "own" => \E s \in Subscribers : sub_pc[s] = "link" /\ sub_node[s] = n

\* Where a dispatch stands: at a linked node, all that is due from there on,
\* and all that was called up to there.
Standing(d) ==
  /\ dis_at[d] \in Linked /\ due[d] \subseteq Linked /\ called[d] \subseteq Linked
  /\ \A n \in due[d] : Interested(n, dis_bit[d])
  /\ \A i, j \in 1 .. Len(subscriber_list) : i < j =>
       /\ ~(subscriber_list[i] \in due[d] /\ subscriber_list[j] = dis_at[d])
       /\ ~(subscriber_list[i] = dis_at[d] /\ subscriber_list[j] \in called[d])
  /\ dis_pc[d] = "unlocked" => dis_at[d] \notin called[d]
  /\ dis_pc[d] = "called" => dis_at[d] \notin due[d]

WalkInOrder(d) ==
  /\ dis_pc[d] \in {"unlocked", "called"} /\ ~undermined[d] => Standing(d)
  /\ dis_pc[d] = "idle" => called[d] = {}

WalksInOrder == \A d \in Dispatchers : WalkInOrder(d)

IInv ==
  /\ TypeOK
  /\ ListOK
  /\ Owned
  /\ WalksInOrder
  /\ CountOvershoot

Busy == {s \in Subscribers : sub_pc[s] # "idle"}

SubscribeStep(s) ==
  \/ \E r \in Registration : SubscribeCheck(s, r)
  \/ \E n \in Nodes : SubscribeAlloc(s, n)
  \/ SubscribeNoMemory(s)
  \/ SubscribeLink(s)
UnsubscribeStep == \E name \in Names : Unsubscribe(name)
DispatchStep(d) ==
  \/ \E t \in Types : \E bit \in BitsOf(t) : DispatchBegin(d, t, bit)
  \/ Call(d) \/ ResumeLinked(d) \/ ResumeFreed(d) \/ ResumeSelfLoop(d)

LEMMA NextSplit ==
  Next <=> \/ \E s \in Subscribers : SubscribeStep(s)
           \/ UnsubscribeStep \/ FreeSubscribers
           \/ \E d \in Dispatchers : DispatchStep(d)
BY DEF Next, SubscribeStep, UnsubscribeStep, DispatchStep
-----------------------------------------------------------------------------
(***************************************************************************)
(* Lists without repetition.                                                *)
(***************************************************************************)
\* A set of naturals that is not empty has a least element.
LEMMA LeastExists ==
  ASSUME NEW T \in SUBSET Nat, T # {}
  PROVE  Min(T) \in T /\ \A y \in T : Min(T) <= y
<1> DEFINE R == {ss \in Nat \X Nat : ss[1] < ss[2]}
<1>1. IsWellFoundedOn(R, Nat)
  BY NatLessThanWellFounded DEF OpToRel
<1>2. \A x, y \in T : y < x => <<y, x>> \in R
  OBVIOUS
<1> HIDE DEF R
<1>3. PICK x \in T : \A y \in T : ~(<<y, x>> \in R)
  BY <1>1, WFMin
<1>4. \A y \in T : ~(y < x)
  BY <1>2, <1>3, Zenon
<1>5. \A y \in T : x <= y
  BY <1>4
<1>6. QED
  BY <1>5 DEF Min

LEMMA AppendFacts ==
  ASSUME NEW S, NEW s \in Seq(S), NEW e \in S, IsInjective(s), e \notin ToSet(s)
  PROVE  /\ Append(s, e) \in Seq(S) /\ IsInjective(Append(s, e))
         /\ Len(Append(s, e)) = Len(s) + 1
         /\ \A i \in 1 .. Len(s) : Append(s, e)[i] = s[i]
         /\ Append(s, e)[Len(s) + 1] = e
         /\ ToSet(Append(s, e)) = ToSet(s) \cup {e}
<1> DEFINE a == Append(s, e)
<1>1. /\ a \in Seq(S) /\ Len(a) = Len(s) + 1 /\ Len(s) \in Nat
      /\ \A i \in 1 .. Len(s) : a[i] = s[i]
      /\ a[Len(s) + 1] = e
  OBVIOUS
<1> HIDE DEF a
<1>2. DOMAIN a = 1 .. Len(s) + 1 /\ DOMAIN s = 1 .. Len(s)
  BY <1>1
<1>3. ToSet(a) = ToSet(s) \cup {e}
  BY <1>1, <1>2 DEF ToSet
<1>4. IsInjective(a)
  BY <1>1, <1>2 DEF ToSet, IsInjective
<1>5. QED
  BY <1>1, <1>3, <1>4 DEF a

LEMMA RemoveAtFacts ==
  ASSUME NEW S, NEW s \in Seq(S), NEW k \in 1 .. Len(s)
  PROVE  /\ RemoveAt(s, k) \in Seq(S) /\ Len(RemoveAt(s, k)) = Len(s) - 1
         /\ \A i \in 1 .. Len(s) - 1 : RemoveAt(s, k)[i] = IF i < k THEN s[i] ELSE s[i + 1]
<1> DEFINE a == SubSeq(s, 1, k - 1)
           b == SubSeq(s, k + 1, Len(s))
<1>1. Len(s) \in Nat /\ k \in Nat /\ k >= 1 /\ k <= Len(s) /\ \A i \in 1 .. Len(s) : s[i] \in S
  OBVIOUS
<1>2. /\ a \in Seq(S) /\ Len(a) = k - 1
      /\ \A i \in 1 .. k - 1 : a[i] = s[i]
  <2>1. \A i \in 1 .. k - 1 : s[i] \in S
    BY <1>1
  <2>2. /\ a \in Seq(S) /\ Len(a) = (IF 1 <= k - 1 THEN (k - 1) - 1 + 1 ELSE 0)
        /\ \A i \in 1 .. (k - 1) - 1 + 1 : a[i] = s[1 + i - 1]
    BY <1>1, <2>1, SubSeqProperties
  <2>3. QED
    BY <1>1, <2>2
<1>3. /\ b \in Seq(S) /\ Len(b) = Len(s) - k
      /\ \A i \in 1 .. Len(s) - k : b[i] = s[k + i]
  <2>1. \A i \in k + 1 .. Len(s) : s[i] \in S
    BY <1>1
  <2>2. /\ b \in Seq(S) /\ Len(b) = (IF k + 1 <= Len(s) THEN Len(s) - (k + 1) + 1 ELSE 0)
        /\ \A i \in 1 .. Len(s) - (k + 1) + 1 : b[i] = s[(k + 1) + i - 1]
    BY <1>1, <2>1, SubSeqProperties
  <2>3. QED
    BY <1>1, <2>2
<1>4. RemoveAt(s, k) = a \o b
  BY DEF RemoveAt
<1> HIDE DEF a, b
<1>5. /\ a \o b \in Seq(S) /\ Len(a \o b) = Len(a) + Len(b)
      /\ \A i \in 1 .. Len(a) + Len(b) : (a \o b)[i] = IF i <= Len(a) THEN a[i] ELSE b[i - Len(a)]
  BY <1>2, <1>3, ConcatProperties
<1>6. Len(a) + Len(b) = Len(s) - 1
  BY <1>1, <1>2, <1>3
<1>7. ASSUME NEW i \in 1 .. Len(s) - 1
      PROVE  (a \o b)[i] = IF i < k THEN s[i] ELSE s[i + 1]
  <2>1. (a \o b)[i] = IF i <= Len(a) THEN a[i] ELSE b[i - Len(a)]
    BY <1>5, <1>6
  <2>2. CASE i < k
    BY <1>1, <1>2, <2>1, <2>2
  <2>3. CASE ~(i < k)
    <3>1. i - (k - 1) \in 1 .. Len(s) - k /\ k + (i - (k - 1)) = i + 1
      BY <1>1, <2>3
    <3>2. ~(i <= Len(a)) /\ Len(a) = k - 1
      BY <1>1, <1>2, <2>3
    <3>3. (a \o b)[i] = b[i - (k - 1)]
      BY <2>1, <3>2
    <3>4. QED
      BY <1>3, <2>3, <3>1, <3>3
  <2>4. QED
    BY <2>2, <2>3
<1>8. QED
  BY <1>4, <1>5, <1>6, <1>7

\* Removing a position of a list without repetition removes its element, and
\* the others keep their order.
LEMMA RemoveFromList ==
  ASSUME NEW S, NEW s \in Seq(S), IsInjective(s), NEW k \in 1 .. Len(s)
  PROVE  LET t == RemoveAt(s, k) IN
         /\ IsInjective(t) /\ ToSet(t) = ToSet(s) \ {s[k]}
         /\ \A i, j \in 1 .. Len(t) : i < j =>
              \E p, q \in 1 .. Len(s) : p < q /\ t[i] = s[p] /\ t[j] = s[q]
<1> DEFINE t == RemoveAt(s, k)
           Old(i) == IF i < k THEN i ELSE i + 1
<1>1. /\ t \in Seq(S) /\ Len(t) = Len(s) - 1 /\ Len(s) \in Nat
      /\ \A i \in 1 .. Len(s) - 1 : t[i] = IF i < k THEN s[i] ELSE s[i + 1]
  <2>1. Len(s) \in Nat
    OBVIOUS
  <2>2. t \in Seq(S) /\ Len(t) = Len(s) - 1
    BY RemoveAtFacts
  <2>3. \A i \in 1 .. Len(s) - 1 : t[i] = IF i < k THEN s[i] ELSE s[i + 1]
    BY RemoveAtFacts, Zenon
  <2>4. QED
    BY <2>1, <2>2, <2>3
<1> HIDE DEF t
<1>2. \A i \in 1 .. Len(s) - 1 : t[i] = s[Old(i)] /\ Old(i) \in 1 .. Len(s) /\ Old(i) # k
  BY <1>1
<1>3. \A i, j \in 1 .. Len(s) - 1 : i < j => Old(i) < Old(j)
  BY <1>1
<1>4. \A p \in 1 .. Len(s) : p # k => \E i \in 1 .. Len(s) - 1 : p = Old(i)
  <2>1. SUFFICES ASSUME NEW p \in 1 .. Len(s), p # k
                 PROVE  \E i \in 1 .. Len(s) - 1 : p = Old(i)
    OBVIOUS
  <2>2. CASE p < k
    BY <1>1, <2>2
  <2>3. CASE p > k
    <3>1. p - 1 \in 1 .. Len(s) - 1 /\ p = Old(p - 1)
      BY <1>1, <2>3
    <3>2. QED
      BY <3>1
  <2>4. QED
    BY <2>1, <2>2, <2>3
<1>5. DOMAIN t = 1 .. Len(s) - 1 /\ DOMAIN s = 1 .. Len(s)
  BY <1>1
<1> HIDE DEF Old
<1>6. IsInjective(t)
  <2>1. SUFFICES ASSUME NEW i \in 1 .. Len(s) - 1, NEW j \in 1 .. Len(s) - 1, t[i] = t[j]
                 PROVE  i = j
    BY <1>5 DEF IsInjective
  <2>2. Old(i) = Old(j)
    BY <1>2, <1>5, <2>1 DEF IsInjective
  <2>3. QED
    BY <1>2, <1>3, <2>2
<1>7. ToSet(t) = ToSet(s) \ {s[k]}
  <2>1. ToSet(t) \subseteq ToSet(s) \ {s[k]}
    BY <1>2, <1>5 DEF ToSet, IsInjective
  <2>2. ToSet(s) \ {s[k]} \subseteq ToSet(t)
    <3>1. SUFFICES ASSUME NEW p \in 1 .. Len(s), p # k
                   PROVE  s[p] \in ToSet(t)
      BY <1>5 DEF ToSet
    <3>2. PICK i \in 1 .. Len(s) - 1 : p = Old(i)
      BY <1>4, <3>1
    <3>3. t[i] = s[p] /\ i \in DOMAIN t
      BY <1>2, <1>5, <3>2
    <3>4. QED
      BY <3>3 DEF ToSet
  <2>3. QED
    BY <2>1, <2>2
<1>8. \A i, j \in 1 .. Len(t) : i < j =>
        \E p, q \in 1 .. Len(s) : p < q /\ t[i] = s[p] /\ t[j] = s[q]
  BY <1>1, <1>2, <1>3
<1>9. QED
  BY <1>6, <1>7, <1>8 DEF t
-----------------------------------------------------------------------------
(***************************************************************************)
(* The list, its count and the allocator.                                   *)
(***************************************************************************)
\* What unsubscribe takes off the list.
LEMMA Unlinked ==
  ASSUME ListOK, NEW name, Unsubscribe(name)
  PROVE  \E k \in 1 .. Len(subscriber_list) :
           LET n == subscriber_list[k] IN
           /\ n \in Linked /\ n \in Nodes
           /\ subscriber_list' = RemoveAt(subscriber_list, k)
           /\ mem' = [mem EXCEPT ![n] = "free"]
           /\ sub' = [sub EXCEPT ![n] = NoArg]
           /\ Forget({n})
<1> DEFINE matches == {i \in DOMAIN subscriber_list : sub[subscriber_list[i]].name = name}
           k == Min(matches)
<1>1. matches # {} /\ matches \in SUBSET Nat
  <2>1. DOMAIN subscriber_list = 1 .. Len(subscriber_list) /\ Len(subscriber_list) \in Nat
    BY DEF ListOK
  <2>2. matches \in SUBSET Nat
    BY <2>1
  <2>3. matches # {}
    BY Zenon DEF Unsubscribe
  <2>4. QED
    BY <2>2, <2>3
<1>2. k \in matches
  <2> HIDE DEF matches
  <2>1. QED
    BY <1>1, LeastExists
<1>3. k \in 1 .. Len(subscriber_list) /\ k \in DOMAIN subscriber_list
  BY <1>2 DEF ListOK
<1>4. subscriber_list[k] \in Linked /\ subscriber_list[k] \in Nodes
  <2> HIDE DEF k
  <2>1. QED
    BY <1>3 DEF ListOK, Linked, ToSet
<1>5. /\ subscriber_list' = RemoveAt(subscriber_list, k)
      /\ mem' = [mem EXCEPT ![subscriber_list[k]] = "free"]
      /\ sub' = [sub EXCEPT ![subscriber_list[k]] = NoArg]
      /\ Forget({subscriber_list[k]})
  BY DEF Unsubscribe
<1> HIDE DEF k
<1>6. QED
  BY <1>3, <1>4, <1>5

LEMMA ListOKStep == IInv /\ [Next]_vars => ListOK'
<1> SUFFICES ASSUME IInv, [Next]_vars
             PROVE  ListOK'
  OBVIOUS
<1>0. TypeOK /\ ListOK /\ Owned
  BY DEF IInv
<1>1. CASE UNCHANGED <<subscriber_list, subscriber_count, mem>>
  BY <1>0, <1>1 DEF ListOK, Linked
<1>2. ASSUME NEW s \in Subscribers, NEW n \in Nodes, SubscribeAlloc(s, n)
      PROVE  ListOK'
  BY <1>0, <1>2 DEF ListOK, Linked, SubscribeAlloc
<1>3. ASSUME NEW s \in Subscribers, SubscribeLink(s)
      PROVE  ListOK'
  <2> DEFINE n == sub_node[s]
  <2>1. n \in Nodes /\ mem[n] = "own" /\ n \notin Linked
    BY <1>0, <1>3 DEF ListOK, Owned, SubscribeLink
  <2>2. /\ subscriber_list' = Append(subscriber_list, n)
        /\ subscriber_count' = subscriber_count + 1
        /\ mem' = [mem EXCEPT ![n] = "linked"]
    BY <1>3 DEF SubscribeLink
  <2> HIDE DEF n
  <2>3. /\ subscriber_list' \in Seq(Nodes) /\ IsInjective(subscriber_list')
        /\ Len(subscriber_list') = Len(subscriber_list) + 1
        /\ Linked' = Linked \cup {n}
    BY <1>0, <2>1, <2>2, AppendFacts DEF ListOK, Linked
  <2>4. QED
    BY <1>0, <2>1, <2>2, <2>3 DEF ListOK
<1>4. ASSUME NEW name, Unsubscribe(name)
      PROVE  ListOK'
  <2>1. PICK k \in 1 .. Len(subscriber_list) :
           LET n == subscriber_list[k] IN
           /\ n \in Linked /\ n \in Nodes
           /\ subscriber_list' = RemoveAt(subscriber_list, k)
           /\ mem' = [mem EXCEPT ![n] = "free"]
    BY <1>0, <1>4, Unlinked
  <2>2. /\ subscriber_list' \in Seq(Nodes)
        /\ Len(subscriber_list') = Len(subscriber_list) - 1
    BY <1>0, <2>1, RemoveAtFacts DEF ListOK
  <2>3. IsInjective(subscriber_list') /\ Linked' = Linked \ {subscriber_list[k]}
    BY <1>0, <2>1, RemoveFromList DEF ListOK, Linked
  <2>4. subscriber_count' = subscriber_count - 1
    BY <1>4 DEF Unsubscribe
  <2>5. mem' \in [Nodes -> {"free", "own", "linked"}]
    BY <1>0, <2>1 DEF ListOK
  <2>6. \A n \in Nodes : mem'[n] = "linked" <=> n \in Linked'
    BY <1>0, <2>1, <2>3 DEF ListOK
  <2>7. QED
    BY <1>0, <2>2, <2>3, <2>4, <2>5, <2>6 DEF ListOK
<1>5. CASE FreeSubscribers
  <2>1. subscriber_list' = <<>> /\ subscriber_count' = 0 /\ Linked' = {}
    BY <1>5 DEF FreeSubscribers, Linked, ToSet
  <2>2. mem' = [n \in Nodes |-> IF n \in Linked THEN "free" ELSE mem[n]]
    BY <1>5 DEF FreeSubscribers
  <2>3. QED
    BY <1>0, <2>1, <2>2 DEF ListOK, IsInjective
<1>6. ASSUME NEW s \in Subscribers, SubscribeNoMemory(s) \/ \E r \in Registration : SubscribeCheck(s, r)
      PROVE  ListOK'
  BY <1>1, <1>6 DEF SubscribeNoMemory, SubscribeCheck
<1>7. ASSUME NEW d \in Dispatchers, DispatchStep(d)
      PROVE  ListOK'
  BY <1>1, <1>7 DEF DispatchStep, DispatchBegin, Call, ResumeLinked, ResumeFreed, ResumeSelfLoop
<1>8. QED
  BY <1>1, <1>2, <1>3, <1>4, <1>5, <1>6, <1>7, NextSplit DEF SubscribeStep, UnsubscribeStep, vars

LEMMA OwnedStep == IInv /\ [Next]_vars => Owned'
<1> SUFFICES ASSUME IInv, [Next]_vars
             PROVE  Owned'
  OBVIOUS
<1>0. TypeOK /\ ListOK /\ Owned
  BY DEF IInv
<1>1. CASE UNCHANGED <<mem, sub_pc, sub_node>>
  BY <1>0, <1>1 DEF Owned
<1>2. ASSUME NEW s \in Subscribers, NEW n \in Nodes, SubscribeAlloc(s, n)
      PROVE  Owned'
  <2>1. /\ \A u \in Subscribers : u # s => sub_pc'[u] = sub_pc[u] /\ sub_node'[u] = sub_node[u]
        /\ sub_pc[s] # "link" /\ sub_pc'[s] = "link" /\ sub_node'[s] = n
        /\ \A m \in Nodes : m # n => mem'[m] = mem[m]
        /\ mem[n] = "free" /\ mem'[n] = "own"
    BY <1>0, <1>2 DEF TypeOK, ListOK, SubscribeAlloc
  <2>2. \A u \in Subscribers : u # s /\ sub_pc[u] = "link" => sub_node[u] # n
    BY <1>0, <2>1 DEF Owned
  <2>3. QED
    BY <1>0, <2>1, <2>2 DEF Owned
<1>3. ASSUME NEW s \in Subscribers, SubscribeLink(s)
      PROVE  Owned'
  <2> DEFINE n == sub_node[s]
  <2>1. /\ \A u \in Subscribers : u # s => sub_pc'[u] = sub_pc[u] /\ sub_node'[u] = sub_node[u]
        /\ sub_pc[s] = "link" /\ sub_pc'[s] = "idle" /\ n \in Nodes
        /\ \A m \in Nodes : m # n => mem'[m] = mem[m]
        /\ mem'[n] = "linked"
    BY <1>0, <1>3 DEF TypeOK, ListOK, Owned, SubscribeLink
  <2>2. \A u \in Subscribers : u # s /\ sub_pc[u] = "link" => sub_node[u] # n
    BY <1>0, <2>1 DEF Owned
  <2> HIDE DEF n
  <2>3. QED
    BY <1>0, <2>1, <2>2 DEF Owned, n
<1>4. ASSUME \A m \in Nodes : m \notin Linked => mem'[m] = mem[m],
             \A m \in Linked : mem'[m] # "own",
             UNCHANGED <<sub_pc, sub_node>>
      PROVE  Owned'
  BY <1>0, <1>4 DEF Owned, ListOK
<1>5. ASSUME NEW name, Unsubscribe(name)
      PROVE  Owned'
  <2>1. PICK n \in Linked : n \in Nodes /\ mem' = [mem EXCEPT ![n] = "free"]
    BY <1>0, <1>5, Unlinked
  <2>2. Linked \subseteq Nodes
    BY <1>0 DEF ListOK, Linked, ToSet
  <2>3. UNCHANGED <<sub_pc, sub_node>>
    BY <1>5 DEF Unsubscribe, subVars
  <2>4. \A m \in Nodes : mem'[m] = IF m = n THEN "free" ELSE mem[m]
    BY <1>0, <2>1 DEF ListOK
  <2>5. QED
    BY <1>0, <1>4, <2>1, <2>2, <2>3, <2>4 DEF ListOK
<1>6. CASE FreeSubscribers
  <2>1. Linked \subseteq Nodes
    BY <1>0 DEF ListOK, Linked, ToSet
  <2>2. QED
    BY <1>4, <1>6, <2>1 DEF FreeSubscribers, subVars
<1>7. ASSUME NEW s \in Subscribers, SubscribeNoMemory(s) \/ \E r \in Registration : SubscribeCheck(s, r)
      PROVE  Owned'
  BY <1>0, <1>7 DEF TypeOK, Owned, SubscribeNoMemory, SubscribeCheck
<1>8. ASSUME NEW d \in Dispatchers, DispatchStep(d)
      PROVE  Owned'
  BY <1>1, <1>8 DEF DispatchStep, DispatchBegin, Call, ResumeLinked, ResumeFreed, ResumeSelfLoop, subVars
<1>9. QED
  BY <1>1, <1>2, <1>3, <1>5, <1>6, <1>7, <1>8, NextSplit DEF SubscribeStep, UnsubscribeStep, vars, subVars

LEMMA BusyFacts ==
  /\ IsFiniteSet(Busy) /\ Busy \subseteq Subscribers
  /\ Cardinality(Busy) \in Nat /\ Cardinality(Subscribers) \in Nat /\ MaxSubscribers \in Nat \ {0}
  /\ Cardinality(Busy) <= Cardinality(Subscribers)
<1>1. Busy \in SUBSET Subscribers
  BY DEF Busy
<1>2. QED
  BY <1>1, FS_Subset, FS_CardinalityType, EventDispatchAssumption

LEMMA CountOvershootStep == IInv /\ [Next]_vars => CountOvershoot'
<1> SUFFICES ASSUME IInv, [Next]_vars
             PROVE  CountOvershoot'
  OBVIOUS
<1>0. /\ TypeOK /\ subscriber_count \in Nat
      /\ subscriber_count + Cardinality(Busy) < MaxSubscribers + Cardinality(Subscribers)
  BY DEF IInv, CountOvershoot, ListOK, Busy
<1> SUFFICES subscriber_count' + Cardinality(Busy') < MaxSubscribers + Cardinality(Subscribers)
  BY DEF CountOvershoot, Busy
<1>1. ASSUME Busy' = Busy, subscriber_count' <= subscriber_count, subscriber_count' \in Int
      PROVE  subscriber_count' + Cardinality(Busy') < MaxSubscribers + Cardinality(Subscribers)
  BY <1>0, <1>1, BusyFacts
<1>2. ASSUME NEW s \in Subscribers, NEW r \in Registration, SubscribeCheck(s, r)
      PROVE  subscriber_count' + Cardinality(Busy') < MaxSubscribers + Cardinality(Subscribers)
  <2>1. Busy' = Busy \cup {s} /\ s \notin Busy
    BY <1>0, <1>2 DEF Busy, SubscribeCheck, TypeOK
  <2>2. /\ subscriber_count' = subscriber_count /\ subscriber_count < MaxSubscribers
    BY <1>2 DEF SubscribeCheck
  <2>3. Busy' \in SUBSET Subscribers
    BY <2>1, BusyFacts
  <2>4. Cardinality(Busy') <= Cardinality(Subscribers)
    BY <2>3, FS_Subset, EventDispatchAssumption
  <2>5. Cardinality(Busy') = Cardinality(Busy) + 1
    BY <2>1, BusyFacts, FS_AddElement
  <2>6. QED
    BY <1>0, <2>2, <2>4, <2>5, BusyFacts
<1>3. ASSUME NEW s \in Subscribers, NEW n \in Nodes, SubscribeAlloc(s, n)
      PROVE  subscriber_count' + Cardinality(Busy') < MaxSubscribers + Cardinality(Subscribers)
  <2>1. Busy' = Busy /\ subscriber_count' = subscriber_count
    BY <1>0, <1>3 DEF Busy, SubscribeAlloc, TypeOK
  <2>2. QED
    BY <1>0, <1>1, <2>1
<1>4. ASSUME NEW s \in Subscribers, SubscribeNoMemory(s) \/ SubscribeLink(s)
      PROVE  subscriber_count' + Cardinality(Busy') < MaxSubscribers + Cardinality(Subscribers)
  <2>1. Busy' = Busy \ {s} /\ s \in Busy
    BY <1>0, <1>4 DEF Busy, SubscribeNoMemory, SubscribeLink, TypeOK
  <2>2. Cardinality(Busy') = Cardinality(Busy) - 1
    BY <2>1, BusyFacts, FS_RemoveElement
  <2>3. subscriber_count' \in {subscriber_count, subscriber_count + 1}
    BY <1>4 DEF SubscribeNoMemory, SubscribeLink
  <2>4. QED
    BY <1>0, <2>2, <2>3, BusyFacts
<1>5. CASE UnsubscribeStep \/ FreeSubscribers
  <2>1. Busy' = Busy /\ subscriber_count' \in {subscriber_count - 1, 0}
    BY <1>5 DEF UnsubscribeStep, Unsubscribe, FreeSubscribers, Busy, subVars
  <2>2. QED
    BY <1>0, <1>1, <2>1
<1>6. ASSUME NEW d \in Dispatchers, DispatchStep(d)
      PROVE  subscriber_count' + Cardinality(Busy') < MaxSubscribers + Cardinality(Subscribers)
  <2>1. Busy' = Busy /\ subscriber_count' = subscriber_count
    BY <1>6 DEF DispatchStep, DispatchBegin, Call, ResumeLinked, ResumeFreed, ResumeSelfLoop, Busy, subVars
  <2>2. QED
    BY <1>0, <1>1, <2>1
<1>7. CASE UNCHANGED vars
  BY <1>0, <1>1, <1>7 DEF vars, subVars, Busy
<1>8. QED
  BY <1>2, <1>3, <1>4, <1>5, <1>6, <1>7, NextSplit DEF SubscribeStep
-----------------------------------------------------------------------------
(***************************************************************************)
(* The walk.                                                                *)
(***************************************************************************)
\* The walk from position i stops at the first interested node, or finds none.
LEMMA WalkStops ==
  ASSUME TypeOK, ListOK, NEW d \in Dispatchers, NEW i \in Nat, i >= 1, NEW bit, Walk(d, i, bit)
  PROVE  \/ /\ \A j \in 1 .. Len(subscriber_list) : j >= i => ~Interested(subscriber_list[j], bit)
            /\ dis_pc' = [dis_pc EXCEPT ![d] = "idle"]
            /\ dis_bit' = [dis_bit EXCEPT ![d] = 0]
            /\ dis_at' = [dis_at EXCEPT ![d] = NoNode]
            /\ called' = [called EXCEPT ![d] = {}]
            /\ undermined' = [undermined EXCEPT ![d] = FALSE]
         \/ \E k \in 1 .. Len(subscriber_list) :
              /\ k >= i /\ Interested(subscriber_list[k], bit)
              /\ \A j \in 1 .. Len(subscriber_list) :
                   j >= i /\ j < k => ~Interested(subscriber_list[j], bit)
              /\ dis_pc' = [dis_pc EXCEPT ![d] = "unlocked"]
              /\ dis_bit' = [dis_bit EXCEPT ![d] = bit]
              /\ dis_at' = [dis_at EXCEPT ![d] = subscriber_list[k]]
              /\ UNCHANGED <<called, undermined>>
<1> DEFINE hits == {j \in i .. Len(subscriber_list) : Interested(subscriber_list[j], bit)}
           k == Min(hits)
<1>0. Len(subscriber_list) \in Nat
  BY DEF ListOK
<1>1. CASE hits = {}
  <2>1. \A j \in 1 .. Len(subscriber_list) : j >= i => ~Interested(subscriber_list[j], bit)
    BY <1>0, <1>1
  <2>2. QED
    BY <1>1, <2>1 DEF Walk
<1>2. CASE hits # {}
  <2>1. /\ dis_pc' = [dis_pc EXCEPT ![d] = "unlocked"]
        /\ dis_bit' = [dis_bit EXCEPT ![d] = bit]
        /\ dis_at' = [dis_at EXCEPT ![d] = subscriber_list[k]]
        /\ UNCHANGED <<called, undermined>>
    BY <1>2 DEF Walk
  <2>2. k \in hits /\ \A j \in hits : k <= j
    <3>1. hits \in SUBSET Nat
      BY <1>0
    <3> HIDE DEF hits
    <3>2. QED
      BY <1>2, <3>1, LeastExists
  <2> HIDE DEF k
  <2>3. /\ k \in 1 .. Len(subscriber_list) /\ k >= i /\ Interested(subscriber_list[k], bit)
    BY <1>0, <2>2
  <2>4. \A j \in 1 .. Len(subscriber_list) : j >= i /\ j < k => ~Interested(subscriber_list[j], bit)
    BY <1>0, <2>2, <2>3
  <2>5. QED
    BY <2>1, <2>3, <2>4
<1>3. QED
  BY <1>1, <1>2

\* The position of the node that a dispatch goes on from.
LEMMA Position ==
  ASSUME ListOK, NEW n \in Linked
  PROVE  LET p == SelectInSeq(subscriber_list, LAMBDA x : x = n) IN
         p \in 1 .. Len(subscriber_list) /\ subscriber_list[p] = n
<1> DEFINE I == {i \in 1 .. Len(subscriber_list) : subscriber_list[i] = n}
<1>1. I # {} /\ I \in SUBSET Nat
  BY DEF ListOK, Linked, ToSet
<1>2. Min(I) \in I
  <2> HIDE DEF I
  <2>1. QED
    BY <1>1, LeastExists
<1>3. SelectInSeq(subscriber_list, LAMBDA x : x = n) = Min(I)
  BY <1>1 DEF SelectInSeq
<1>4. QED
  BY <1>2, <1>3

LEMMA TypeOKStep == IInv /\ [Next]_vars => TypeOK'
<1> SUFFICES ASSUME IInv, [Next]_vars
             PROVE  TypeOK'
  OBVIOUS
<1>0. TypeOK /\ ListOK
  BY DEF IInv
<1> DEFINE
     SubOK == /\ sub \in [Nodes -> Registration \cup {NoArg}]
              /\ sub_pc \in [Subscribers -> {"idle", "alloc", "link"}]
              /\ sub_arg \in [Subscribers -> Registration \cup {NoArg}]
              /\ sub_node \in [Subscribers -> Nodes \cup {NoNode}]
     DisOK == /\ dis_pc \in [Dispatchers -> {"idle", "unlocked", "called", "oops", "stuck"}]
              /\ dis_at \in [Dispatchers -> Nodes \cup {NoNode}]
              /\ dis_bit \in [Dispatchers -> Nat]
              /\ \A d \in Dispatchers : dis_pc[d] \in {"unlocked", "called"} => dis_at[d] \in Nodes
     HistoryOK == /\ due \in [Dispatchers -> SUBSET Nodes]
                  /\ called \in [Dispatchers -> SUBSET Nodes]
                  /\ undermined \in [Dispatchers -> BOOLEAN]
<1>1. SubOK /\ DisOK /\ HistoryOK
  BY <1>0 DEF TypeOK
<1>2. SUFFICES SubOK' /\ DisOK' /\ HistoryOK'
  BY DEF TypeOK
<1>3. /\ UNCHANGED <<sub, subVars>> => SubOK'
      /\ UNCHANGED disVars => DisOK'
      /\ UNCHANGED history => HistoryOK'
  BY <1>1 DEF subVars, disVars, history
<1>4. ASSUME NEW freed, Forget(freed)
      PROVE  HistoryOK'
  <2>1. due' \in [Dispatchers -> SUBSET Nodes] /\ called' \in [Dispatchers -> SUBSET Nodes]
    BY <1>1, <1>4 DEF Forget
  <2>2. undermined' \in [Dispatchers -> BOOLEAN]
    BY <1>1, <1>4 DEF Forget
  <2>3. QED
    BY <2>1, <2>2
<1>5. ASSUME NEW s \in Subscribers, SubscribeStep(s)
      PROVE  SubOK' /\ DisOK' /\ HistoryOK'
  <2>1. UNCHANGED <<disVars, history>>
    BY <1>5 DEF SubscribeStep, SubscribeCheck, SubscribeAlloc, SubscribeNoMemory, SubscribeLink
  <2>2. SubOK'
    <3>1. CASE \E r \in Registration : SubscribeCheck(s, r)
      BY <1>1, <3>1 DEF SubscribeCheck
    <3>2. CASE \E n \in Nodes : SubscribeAlloc(s, n)
      BY <1>1, <3>2 DEF SubscribeAlloc
    <3>3. CASE SubscribeNoMemory(s) \/ SubscribeLink(s)
      BY <1>1, <3>3 DEF SubscribeNoMemory, SubscribeLink
    <3>4. QED
      BY <1>5, <3>1, <3>2, <3>3 DEF SubscribeStep
  <2>3. QED
    BY <1>3, <2>1, <2>2
<1>6. ASSUME NEW name, Unsubscribe(name)
      PROVE  SubOK' /\ DisOK' /\ HistoryOK'
  <2>1. PICK n \in Nodes : sub' = [sub EXCEPT ![n] = NoArg] /\ Forget({n})
    BY <1>0, <1>6, Unlinked
  <2>2. UNCHANGED <<subVars, disVars>>
    BY <1>6 DEF Unsubscribe
  <2>3. QED
    BY <1>1, <1>3, <1>4, <2>1, <2>2 DEF subVars
<1>7. CASE FreeSubscribers
  <2>1. /\ sub' = [n \in Nodes |-> IF n \in Linked THEN NoArg ELSE sub[n]]
        /\ Forget(Linked) /\ UNCHANGED <<subVars, disVars>>
    BY <1>7 DEF FreeSubscribers
  <2>2. SubOK'
    BY <1>1, <2>1 DEF subVars
  <2>3. QED
    BY <1>3, <1>4, <2>1, <2>2
<1>8. ASSUME NEW d \in Dispatchers, NEW i \in Nat, i >= 1, NEW bit \in Nat, Walk(d, i, bit)
      PROVE  /\ DisOK' /\ called' \in [Dispatchers -> SUBSET Nodes]
             /\ undermined' \in [Dispatchers -> BOOLEAN]
  <2>1. \A k \in 1 .. Len(subscriber_list) : subscriber_list[k] \in Nodes
    BY <1>0 DEF ListOK
  <2>2. \/ /\ dis_pc' = [dis_pc EXCEPT ![d] = "idle"]
           /\ dis_bit' = [dis_bit EXCEPT ![d] = 0]
           /\ dis_at' = [dis_at EXCEPT ![d] = NoNode]
           /\ called' = [called EXCEPT ![d] = {}]
           /\ undermined' = [undermined EXCEPT ![d] = FALSE]
        \/ \E n \in Nodes :
             /\ dis_pc' = [dis_pc EXCEPT ![d] = "unlocked"]
             /\ dis_bit' = [dis_bit EXCEPT ![d] = bit]
             /\ dis_at' = [dis_at EXCEPT ![d] = n]
             /\ UNCHANGED <<called, undermined>>
    BY <1>0, <1>8, <2>1, WalkStops
  <2>3. ASSUME dis_pc' = [dis_pc EXCEPT ![d] = "idle"], dis_bit' = [dis_bit EXCEPT ![d] = 0],
               dis_at' = [dis_at EXCEPT ![d] = NoNode], called' = [called EXCEPT ![d] = {}],
               undermined' = [undermined EXCEPT ![d] = FALSE]
        PROVE  /\ DisOK' /\ called' \in [Dispatchers -> SUBSET Nodes]
               /\ undermined' \in [Dispatchers -> BOOLEAN]
    <3>1. DisOK'
      BY <1>1, <2>3
    <3>2. called' \in [Dispatchers -> SUBSET Nodes] /\ undermined' \in [Dispatchers -> BOOLEAN]
      BY <1>1, <2>3
    <3>3. QED
      BY <3>1, <3>2
  <2>4. ASSUME NEW n \in Nodes, dis_pc' = [dis_pc EXCEPT ![d] = "unlocked"],
               dis_bit' = [dis_bit EXCEPT ![d] = bit], dis_at' = [dis_at EXCEPT ![d] = n],
               UNCHANGED <<called, undermined>>
        PROVE  /\ DisOK' /\ called' \in [Dispatchers -> SUBSET Nodes]
               /\ undermined' \in [Dispatchers -> BOOLEAN]
    BY <1>1, <1>8, <2>4
  <2>5. QED
    BY <2>2, <2>3, <2>4
<1>9. ASSUME NEW d \in Dispatchers, DispatchStep(d)
      PROVE  SubOK' /\ DisOK' /\ HistoryOK'
  <2>1. UNCHANGED <<sub, subVars>>
    BY <1>9 DEF DispatchStep, DispatchBegin, Call, ResumeLinked, ResumeFreed, ResumeSelfLoop
  <2>2. ASSUME NEW t \in Types, NEW bit \in BitsOf(t), DispatchBegin(d, t, bit)
        PROVE  DisOK' /\ HistoryOK'
    <3>1. bit \in Nat
      BY EventDispatchAssumption DEF BitsOf
    <3>2. Walk(d, 1, bit)
      BY <2>2 DEF DispatchBegin
    <3>3. DisOK' /\ called' \in [Dispatchers -> SUBSET Nodes] /\ undermined' \in [Dispatchers -> BOOLEAN]
      BY <1>8, <3>1, <3>2
    <3>4. Linked \subseteq Nodes
      BY <1>0 DEF ListOK, Linked, ToSet
    <3>5. due' \in [Dispatchers -> SUBSET Nodes]
      BY <1>1, <2>2, <3>4 DEF DispatchBegin
    <3>6. QED
      BY <3>3, <3>5
  <2>3. CASE ResumeLinked(d)
    <3>1. dis_at[d] \in Linked
      BY <1>0, <1>1, <2>3 DEF ResumeLinked, ListOK
    <3> DEFINE p == SelectInSeq(subscriber_list, LAMBDA x : x = dis_at[d])
    <3>2. p \in 1 .. Len(subscriber_list) /\ dis_bit[d] \in Nat
      BY <1>0, <1>1, <3>1, Position
    <3>3. Walk(d, p + 1, dis_bit[d])
      BY <2>3 DEF ResumeLinked
    <3> HIDE DEF p
    <3>4. p + 1 \in Nat /\ p + 1 >= 1
      BY <3>2
    <3>5. DisOK' /\ called' \in [Dispatchers -> SUBSET Nodes] /\ undermined' \in [Dispatchers -> BOOLEAN]
      BY <1>8, <3>2, <3>3, <3>4
    <3>6. due' \in [Dispatchers -> SUBSET Nodes]
      BY <1>1, <2>3 DEF ResumeLinked
    <3>7. QED
      BY <1>3, <2>1, <3>5, <3>6
  <2>4. CASE Call(d)
    <3>1. DisOK' /\ undermined' = undermined /\ dis_at[d] \in Nodes
      BY <1>1, <2>4 DEF Call
    <3>2. \/ UNCHANGED <<due, called>>
          \/ /\ due' = [due EXCEPT ![d] = @ \ {dis_at[d]}]
             /\ called' = [called EXCEPT ![d] = @ \cup {dis_at[d]}]
             /\ dis_pc'[d] = "called"
      BY <1>1, <2>4 DEF Call
    <3>3. due' \in [Dispatchers -> SUBSET Nodes]
      <4>1. due[d] \ {dis_at[d]} \in SUBSET Nodes
        BY <1>1
      <4>2. QED
        BY <1>1, <3>2, <4>1
    <3>4. called' \in [Dispatchers -> SUBSET Nodes]
      <4>1. called[d] \cup {dis_at[d]} \in SUBSET Nodes
        BY <1>1, <3>1
      <4>2. QED
        BY <1>1, <3>2, <4>1
    <3>5. QED
      BY <1>1, <1>3, <2>1, <3>1, <3>3, <3>4
  <2>5. CASE ResumeFreed(d) \/ ResumeSelfLoop(d)
    BY <1>1, <1>3, <2>5 DEF ResumeFreed, ResumeSelfLoop
  <2>6. QED
    BY <1>3, <1>9, <2>1, <2>2, <2>3, <2>4, <2>5 DEF DispatchStep
<1>10. CASE UNCHANGED vars
  BY <1>3, <1>10 DEF vars
<1>11. QED
  BY <1>5, <1>6, <1>7, <1>9, <1>10, NextSplit DEF UnsubscribeStep

\* A dispatch that a step does not touch, and whose list stays, stands where it did.
LEMMA Untouched ==
  ASSUME ListOK, NEW d \in Dispatchers, WalkInOrder(d), UNCHANGED subscriber_list,
         \A n \in Linked : sub'[n] = sub[n],
         UNCHANGED <<dis_pc[d], dis_at[d], dis_bit[d], due[d], called[d], undermined[d]>>
  PROVE  WalkInOrder(d)'
<1>1. Linked' = Linked
  BY DEF Linked
<1>2. QED
  BY <1>1 DEF WalkInOrder, Standing, Interested

\* Linking a node at the end of the list puts it behind every dispatch.
LEMMA LinkedBehind ==
  ASSUME ListOK, NEW d \in Dispatchers, WalkInOrder(d), NEW n \in Nodes, n \notin Linked,
         subscriber_list' = Append(subscriber_list, n), UNCHANGED <<sub, disVars, history>>
  PROVE  WalkInOrder(d)'
<1>1. /\ Len(subscriber_list') = Len(subscriber_list) + 1 /\ Len(subscriber_list) \in Nat
      /\ \A i \in 1 .. Len(subscriber_list) : subscriber_list'[i] = subscriber_list[i]
      /\ subscriber_list'[Len(subscriber_list) + 1] = n
      /\ Linked' = Linked \cup {n}
  BY AppendFacts DEF ListOK, Linked
<1>2. SUFFICES ASSUME dis_pc[d] \in {"unlocked", "called"}, ~undermined[d], Standing(d)
               PROVE  Standing(d)'
  BY DEF WalkInOrder, disVars, history
<1>3. /\ dis_at[d] \in Linked' /\ due[d] \subseteq Linked' /\ called[d] \subseteq Linked'
      /\ dis_at[d] # n /\ n \notin due[d] /\ n \notin called[d]
  BY <1>1, <1>2 DEF Standing
<1>4. ASSUME NEW i \in 1 .. Len(subscriber_list'), NEW j \in 1 .. Len(subscriber_list'), i < j
      PROVE  /\ ~(subscriber_list'[i] \in due[d] /\ subscriber_list'[j] = dis_at[d])
             /\ ~(subscriber_list'[i] = dis_at[d] /\ subscriber_list'[j] \in called[d])
  <2>1. CASE j = Len(subscriber_list) + 1
    BY <1>1, <1>3, <2>1
  <2>2. CASE j # Len(subscriber_list) + 1
    <3>1. i \in 1 .. Len(subscriber_list) /\ j \in 1 .. Len(subscriber_list)
      BY <1>1, <1>4, <2>2
    <3>2. subscriber_list'[i] = subscriber_list[i] /\ subscriber_list'[j] = subscriber_list[j]
      BY <1>1, <3>1
    <3>3. QED
      BY <1>2, <1>4, <3>1, <3>2 DEF Standing
  <2>3. QED
    BY <2>1, <2>2
<1>5. QED
  BY <1>2, <1>3, <1>4 DEF Standing, Interested, disVars, history

\* Taking a node off the list undermines those who stand at it, and leaves the
\* others where they stand.
LEMMA UnlinkedAway ==
  ASSUME TypeOK, ListOK, NEW d \in Dispatchers, WalkInOrder(d), NEW k \in 1 .. Len(subscriber_list),
         subscriber_list' = RemoveAt(subscriber_list, k),
         sub' = [sub EXCEPT ![subscriber_list[k]] = NoArg], Forget({subscriber_list[k]}),
         UNCHANGED disVars
  PROVE  WalkInOrder(d)'
<1> DEFINE n == subscriber_list[k]
           t == subscriber_list'
<1>1. /\ due'[d] = due[d] \ {n} /\ called'[d] = called[d] \ {n}
      /\ undermined'[d] = (undermined[d] \/ dis_at[d] = n)
      /\ UNCHANGED <<dis_pc[d], dis_at[d], dis_bit[d]>>
  BY DEF Forget, disVars
<1>2. /\ Linked' = Linked \ {n}
      /\ \A i, j \in 1 .. Len(t) : i < j =>
           \E p, q \in 1 .. Len(subscriber_list) :
             p < q /\ t[i] = subscriber_list[p] /\ t[j] = subscriber_list[q]
  <2> DEFINE u == RemoveAt(subscriber_list, k)
  <2>1. subscriber_list \in Seq(Nodes) /\ IsInjective(subscriber_list)
    BY DEF ListOK
  <2>2. ToSet(u) = ToSet(subscriber_list) \ {n}
    BY <2>1, RemoveFromList
  <2>3. \A i, j \in 1 .. Len(u) : i < j =>
          \E p, q \in 1 .. Len(subscriber_list) :
            p < q /\ u[i] = subscriber_list[p] /\ u[j] = subscriber_list[q]
    BY <2>1, RemoveFromList
  <2>4. t = u
    OBVIOUS
  <2> HIDE DEF u, t, n
  <2>5. QED
    BY <2>2, <2>3, <2>4 DEF Linked, t
<1>3. \A m \in Linked' : sub'[m] = sub[m]
  <2>1. Linked \subseteq Nodes
    BY DEF ListOK, Linked, ToSet
  <2>2. QED
    BY <1>2, <2>1 DEF TypeOK
<1> HIDE DEF n, t
<1>4. SUFFICES ASSUME dis_pc[d] \in {"unlocked", "called"}, ~undermined[d], dis_at[d] # n, Standing(d)
               PROVE  Standing(d)'
  BY <1>1 DEF WalkInOrder
<1>5. dis_at[d] \in Linked' /\ due'[d] \subseteq Linked' /\ called'[d] \subseteq Linked'
  BY <1>1, <1>2, <1>4 DEF Standing
<1>6. ASSUME NEW i \in 1 .. Len(t), NEW j \in 1 .. Len(t), i < j
      PROVE  ~(t[i] \in due'[d] /\ t[j] = dis_at[d]) /\ ~(t[i] = dis_at[d] /\ t[j] \in called'[d])
  BY <1>1, <1>2, <1>4, <1>6 DEF Standing
<1>7. \A m \in due'[d] : Interested(m, dis_bit[d])'
  BY <1>1, <1>3, <1>4, <1>5 DEF Standing, Interested
<1>8. QED
  BY <1>1, <1>4, <1>5, <1>6, <1>7 DEF Standing, t

\* A walk that goes on behind all it called and stops before all that is due.
LEMMA WalkStands ==
  ASSUME TypeOK, ListOK, NEW d \in Dispatchers, NEW i \in Nat, i >= 1, NEW bit, Walk(d, i, bit),
         UNCHANGED <<subscriber_list, sub>>,
         ~undermined[d] =>
           /\ called[d] \subseteq Linked
           /\ \A j \in 1 .. Len(subscriber_list) : subscriber_list[j] \in called[d] => j < i,
         NEW owed, owed \subseteq Linked,
         ~undermined[d] =>
           /\ \A n \in owed : Interested(n, bit)
           /\ \A j \in 1 .. Len(subscriber_list) : subscriber_list[j] \in owed => j >= i,
         dis_pc'[d] # "idle" => due'[d] = owed
  PROVE  /\ WalkInOrder(d)'
         /\ ~undermined[d] /\ dis_pc'[d] = "idle" => owed = {}
         /\ \A e \in Dispatchers : e # d =>
              UNCHANGED <<dis_pc[e], dis_at[e], dis_bit[e], called[e], undermined[e]>>
<1>1. Linked' = Linked
  BY DEF Linked
<1>2. \A n \in Linked : \E j \in 1 .. Len(subscriber_list) : n = subscriber_list[j]
  BY DEF ListOK, Linked, ToSet
<1>3. ASSUME \A j \in 1 .. Len(subscriber_list) : j >= i => ~Interested(subscriber_list[j], bit),
             dis_pc' = [dis_pc EXCEPT ![d] = "idle"], dis_bit' = [dis_bit EXCEPT ![d] = 0],
             dis_at' = [dis_at EXCEPT ![d] = NoNode], called' = [called EXCEPT ![d] = {}],
             undermined' = [undermined EXCEPT ![d] = FALSE]
      PROVE  /\ WalkInOrder(d)'
             /\ ~undermined[d] /\ dis_pc'[d] = "idle" => owed = {}
             /\ \A e \in Dispatchers : e # d =>
                  UNCHANGED <<dis_pc[e], dis_at[e], dis_bit[e], called[e], undermined[e]>>
  <2>1. ~undermined[d] => owed = {}
    BY <1>2, <1>3
  <2>2. dis_pc'[d] = "idle" /\ called'[d] = {}
    BY <1>3 DEF TypeOK
  <2>3. \A e \in Dispatchers : e # d =>
          UNCHANGED <<dis_pc[e], dis_at[e], dis_bit[e], called[e], undermined[e]>>
    BY <1>3 DEF TypeOK
  <2>4. QED
    BY <2>1, <2>2, <2>3 DEF WalkInOrder
<1>4. ASSUME NEW k \in 1 .. Len(subscriber_list), k >= i, Interested(subscriber_list[k], bit),
             \A j \in 1 .. Len(subscriber_list) :
               j >= i /\ j < k => ~Interested(subscriber_list[j], bit),
             dis_pc' = [dis_pc EXCEPT ![d] = "unlocked"], dis_bit' = [dis_bit EXCEPT ![d] = bit],
             dis_at' = [dis_at EXCEPT ![d] = subscriber_list[k]], UNCHANGED <<called, undermined>>
      PROVE  /\ WalkInOrder(d)'
             /\ ~undermined[d] /\ dis_pc'[d] = "idle" => owed = {}
             /\ \A e \in Dispatchers : e # d =>
                  UNCHANGED <<dis_pc[e], dis_at[e], dis_bit[e], called[e], undermined[e]>>
  <2> DEFINE n == subscriber_list[k]
  <2>1. dis_pc'[d] = "unlocked" /\ dis_bit'[d] = bit /\ dis_at'[d] = n /\ due'[d] = owed
    BY <1>4 DEF TypeOK
  <2>2. \A e \in Dispatchers : e # d =>
          UNCHANGED <<dis_pc[e], dis_at[e], dis_bit[e], called[e], undermined[e]>>
    BY <1>4 DEF TypeOK
  <2>3. n \in Linked
    BY DEF ListOK, Linked, ToSet
  <2>4. \A j \in 1 .. Len(subscriber_list) : subscriber_list[j] = n => j = k
    BY DEF ListOK, IsInjective
  <2> HIDE DEF n
  <2>5. ASSUME ~undermined[d]
        PROVE  Standing(d)'
    <3>1. \A j \in 1 .. Len(subscriber_list) : subscriber_list[j] \in owed => j >= k
      BY <1>4, <2>5
    <3>2. \A j \in 1 .. Len(subscriber_list) : subscriber_list[j] \in called[d] => j < k
      BY <1>4, <2>5
    <3>3. n \notin called[d]
      BY <3>2 DEF n
    <3>4. \A x, y \in 1 .. Len(subscriber_list) : x < y =>
            /\ ~(subscriber_list[x] \in owed /\ subscriber_list[y] = n)
            /\ ~(subscriber_list[x] = n /\ subscriber_list[y] \in called[d])
      BY <2>4, <3>1, <3>2
    <3>5. \A m \in owed : Interested(m, bit)'
      BY <2>5 DEF Interested
    <3>6. QED
      BY <1>1, <1>4, <2>1, <2>3, <2>5, <3>3, <3>4, <3>5 DEF Standing
  <2>6. QED
    BY <1>4, <2>1, <2>2, <2>5 DEF WalkInOrder
<1>5. QED
  BY <1>3, <1>4, WalkStops

\* What dispatch_to_subscribers and its walk do to the dispatch that runs it.
\* When it ends every subscriber that was owed the call has had it.
LEMMA DispatchInOrder ==
  ASSUME IInv, NEW d \in Dispatchers, DispatchStep(d)
  PROVE  /\ WalkInOrder(d)'
         /\ ~undermined[d] /\ dis_pc[d] = "called" /\ dis_pc'[d] = "idle" => due[d] = {}
         /\ \A e \in Dispatchers : e # d =>
              UNCHANGED <<dis_pc[e], dis_at[e], dis_bit[e], due[e], called[e], undermined[e]>>
<1>0. TypeOK /\ ListOK /\ WalkInOrder(d) /\ Linked \subseteq Nodes
  BY DEF IInv, WalksInOrder, ListOK, Linked, ToSet
<1>1. ASSUME NEW t \in Types, NEW bit \in BitsOf(t), DispatchBegin(d, t, bit)
      PROVE  /\ WalkInOrder(d)'
             /\ ~undermined[d] /\ dis_pc[d] = "called" /\ dis_pc'[d] = "idle" => due[d] = {}
             /\ \A e \in Dispatchers : e # d =>
                  UNCHANGED <<dis_pc[e], dis_at[e], dis_bit[e], due[e], called[e], undermined[e]>>
  <2> DEFINE owed == {n \in Linked : t \in sub[n].mask}
  <2>1. /\ Walk(d, 1, bit) /\ dis_pc[d] = "idle" /\ called[d] = {}
        /\ due' = [due EXCEPT ![d] = owed] /\ UNCHANGED <<subscriber_list, sub>>
    BY <1>0, <1>1 DEF DispatchBegin, WalkInOrder
  <2>2. \A n \in owed : Interested(n, bit)
    <3>1. \A n \in Linked : \A b \in sub[n].mask : b \in 0 .. 31
      <4>1. SUFFICES ASSUME NEW n \in Linked
                     PROVE  \A b \in sub[n].mask : b \in 0 .. 31
        OBVIOUS
      <4>2. CASE sub[n] \in Registration
        BY <4>2, EventDispatchAssumption DEF Registration
      <4>3. CASE sub[n] = NoArg
        BY <4>3 DEF NoArg
      <4>4. QED
        BY <1>0, <4>2, <4>3 DEF TypeOK
    <3>2. t \in Nat /\ (t < 32 => bit = t)
      BY EventDispatchAssumption DEF BitsOf
    <3>3. QED
      BY <3>1, <3>2 DEF Interested
  <2>3. due'[d] = owed /\ \A e \in Dispatchers : e # d => due'[e] = due[e]
    BY <1>0, <2>1 DEF TypeOK
  <2>4. owed \subseteq Linked
    OBVIOUS
  <2> HIDE DEF owed
  <2>5. /\ WalkInOrder(d)'
        /\ \A e \in Dispatchers : e # d =>
             UNCHANGED <<dis_pc[e], dis_at[e], dis_bit[e], called[e], undermined[e]>>
    BY <1>0, <2>1, <2>2, <2>3, <2>4, WalkStands
  <2>6. QED
    BY <2>1, <2>3, <2>5
<1>2. ASSUME ResumeLinked(d)
      PROVE  /\ WalkInOrder(d)'
             /\ ~undermined[d] /\ dis_pc[d] = "called" /\ dis_pc'[d] = "idle" => due[d] = {}
             /\ \A e \in Dispatchers : e # d =>
                  UNCHANGED <<dis_pc[e], dis_at[e], dis_bit[e], due[e], called[e], undermined[e]>>
  <2> DEFINE p == SelectInSeq(subscriber_list, LAMBDA x : x = dis_at[d])
             owed == due[d] \cap Linked
  <2>1. /\ Walk(d, p + 1, dis_bit[d]) /\ dis_pc[d] = "called" /\ UNCHANGED <<subscriber_list, sub>>
        /\ mem[dis_at[d]] = "linked"
        /\ due' = IF dis_pc'[d] = "idle" THEN [due EXCEPT ![d] = {}] ELSE due
    BY <1>2 DEF ResumeLinked
  <2>2. dis_at[d] \in Linked
    BY <1>0, <2>1 DEF TypeOK, ListOK
  <2>3. p \in 1 .. Len(subscriber_list) /\ subscriber_list[p] = dis_at[d]
    BY <1>0, <2>2, Position
  <2> HIDE DEF p
  <2>4. p \in Nat /\ p + 1 \in Nat /\ p + 1 >= 1 /\ Len(subscriber_list) \in Nat
    BY <1>0, <2>3 DEF ListOK
  <2>5. ASSUME ~undermined[d]
        PROVE  /\ called[d] \subseteq Linked /\ owed = due[d]
               /\ \A n \in owed : Interested(n, dis_bit[d])
               /\ \A j \in 1 .. Len(subscriber_list) : subscriber_list[j] \in called[d] => j < p + 1
               /\ \A j \in 1 .. Len(subscriber_list) : subscriber_list[j] \in owed => j >= p + 1
    <3>1. Standing(d) /\ dis_at[d] \notin due[d]
      BY <1>0, <2>1, <2>5 DEF WalkInOrder, Standing
    <3>2. owed = due[d] /\ called[d] \subseteq Linked /\ \A n \in owed : Interested(n, dis_bit[d])
      BY <3>1 DEF Standing
    <3>3. \A j \in 1 .. Len(subscriber_list) :
            /\ p < j => subscriber_list[j] \notin called[d]
            /\ j < p => subscriber_list[j] \notin due[d]
      BY <2>3, <3>1 DEF Standing
    <3>4. \A j \in 1 .. Len(subscriber_list) : subscriber_list[j] \in called[d] => j < p + 1
      BY <2>4, <3>3
    <3>5. \A j \in 1 .. Len(subscriber_list) : subscriber_list[j] \in due[d] => j >= p + 1
      BY <2>3, <2>4, <3>1, <3>3
    <3>6. QED
      BY <3>2, <3>4, <3>5
  <2>6. owed \subseteq Linked
    OBVIOUS
  <2>7. \A e \in Dispatchers : e # d => due'[e] = due[e]
    BY <1>0, <2>1 DEF TypeOK
  <2> HIDE DEF owed
  <2>8. CASE ~undermined[d]
    <3>1. dis_pc'[d] # "idle" => due'[d] = owed
      BY <2>1, <2>5, <2>8
    <3>2. /\ WalkInOrder(d)'
          /\ ~undermined[d] /\ dis_pc'[d] = "idle" => owed = {}
          /\ \A e \in Dispatchers : e # d =>
               UNCHANGED <<dis_pc[e], dis_at[e], dis_bit[e], called[e], undermined[e]>>
      BY <1>0, <2>1, <2>4, <2>5, <2>6, <2>8, <3>1, WalkStands
    <3>3. QED
      BY <2>5, <2>7, <2>8, <3>2
  <2>9. CASE undermined[d]
    BY <1>0, <2>1, <2>4, <2>7, <2>9, WalkStops DEF WalkInOrder, TypeOK
  <2>10. QED
    BY <2>8, <2>9
<1>3. ASSUME Call(d)
      PROVE  /\ WalkInOrder(d)'
             /\ ~undermined[d] /\ dis_pc[d] = "called" /\ dis_pc'[d] = "idle" => due[d] = {}
             /\ \A e \in Dispatchers : e # d =>
                  UNCHANGED <<dis_pc[e], dis_at[e], dis_bit[e], due[e], called[e], undermined[e]>>
  <2>1. /\ dis_pc[d] = "unlocked" /\ UNCHANGED <<subscriber_list, sub, dis_at, dis_bit, undermined>>
        /\ \A e \in Dispatchers : e # d => UNCHANGED <<dis_pc[e], due[e], called[e]>>
    BY <1>0, <1>3 DEF Call, TypeOK
  <2>2. CASE dis_pc'[d] = "oops"
    BY <2>1, <2>2 DEF WalkInOrder
  <2>3. CASE /\ dis_pc'[d] = "called" /\ due'[d] = due[d] \ {dis_at[d]}
             /\ called'[d] = called[d] \cup {dis_at[d]}
    <3>1. Linked' = Linked
      BY <2>1 DEF Linked
    <3>2. ASSUME ~undermined[d]
          PROVE  Standing(d)'
      <4>1. Standing(d)
        BY <1>0, <2>1, <3>2 DEF WalkInOrder
      <4>2. \A i, j \in 1 .. Len(subscriber_list) : i < j => subscriber_list[i] # subscriber_list[j]
        BY <1>0 DEF ListOK, IsInjective
      <4>3. \A i, j \in 1 .. Len(subscriber_list) : i < j =>
              /\ ~(subscriber_list[i] \in due'[d] /\ subscriber_list[j] = dis_at[d])
              /\ ~(subscriber_list[i] = dis_at[d] /\ subscriber_list[j] \in called'[d])
        BY <2>3, <4>1, <4>2 DEF Standing
      <4>4. QED
        BY <2>1, <2>3, <3>1, <4>1, <4>3 DEF Standing, Interested
    <3>3. QED
      BY <2>1, <2>3, <3>2 DEF WalkInOrder
  <2>4. QED
    BY <1>0, <1>3, <2>2, <2>3 DEF Call, TypeOK
<1>4. ASSUME ResumeFreed(d) \/ ResumeSelfLoop(d)
      PROVE  /\ WalkInOrder(d)'
             /\ ~undermined[d] /\ dis_pc[d] = "called" /\ dis_pc'[d] = "idle" => due[d] = {}
             /\ \A e \in Dispatchers : e # d =>
                  UNCHANGED <<dis_pc[e], dis_at[e], dis_bit[e], due[e], called[e], undermined[e]>>
  <2>1. /\ dis_pc[d] = "called" /\ dis_pc'[d] \in {"unlocked", "stuck"}
        /\ UNCHANGED <<dis_bit, dis_at, history>> /\ mem[dis_at[d]] # "linked"
        /\ \A e \in Dispatchers : e # d => dis_pc'[e] = dis_pc[e]
    BY <1>0, <1>4 DEF ResumeFreed, ResumeSelfLoop, TypeOK
  <2>2. undermined[d]
    BY <1>0, <2>1 DEF WalkInOrder, Standing, ListOK
  <2>3. QED
    BY <2>1, <2>2 DEF WalkInOrder, history
<1>5. QED
  BY <1>1, <1>2, <1>3, <1>4 DEF DispatchStep

LEMMA WalksInOrderStep == IInv /\ [Next]_vars => WalksInOrder'
<1> SUFFICES ASSUME IInv, [Next]_vars, NEW d \in Dispatchers
             PROVE  WalkInOrder(d)'
  BY DEF WalksInOrder
<1>0. TypeOK /\ ListOK /\ Owned /\ WalkInOrder(d) /\ Linked \subseteq Nodes
  BY DEF IInv, WalksInOrder, ListOK, Linked, ToSet
<1>1. CASE UNCHANGED <<subscriber_list, sub, disVars, history>>
  BY <1>0, <1>1, Untouched DEF disVars, history
<1>2. ASSUME NEW s \in Subscribers, SubscribeNoMemory(s) \/ \E r \in Registration : SubscribeCheck(s, r)
      PROVE  WalkInOrder(d)'
  BY <1>1, <1>2 DEF SubscribeNoMemory, SubscribeCheck
<1>3. ASSUME NEW s \in Subscribers, NEW n \in Nodes, SubscribeAlloc(s, n)
      PROVE  WalkInOrder(d)'
  <2>1. n \notin Linked /\ sub' = [sub EXCEPT ![n] = sub_arg[s]]
    BY <1>0, <1>3 DEF ListOK, SubscribeAlloc
  <2>2. \A m \in Linked : sub'[m] = sub[m]
    BY <1>0, <2>1 DEF TypeOK
  <2>3. UNCHANGED <<subscriber_list, disVars, history>>
    BY <1>3 DEF SubscribeAlloc
  <2>4. QED
    BY <1>0, <2>2, <2>3, Untouched DEF disVars, history
<1>4. ASSUME NEW s \in Subscribers, SubscribeLink(s)
      PROVE  WalkInOrder(d)'
  <2>1. sub_node[s] \in Nodes /\ sub_node[s] \notin Linked
    BY <1>0, <1>4 DEF ListOK, Owned, SubscribeLink
  <2>2. subscriber_list' = Append(subscriber_list, sub_node[s]) /\ UNCHANGED <<sub, disVars, history>>
    BY <1>4 DEF SubscribeLink
  <2>3. QED
    BY <1>0, <2>1, <2>2, LinkedBehind
<1>5. ASSUME NEW name, Unsubscribe(name)
      PROVE  WalkInOrder(d)'
  <2>1. PICK k \in 1 .. Len(subscriber_list) :
           /\ subscriber_list' = RemoveAt(subscriber_list, k)
           /\ sub' = [sub EXCEPT ![subscriber_list[k]] = NoArg]
           /\ Forget({subscriber_list[k]})
    BY <1>0, <1>5, Unlinked
  <2>2. UNCHANGED disVars
    BY <1>5 DEF Unsubscribe
  <2>3. QED
    BY <1>0, <2>1, <2>2, UnlinkedAway
<1>6. CASE FreeSubscribers
  <2>1. Forget(Linked) /\ UNCHANGED disVars
    BY <1>6 DEF FreeSubscribers
  <2>2. /\ called'[d] = called[d] \ Linked
        /\ undermined'[d] = (undermined[d] \/ dis_at[d] \in Linked)
        /\ dis_pc'[d] = dis_pc[d]
    BY <2>1 DEF Forget, disVars
  <2>3. dis_pc[d] \in {"unlocked", "called"} => undermined'[d]
    BY <1>0, <2>2 DEF WalkInOrder, Standing
  <2>4. QED
    BY <1>0, <2>2, <2>3 DEF WalkInOrder
<1>7. ASSUME NEW e \in Dispatchers, DispatchStep(e)
      PROVE  WalkInOrder(d)'
  <2>1. CASE e = d
    BY <1>7, <2>1, DispatchInOrder
  <2>2. CASE e # d
    <3>1. UNCHANGED <<dis_pc[d], dis_at[d], dis_bit[d], due[d], called[d], undermined[d]>>
      BY <1>7, <2>2, DispatchInOrder
    <3>2. UNCHANGED <<subscriber_list, sub>>
      BY <1>7 DEF DispatchStep, DispatchBegin, Call, ResumeLinked, ResumeFreed, ResumeSelfLoop
    <3>3. QED
      BY <1>0, <3>1, <3>2, Untouched
  <2>3. QED
    BY <2>1, <2>2
<1>8. QED
  BY <1>1, <1>2, <1>3, <1>4, <1>5, <1>6, <1>7, NextSplit DEF SubscribeStep, UnsubscribeStep, vars

LEMMA InitIInv == Init => IInv
<1> SUFFICES ASSUME Init
             PROVE  IInv
  OBVIOUS
<1>1. Linked = {} /\ Len(subscriber_list) = 0 /\ DOMAIN subscriber_list = {}
  BY DEF Init, Linked, ToSet
<1>2. TypeOK
  BY DEF Init, TypeOK
<1>3. ListOK
  BY <1>1 DEF Init, ListOK, IsInjective
<1>4. Owned
  BY DEF Init, Owned
<1>5. WalksInOrder
  BY DEF Init, WalksInOrder, WalkInOrder
<1>6. CountOvershoot
  <2>1. Busy = {}
    BY DEF Init, Busy
  <2>2. Cardinality(Busy) = 0
    BY <2>1, FS_EmptySet
  <2>3. QED
    BY <2>2, BusyFacts DEF Init, CountOvershoot, Busy
<1>7. QED
  BY <1>2, <1>3, <1>4, <1>5, <1>6 DEF IInv

\* Exactly one call of subscribe owns an object: existence and uniqueness of
\* Owned, said as a cardinality.
LEMMA ListConsistent == IInv => SubscriberListConsistent
<1> SUFFICES ASSUME IInv
             PROVE  SubscriberListConsistent
  OBVIOUS
<1>1. ListOK /\ Owned
  BY DEF IInv
<1>2. ASSUME NEW n \in Nodes, mem[n] = "own"
      PROVE  Cardinality({s \in Subscribers : sub_pc[s] = "link" /\ sub_node[s] = n}) = 1
  <2>1. PICK s \in Subscribers : sub_pc[s] = "link" /\ sub_node[s] = n
    BY <1>1, <1>2 DEF Owned
  <2>2. {u \in Subscribers : sub_pc[u] = "link" /\ sub_node[u] = n} = {s}
    BY <1>1, <2>1 DEF Owned
  <2>3. QED
    BY <2>2, FS_Singleton
<1>3. QED
  BY <1>1, <1>2 DEF SubscriberListConsistent, ListOK
-----------------------------------------------------------------------------
(***************************************************************************)
(* Theorems.                                                                *)
(***************************************************************************)

\* The inductive invariant: types, the list against its count and the
\* allocator, whose the objects being linked are, and where every dispatch
\* stands in the list that changes under it.
THEOREM Invariance == Spec => []IInv
<1>1. IInv /\ [Next]_vars => IInv'
  BY TypeOKStep, ListOKStep, OwnedStep, WalksInOrderStep, CountOvershootStep DEF IInv
<1>2. QED
  BY <1>1, InitIInv, PTL DEF Spec

\* However subscribe, unsubscribe, unload and the dispatches interleave, the
\* list, subscriber_count and the allocator agree and no object is in two
\* hands (events.c:229-232, 248-257, 102-107).
THEOREM ListAgrees == Spec => []SubscriberListConsistent
BY Invariance, ListConsistent, PTL

\* The unlocked test of MAX_SUBSCRIBERS lets through at most the calls that
\* are in progress besides the last (events.c:213, 231).
THEOREM BoundedOvershoot == Spec => []CountOvershoot
<1>1. IInv => CountOvershoot
  BY DEF IInv
<1>2. QED
  BY <1>1, Invariance, PTL

\* A dispatch whose own node is not freed under it calls every subscriber that
\* wants the event and stays once, and none twice (events.c:278-289).
THEOREM ExactlyOnce == Spec => CalledExactlyOnce
<1> DEFINE A == \A d \in Dispatchers :
                  ~undermined[d] =>
                    /\ dis_pc[d] = "called" /\ dis_pc'[d] = "idle" => due[d] = {}
                    /\ dis_pc[d] = "unlocked" /\ dis_pc'[d] = "called"
                         => dis_at[d] \notin called[d]
<1>1. IInv /\ [Next]_vars => A
  <2> SUFFICES ASSUME IInv, [Next]_vars, NEW d \in Dispatchers, ~undermined[d]
               PROVE  /\ dis_pc[d] = "called" /\ dis_pc'[d] = "idle" => due[d] = {}
                      /\ dis_pc[d] = "unlocked" /\ dis_pc'[d] = "called"
                           => dis_at[d] \notin called[d]
    OBVIOUS
  <2>1. dis_pc[d] = "unlocked" => dis_at[d] \notin called[d]
    BY DEF IInv, WalksInOrder, WalkInOrder, Standing
  <2>2. CASE dis_pc'[d] = dis_pc[d]
    BY <2>2
  <2>3. ASSUME NEW e \in Dispatchers, DispatchStep(e)
        PROVE  dis_pc[d] = "called" /\ dis_pc'[d] = "idle" => due[d] = {}
    <3>1. CASE e = d
      BY <2>3, <3>1, DispatchInOrder
    <3>2. CASE e # d
      <4>1. dis_pc'[d] = dis_pc[d]
        BY <2>3, <3>2, DispatchInOrder
      <4>2. QED
        BY <4>1
    <3>3. QED
      BY <3>1, <3>2
  <2>4. \/ \E e \in Dispatchers : DispatchStep(e)
        \/ dis_pc' = dis_pc
    BY NextSplit DEF SubscribeStep, SubscribeCheck, SubscribeAlloc, SubscribeNoMemory, SubscribeLink,
                     UnsubscribeStep, Unsubscribe, FreeSubscribers, vars, disVars
  <2>5. QED
    BY <2>1, <2>2, <2>3, <2>4
<1>2. QED
  BY <1>1, Invariance, PTL DEF Spec, CalledExactlyOnce
=============================================================================
