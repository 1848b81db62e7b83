-------------------------- MODULE RuleEngine_proofs --------------------------
(***************************************************************************)
(* What holds of the rule engine for every set of rules, priorities,        *)
(* conditions, events and evaluators.                                       *)
(***************************************************************************)
EXTENDS RuleEngine, SequenceTheorems, FiniteSetTheorems, WellFoundedInduction, TLAPS

\* Rules are told apart by their ids, and no id is ahead of the counter.
IdsDiffer ==
  /\ priority \in [Rules -> Int] /\ id \in [Rules -> Nat] /\ rule_id_counter \in Nat
  /\ \A r \in Rules : mem[r] = "live" => id[r] <= rule_id_counter
  /\ \A r, q \in Rules : mem[r] = "live" /\ mem[q] = "live" /\ id[r] = id[q] => r = q

\* The counter of the set counts different objects.
Counted == active_rules = Cardinality(ToSet(rules))

\* One evaluator at a time is in the set.
LockInv == \A e, f \in Evaluators : HasLock(e) /\ HasLock(f) => e = f

\* Evaluations whose hit is counted and whose action is not yet.
Pending == {e \in Evaluators : pc[e] \in {"gap", "relock", "act", "store"}}

\* Unless a reset and an evaluation that counts have overlapped, nobody counts
\* during a reset, what was loaded is still there, and outside a reset the
\* balance is exact.
CountInv ==
  ~muddled =>
    /\ clearing # {} => /\ Counting = {}
                        /\ "rules_hit" \notin clearing => rules_hit = 0
                        /\ "actions_taken" \notin clearing => actions_taken = 0
    /\ clearing = {} => rules_hit = actions_taken + Cardinality(Pending)
    /\ \A e \in Evaluators : pc[e] = "hit" => seen[e] = rules_hit
    /\ \A e \in Evaluators : pc[e] = "store" => seen[e] = actions_taken

IInv ==
  /\ TypeOK
  /\ IdsDiffer
  /\ Counted
  /\ SetInOrder
  /\ LockInv
  /\ CountInv
  /\ HitRuleLives

RuleStep ==
  \/ \E r \in Rules, p \in Priorities, c \in BOOLEAN : CreateRule(r, p, c)
  \/ \E r \in Rules, c \in Conditions : AddCondition(r, c)
  \/ \E r \in Rules : AddRule(r) \/ RemoveRule(r) \/ FindRule(r)
  \/ \E b \in BOOLEAN : SetEnabled(b)
  \/ ExitRuleEngine

EvaluatorStep(e) == (\E ev \in Events : EvaluateBegin(e, ev)) \/ Evaluates(e)

ResetStep == ResetBegin \/ \E w \in Words : ResetWord(w)

LEMMA NextSplit ==
  Next <=> \/ RuleStep \/ ResetStep \/ \E b \in BOOLEAN : EnableRuleEngine(b)
           \/ \E e \in Evaluators : EvaluatorStep(e)
BY DEF Next, RuleStep, ResetStep, EvaluatorStep

\* Managing rules leaves the evaluators and the statistics alone, evaluating
\* leaves the set alone.
LEMMA Apart ==
  /\ RuleStep => bad = "no" /\ UNCHANGED <<rule_engine_enabled, stats, eval, begun, muddled>>
  /\ ResetStep => UNCHANGED <<set, rule_engine_enabled, eval, found, begun, bad>>
  /\ (\E b \in BOOLEAN : EnableRuleEngine(b)) => UNCHANGED <<set, stats, eval, found, history>>
  /\ \A e \in Evaluators : EvaluatorStep(e) =>
       bad = "no" /\ UNCHANGED <<set, rule_engine_enabled, clearing, found>>
BY DEF RuleStep, CreateRule, AddCondition, AddRule, RemoveRule, FindRule, SetEnabled, ExitRuleEngine,
       Manages, ResetStep, ResetBegin, ResetWord, EnableRuleEngine, EvaluatorStep, EvaluateBegin,
       Evaluates, EvaluateNothing, EvaluateWild, EvaluateHit, EvaluateCount, EvaluateCustom,
       EvaluateAct, EvaluateEnd, Step, stats, eval, history
-----------------------------------------------------------------------------
(***************************************************************************)
(* Sequences and sets of naturals.                                          *)
(***************************************************************************)
\* A set of naturals that is not empty has a least element.
LEMMA LeastExists ==
  ASSUME NEW T \in SUBSET Nat, T # {}
  PROVE  Min(T) \in T /\ \A y \in T : Min(T) <= y
<1> DEFINE R == {ss \in Nat \X Nat : ss[1] < ss[2]}
<1>1. IsWellFoundedOn(R, Nat)
  BY NatLessThanWellFounded DEF OpToRel
<1>2. \A x, y \in T : y < x => <<y, x>> \in R
  OBVIOUS
<1> HIDE DEF R
<1>3. PICK x \in T : \A y \in T : ~(<<y, x>> \in R)
  BY <1>1, WFMin
<1>4. \A y \in T : ~(y < x)
  BY <1>2, <1>3, Zenon
<1>5. \A y \in T : x <= y
  BY <1>4
<1>6. QED
  BY <1>5 DEF Min

\* Positions that come with all positions before them are the first so many.
LEMMA InitialSegment ==
  ASSUME NEW n \in Nat, NEW T \in SUBSET (1 .. n), \A i, j \in 1 .. n : i < j /\ j \in T => i \in T
  PROVE  Cardinality(T) \in 0 .. n /\ T = 1 .. Cardinality(T)
<1> DEFINE C == {k \in Nat : k >= 1 /\ k \notin T}
<1>1. n + 1 \in C /\ C \in SUBSET Nat
  OBVIOUS
<1> DEFINE m == Min(C)
<1>2. m \in C /\ \A y \in C : m <= y
  <2> HIDE DEF C
  <2>1. QED
    BY <1>1, LeastExists
<1> HIDE DEF m
<1>3. m \in 1 .. n + 1 /\ m \notin T
  BY <1>1, <1>2
<1>4. T = 1 .. m - 1
  <2>1. \A i \in 1 .. m - 1 : i \in T
    BY <1>2, <1>3
  <2>2. \A i \in T : i < m
    BY <1>3
  <2>3. \A i \in T : i \in 1 .. m - 1
    BY <1>3, <2>2
  <2>4. QED
    BY <2>1, <2>3
<1>5. Cardinality(T) = m - 1
  <2>1. m - 1 \in Int /\ 1 \in Int
    BY <1>3
  <2>2. Cardinality(1 .. m - 1) = IF 1 > m - 1 THEN 0 ELSE m - 1 - 1 + 1
    BY <2>1, FS_Interval
  <2>3. QED
    BY <1>3, <1>4, <2>2
<1>6. QED
  BY <1>3, <1>4, <1>5

LEMMA InsertAtFacts ==
  ASSUME NEW S, NEW s \in Seq(S), NEW e \in S, NEW k \in 1 .. Len(s) + 1
  PROVE  /\ InsertAt(s, k, e) \in Seq(S) /\ Len(InsertAt(s, k, e)) = Len(s) + 1
         /\ \A i \in 1 .. Len(s) + 1 :
              /\ i < k => InsertAt(s, k, e)[i] = s[i]
              /\ i = k => InsertAt(s, k, e)[i] = e
              /\ i > k => InsertAt(s, k, e)[i] = s[i - 1]
<1> DEFINE a == SubSeq(s, 1, k - 1)
           b == SubSeq(s, k, Len(s))
           c == a \o <<e>>
<1>1. Len(s) \in Nat /\ k \in Nat /\ k >= 1 /\ k <= Len(s) + 1 /\ \A i \in 1 .. Len(s) : s[i] \in S
  OBVIOUS
<1>2. /\ a \in Seq(S) /\ Len(a) = k - 1
      /\ \A i \in 1 .. k - 1 : a[i] = s[i]
  <2>1. \A i \in 1 .. k - 1 : s[i] \in S
    BY <1>1
  <2>2. /\ a \in Seq(S) /\ Len(a) = (IF 1 <= k - 1 THEN (k - 1) - 1 + 1 ELSE 0)
        /\ \A i \in 1 .. (k - 1) - 1 + 1 : a[i] = s[1 + i - 1]
    BY <1>1, <2>1, SubSeqProperties
  <2>3. QED
    BY <1>1, <2>2
<1>3. /\ b \in Seq(S) /\ Len(b) = Len(s) - k + 1
      /\ \A i \in 1 .. Len(s) - k + 1 : b[i] = s[k + i - 1]
  <2>1. \A i \in k .. Len(s) : s[i] \in S
    BY <1>1
  <2>2. /\ b \in Seq(S) /\ Len(b) = (IF k <= Len(s) THEN Len(s) - k + 1 ELSE 0)
        /\ \A i \in 1 .. Len(s) - k + 1 : b[i] = s[k + i - 1]
    BY <1>1, <2>1, SubSeqProperties
  <2>3. QED
    BY <1>1, <2>2
<1> HIDE DEF a, b
<1>4. /\ c \in Seq(S) /\ Len(c) = k /\ c[k] = e
      /\ \A i \in 1 .. k - 1 : c[i] = s[i]
  <2>1. <<e>> \in Seq(S) /\ Len(<<e>>) = 1 /\ <<e>>[1] = e
    OBVIOUS
  <2>2. /\ c \in Seq(S) /\ Len(c) = Len(a) + Len(<<e>>)
        /\ \A i \in 1 .. Len(a) + Len(<<e>>) : c[i] = IF i <= Len(a) THEN a[i] ELSE <<e>>[i - Len(a)]
    BY <1>2, <2>1, ConcatProperties
  <2> HIDE DEF c
  <2>3. c[k] = <<e>>[k - (k - 1)]
    BY <1>1, <1>2, <2>1, <2>2
  <2>4. k - (k - 1) = 1
    BY <1>1
  <2>5. \A i \in 1 .. k - 1 : c[i] = s[i]
    BY <1>1, <1>2, <2>1, <2>2
  <2>6. Len(c) = k
    BY <1>1, <1>2, <2>1, <2>2
  <2>7. QED
    BY <2>1, <2>2, <2>3, <2>4, <2>5, <2>6
<1>5. InsertAt(s, k, e) = c \o b
  BY DEF InsertAt, a, b
<1> HIDE DEF c
<1>6. /\ c \o b \in Seq(S) /\ Len(c \o b) = Len(c) + Len(b)
      /\ \A i \in 1 .. Len(c) + Len(b) : (c \o b)[i] = IF i <= Len(c) THEN c[i] ELSE b[i - Len(c)]
  BY <1>3, <1>4, ConcatProperties
<1>7. Len(c) + Len(b) = Len(s) + 1
  BY <1>1, <1>3, <1>4
<1>8. ASSUME NEW i \in 1 .. Len(s) + 1
      PROVE  /\ i < k => (c \o b)[i] = s[i]
             /\ i = k => (c \o b)[i] = e
             /\ i > k => (c \o b)[i] = s[i - 1]
  <2>1. (c \o b)[i] = IF i <= k THEN c[i] ELSE b[i - k]
    BY <1>4, <1>6, <1>7
  <2>2. CASE i <= k
    BY <1>1, <1>4, <2>1, <2>2
  <2>3. CASE i > k
    <3>1. i - k \in 1 .. Len(s) - k + 1 /\ k + (i - k) - 1 = i - 1 /\ ~(i <= k) /\ ~(i < k) /\ i # k
      BY <1>1, <2>3
    <3>2. b[i - k] = s[i - 1]
      BY <1>3, <3>1
    <3>3. QED
      BY <2>1, <3>1, <3>2
  <2>4. i <= k \/ i > k
    BY <1>1
  <2>5. QED
    BY <2>2, <2>3, <2>4, Zenon
<1>9. QED
  BY <1>5, <1>6, <1>7, <1>8
LEMMA RemoveAtFacts ==
  ASSUME NEW S, NEW s \in Seq(S), NEW k \in 1 .. Len(s)
  PROVE  /\ RemoveAt(s, k) \in Seq(S) /\ Len(RemoveAt(s, k)) = Len(s) - 1
         /\ \A i \in 1 .. Len(s) - 1 : RemoveAt(s, k)[i] = IF i < k THEN s[i] ELSE s[i + 1]
<1> DEFINE a == SubSeq(s, 1, k - 1)
           b == SubSeq(s, k + 1, Len(s))
<1>1. Len(s) \in Nat /\ k \in Nat /\ k >= 1 /\ k <= Len(s) /\ \A i \in 1 .. Len(s) : s[i] \in S
  OBVIOUS
<1>2. /\ a \in Seq(S) /\ Len(a) = k - 1
      /\ \A i \in 1 .. k - 1 : a[i] = s[i]
  <2>1. \A i \in 1 .. k - 1 : s[i] \in S
    BY <1>1
  <2>2. /\ a \in Seq(S) /\ Len(a) = (IF 1 <= k - 1 THEN (k - 1) - 1 + 1 ELSE 0)
        /\ \A i \in 1 .. (k - 1) - 1 + 1 : a[i] = s[1 + i - 1]
    BY <1>1, <2>1, SubSeqProperties
  <2>3. QED
    BY <1>1, <2>2
<1>3. /\ b \in Seq(S) /\ Len(b) = Len(s) - k
      /\ \A i \in 1 .. Len(s) - k : b[i] = s[k + i]
  <2>1. \A i \in k + 1 .. Len(s) : s[i] \in S
    BY <1>1
  <2>2. /\ b \in Seq(S) /\ Len(b) = (IF k + 1 <= Len(s) THEN Len(s) - (k + 1) + 1 ELSE 0)
        /\ \A i \in 1 .. Len(s) - (k + 1) + 1 : b[i] = s[(k + 1) + i - 1]
    BY <1>1, <2>1, SubSeqProperties
  <2>3. QED
    BY <1>1, <2>2
<1>4. RemoveAt(s, k) = a \o b
  BY DEF RemoveAt
<1> HIDE DEF a, b
<1>5. /\ a \o b \in Seq(S) /\ Len(a \o b) = Len(a) + Len(b)
      /\ \A i \in 1 .. Len(a) + Len(b) : (a \o b)[i] = IF i <= Len(a) THEN a[i] ELSE b[i - Len(a)]
  BY <1>2, <1>3, ConcatProperties
<1>6. Len(a) + Len(b) = Len(s) - 1
  BY <1>1, <1>2, <1>3
<1>7. ASSUME NEW i \in 1 .. Len(s) - 1
      PROVE  (a \o b)[i] = IF i < k THEN s[i] ELSE s[i + 1]
  <2>1. (a \o b)[i] = IF i <= Len(a) THEN a[i] ELSE b[i - Len(a)]
    BY <1>5, <1>6
  <2>2. CASE i < k
    BY <1>1, <1>2, <2>1, <2>2
  <2>3. CASE ~(i < k)
    <3>1. i - (k - 1) \in 1 .. Len(s) - k /\ k + (i - (k - 1)) = i + 1
      BY <1>1, <2>3
    <3>2. ~(i <= Len(a)) /\ Len(a) = k - 1
      BY <1>1, <1>2, <2>3
    <3>3. (a \o b)[i] = b[i - (k - 1)]
      BY <2>1, <3>2
    <3>4. QED
      BY <1>3, <2>3, <3>1, <3>3
  <2>4. QED
    BY <2>2, <2>3
<1>8. QED
  BY <1>4, <1>5, <1>6, <1>7

\* Removing a position of a list without repetition removes its element, and
\* the others keep their order.
LEMMA RemoveFromList ==
  ASSUME NEW S, NEW s \in Seq(S), IsInjective(s), NEW k \in 1 .. Len(s)
  PROVE  LET t == RemoveAt(s, k) IN
         /\ IsInjective(t) /\ ToSet(t) = ToSet(s) \ {s[k]}
         /\ \A i, j \in 1 .. Len(t) : i < j =>
              \E p, q \in 1 .. Len(s) : p < q /\ t[i] = s[p] /\ t[j] = s[q]
<1> DEFINE t == RemoveAt(s, k)
           Old(i) == IF i < k THEN i ELSE i + 1
<1>1. /\ t \in Seq(S) /\ Len(t) = Len(s) - 1 /\ Len(s) \in Nat
      /\ \A i \in 1 .. Len(s) - 1 : t[i] = IF i < k THEN s[i] ELSE s[i + 1]
  <2>1. Len(s) \in Nat
    OBVIOUS
  <2>2. t \in Seq(S) /\ Len(t) = Len(s) - 1
    BY RemoveAtFacts
  <2>3. \A i \in 1 .. Len(s) - 1 : t[i] = IF i < k THEN s[i] ELSE s[i + 1]
    BY RemoveAtFacts, Zenon
  <2>4. QED
    BY <2>1, <2>2, <2>3
<1> HIDE DEF t
<1>2. \A i \in 1 .. Len(s) - 1 : t[i] = s[Old(i)] /\ Old(i) \in 1 .. Len(s) /\ Old(i) # k
  BY <1>1
<1>3. \A i, j \in 1 .. Len(s) - 1 : i < j => Old(i) < Old(j)
  BY <1>1
<1>4. \A p \in 1 .. Len(s) : p # k => \E i \in 1 .. Len(s) - 1 : p = Old(i)
  <2>1. SUFFICES ASSUME NEW p \in 1 .. Len(s), p # k
                 PROVE  \E i \in 1 .. Len(s) - 1 : p = Old(i)
    OBVIOUS
  <2>2. CASE p < k
    BY <1>1, <2>2
  <2>3. CASE p > k
    <3>1. p - 1 \in 1 .. Len(s) - 1 /\ p = Old(p - 1)
      BY <1>1, <2>3
    <3>2. QED
      BY <3>1
  <2>4. QED
    BY <2>1, <2>2, <2>3
<1>5. DOMAIN t = 1 .. Len(s) - 1 /\ DOMAIN s = 1 .. Len(s)
  BY <1>1
<1> HIDE DEF Old
<1>6. IsInjective(t)
  <2>1. SUFFICES ASSUME NEW i \in 1 .. Len(s) - 1, NEW j \in 1 .. Len(s) - 1, t[i] = t[j]
                 PROVE  i = j
    BY <1>5 DEF IsInjective
  <2>2. Old(i) = Old(j)
    BY <1>2, <1>5, <2>1 DEF IsInjective
  <2>3. QED
    BY <1>2, <1>3, <2>2
<1>7. ToSet(t) = ToSet(s) \ {s[k]}
  <2>1. ToSet(t) \subseteq ToSet(s) \ {s[k]}
    BY <1>2, <1>5 DEF ToSet, IsInjective
  <2>2. ToSet(s) \ {s[k]} \subseteq ToSet(t)
    <3>1. SUFFICES ASSUME NEW p \in 1 .. Len(s), p # k
                   PROVE  s[p] \in ToSet(t)
      BY <1>5 DEF ToSet
    <3>2. PICK i \in 1 .. Len(s) - 1 : p = Old(i)
      BY <1>4, <3>1
    <3>3. t[i] = s[p] /\ i \in DOMAIN t
      BY <1>2, <1>5, <3>2
    <3>4. QED
      BY <3>3 DEF ToSet
  <2>3. QED
    BY <2>1, <2>2
<1>8. \A i, j \in 1 .. Len(t) : i < j =>
        \E p, q \in 1 .. Len(s) : p < q /\ t[i] = s[p] /\ t[j] = s[q]
  BY <1>1, <1>2, <1>3
<1>9. QED
  BY <1>6, <1>7, <1>8 DEF t
-----------------------------------------------------------------------------
(***************************************************************************)
(* The set.                                                                 *)
(***************************************************************************)
LEMMA SetFacts ==
  ASSUME IInv
  PROVE  /\ rules \in Seq(Rules) /\ Len(rules) \in Nat /\ DOMAIN rules = 1 .. Len(rules)
         /\ ToSet(rules) \subseteq Rules /\ IsFiniteSet(ToSet(rules)) /\ IsInjective(rules)
         /\ \A r \in Rules : priority[r] \in Int /\ id[r] \in Nat
         /\ \A i, j \in 1 .. Len(rules) : i < j => Before(rules[i], rules[j])
<1>1. rules \in Seq(Rules)
  BY DEF IInv, TypeOK
<1>2. /\ Len(rules) \in Nat /\ DOMAIN rules = 1 .. Len(rules)
      /\ \A i \in 1 .. Len(rules) : rules[i] \in Rules
  BY <1>1
<1>3. ToSet(rules) \in SUBSET Rules
  BY <1>2 DEF ToSet
<1>4. \A r \in Rules : priority[r] \in Int /\ id[r] \in Nat
  BY DEF IInv, IdsDiffer
<1>5. \A i, j \in 1 .. Len(rules) : i < j => Before(rules[i], rules[j])
  BY <1>2 DEF IInv, SetInOrder, Before
<1>6. IsInjective(rules)
  BY <1>2, <1>4, <1>5 DEF IsInjective, Before
<1>7. QED
  BY <1>1, <1>2, <1>3, <1>4, <1>5, <1>6, FS_Subset, RuleEngineAssumption

\* Rules with different ids are ordered, one way or the other.
LEMMA BeforeIsTotal ==
  ASSUME IInv, NEW a \in Rules, NEW b \in Rules, NEW c \in Rules
  PROVE  /\ mem[a] = "live" /\ mem[b] = "live" /\ a # b => Before(a, b) \/ Before(b, a)
         /\ ~(Before(a, b) /\ Before(b, a))
         /\ Before(a, b) /\ Before(b, c) => Before(a, c)
<1>1. \A r \in Rules : priority[r] \in Int /\ id[r] \in Nat
  BY SetFacts
<1>2. mem[a] = "live" /\ mem[b] = "live" /\ a # b => id[a] # id[b]
  BY DEF IInv, IdsDiffer
<1>3. QED
  BY <1>1, <1>2 DEF Before

\* The descent of add_rule_to_set finds the place: rules before it come before
\* the new one, rules from it on come after.
LEMMA Placed ==
  ASSUME IInv, NEW r \in Rules, AddRule(r)
  PROVE  \E k \in 1 .. Len(rules) + 1 :
           /\ rules' = InsertAt(rules, k, r)
           /\ \A i \in 1 .. Len(rules) : IF i < k THEN Before(rules[i], r) ELSE Before(r, rules[i])
<1> DEFINE T == {i \in DOMAIN rules : ~Before(r, rules[i])}
           n == Cardinality(T)
<1>0. /\ Len(rules) \in Nat /\ DOMAIN rules = 1 .. Len(rules)
      /\ \A i \in 1 .. Len(rules) : rules[i] \in Rules
  BY SetFacts
<1>1. \A i \in 1 .. Len(rules) : rules[i] # r /\ mem[rules[i]] = "live"
  BY <1>0 DEF AddRule, IInv, SetInOrder, ToSet
<1>2. mem[r] = "live" /\ rules' = InsertAt(rules, n + 1, r)
  BY DEF AddRule
<1>3. \A i \in 1 .. Len(rules) : Before(rules[i], r) \/ Before(r, rules[i])
  BY <1>0, <1>1, <1>2, BeforeIsTotal
<1>4. \A i, j \in 1 .. Len(rules) : i < j /\ j \in T => i \in T
  <2>1. SUFFICES ASSUME NEW i \in 1 .. Len(rules), NEW j \in 1 .. Len(rules), i < j,
                        ~Before(r, rules[j]), Before(r, rules[i])
                 PROVE  FALSE
    BY <1>0
  <2>2. Before(rules[i], rules[j])
    BY <2>1, SetFacts
  <2>3. QED
    BY <1>0, <2>1, <2>2, BeforeIsTotal
<1>5. T \in SUBSET (1 .. Len(rules))
  BY <1>0
<1>6. \A i \in 1 .. Len(rules) : i \in T <=> ~Before(r, rules[i])
  BY <1>0
<1> HIDE DEF T
<1>7. n \in 0 .. Len(rules) /\ T = 1 .. n
  BY <1>0, <1>4, <1>5, InitialSegment
<1> HIDE DEF n
<1>8. n + 1 \in 1 .. Len(rules) + 1
  BY <1>0, <1>7
<1>9. \A i \in 1 .. Len(rules) : (i < n + 1) <=> ~Before(r, rules[i])
  BY <1>0, <1>6, <1>7
<1>10. \A i \in 1 .. Len(rules) :
         IF i < n + 1 THEN Before(rules[i], r) ELSE Before(r, rules[i])
  BY <1>3, <1>9
<1>11. QED
  BY <1>2, <1>8, <1>10

\* What the set is after a step of its managers.
LEMMA AddRuleKeeps ==
  ASSUME IInv, NEW r \in Rules, AddRule(r)
  PROVE  /\ rules' \in Seq(Rules) /\ SetInOrder' /\ Counted'
<1>1. PICK k \in 1 .. Len(rules) + 1 :
        /\ rules' = InsertAt(rules, k, r)
        /\ \A i \in 1 .. Len(rules) : IF i < k THEN Before(rules[i], r) ELSE Before(r, rules[i])
  BY Placed
<1>2. /\ rules \in Seq(Rules) /\ Len(rules) \in Nat /\ DOMAIN rules = 1 .. Len(rules)
      /\ \A i, j \in 1 .. Len(rules) : i < j => Before(rules[i], rules[j])
  BY SetFacts
<1>3. /\ rules' \in Seq(Rules) /\ Len(rules') = Len(rules) + 1
      /\ \A i \in 1 .. Len(rules) + 1 :
           /\ i < k => rules'[i] = rules[i]
           /\ i = k => rules'[i] = r
           /\ i > k => rules'[i] = rules[i - 1]
  <2> DEFINE t == InsertAt(rules, k, r)
  <2>1. t \in Seq(Rules) /\ Len(t) = Len(rules) + 1
    BY <1>2, InsertAtFacts
  <2>2. \A i \in 1 .. Len(rules) + 1 :
           /\ i < k => t[i] = rules[i]
           /\ i = k => t[i] = r
           /\ i > k => t[i] = rules[i - 1]
    BY <1>2, InsertAtFacts
  <2>3. rules' = t
    BY <1>1
  <2> HIDE DEF t
  <2>4. QED
    BY <2>1, <2>2, <2>3
<1>4. /\ r \notin ToSet(rules) /\ mem[r] = "live" /\ UNCHANGED <<mem, id, priority>>
      /\ active_rules' = active_rules + 1
  BY DEF AddRule, contents
<1>5. DOMAIN rules' = 1 .. Len(rules) + 1
  BY <1>3
<1>6. ASSUME NEW i \in 1 .. Len(rules) + 1, NEW j \in 1 .. Len(rules) + 1, i < j
      PROVE  Before(rules'[i], rules'[j])
  <2>1. CASE i < k /\ j < k
    BY <1>2, <1>3, <1>6, <2>1
  <2>2. CASE i < k /\ j = k
    <3>1. i \in 1 .. Len(rules) /\ rules'[i] = rules[i] /\ rules'[j] = r
      BY <1>2, <1>3, <2>2
    <3>2. QED
      BY <1>1, <2>2, <3>1
  <2>3. CASE i < k /\ j > k
    <3>1. i \in 1 .. Len(rules) /\ j - 1 \in 1 .. Len(rules) /\ i < j - 1
      BY <1>2, <2>3
    <3>2. rules'[i] = rules[i] /\ rules'[j] = rules[j - 1]
      BY <1>3, <2>3
    <3>3. QED
      BY <1>2, <3>1, <3>2
  <2>4. CASE i = k
    <3>1. j - 1 \in 1 .. Len(rules) /\ ~(j - 1 < k) /\ j > k
      BY <1>2, <1>6, <2>4
    <3>2. rules'[i] = r /\ rules'[j] = rules[j - 1]
      BY <1>3, <2>4, <3>1
    <3>3. QED
      BY <1>1, <3>1, <3>2
  <2>5. CASE i > k
    <3>1. i - 1 \in 1 .. Len(rules) /\ j - 1 \in 1 .. Len(rules) /\ i - 1 < j - 1 /\ j > k
      BY <1>2, <1>6, <2>5
    <3>2. rules'[i] = rules[i - 1] /\ rules'[j] = rules[j - 1]
      BY <1>3, <2>5, <3>1
    <3>3. QED
      BY <1>2, <3>1, <3>2
  <2>6. QED
    BY <2>1, <2>2, <2>3, <2>4, <2>5
<1>7. ToSet(rules') = ToSet(rules) \cup {r}
  <2>1. ToSet(rules') \subseteq ToSet(rules) \cup {r}
    <3>1. SUFFICES ASSUME NEW i \in 1 .. Len(rules) + 1, rules'[i] # r
                   PROVE  rules'[i] \in ToSet(rules)
      BY <1>5 DEF ToSet
    <3>2. \E j \in 1 .. Len(rules) : rules'[i] = rules[j]
      <4>1. CASE i < k
        BY <1>2, <1>3, <4>1
      <4>2. CASE i > k
        <5>1. i - 1 \in 1 .. Len(rules) /\ rules'[i] = rules[i - 1]
          BY <1>2, <1>3, <4>2
        <5>2. QED
          BY <5>1
      <4>3. QED
        BY <1>2, <1>3, <3>1, <4>1, <4>2
    <3>3. QED
      BY <1>2, <3>2 DEF ToSet
  <2>2. r \in ToSet(rules')
    <3>1. k \in 1 .. Len(rules) + 1 /\ rules'[k] = r
      BY <1>2, <1>3
    <3>2. QED
      BY <1>5, <3>1 DEF ToSet
  <2>3. ASSUME NEW i \in 1 .. Len(rules)
        PROVE  rules[i] \in ToSet(rules')
    <3>1. i \in 1 .. Len(rules) + 1 /\ i + 1 \in 1 .. Len(rules) + 1
      BY <1>2
    <3>2. rules[i] = rules'[i] \/ rules[i] = rules'[i + 1]
      BY <1>2, <1>3, <3>1
    <3>3. QED
      BY <1>5, <3>1, <3>2 DEF ToSet
  <2>4. QED
    BY <1>2, <2>1, <2>2, <2>3 DEF ToSet
<1>8. Cardinality(ToSet(rules')) = Cardinality(ToSet(rules)) + 1
  BY <1>4, <1>7, SetFacts, FS_AddElement
<1>9. active_rules = Len(rules) /\ \A q \in ToSet(rules) : mem[q] = "live"
  BY DEF IInv, SetInOrder
<1>10. active_rules = Cardinality(ToSet(rules))
  BY DEF IInv, Counted
<1>11. SetInOrder'
  <2>1. \A i, j \in DOMAIN rules' : i < j => Before(rules'[i], rules'[j])
    BY <1>5, <1>6
  <2>2. QED
    BY <1>3, <1>4, <1>7, <1>9, <2>1 DEF SetInOrder, Before
<1>12. QED
  BY <1>3, <1>4, <1>8, <1>10, <1>11 DEF Counted

LEMMA RemoveRuleKeeps ==
  ASSUME IInv, NEW r \in Rules, RemoveRule(r)
  PROVE  /\ rules' \in Seq(Rules) /\ SetInOrder' /\ Counted'
<1>1. PICK k \in DOMAIN rules : rules[k] = r /\ rules' = RemoveAt(rules, k)
  BY DEF RemoveRule
<1>2. /\ rules \in Seq(Rules) /\ Len(rules) \in Nat /\ DOMAIN rules = 1 .. Len(rules)
      /\ IsInjective(rules) /\ ToSet(rules) \subseteq Rules
      /\ \A i, j \in 1 .. Len(rules) : i < j => Before(rules[i], rules[j])
  BY SetFacts
<1> DEFINE t == RemoveAt(rules, k)
<1>3. t \in Seq(Rules) /\ Len(t) = Len(rules) - 1
  BY <1>2, RemoveAtFacts
<1>4. /\ ToSet(t) = ToSet(rules) \ {r}
      /\ \A i, j \in 1 .. Len(t) : i < j =>
           \E p, q \in 1 .. Len(rules) : p < q /\ t[i] = rules[p] /\ t[j] = rules[q]
  BY <1>1, <1>2, RemoveFromList
<1>5. rules' = t
  BY <1>1
<1> HIDE DEF t
<1>6. DOMAIN t = 1 .. Len(t) /\ r \in ToSet(rules)
  BY <1>1, <1>3 DEF ToSet
<1>7. /\ \A q \in Rules : q # r => mem'[q] = mem[q] /\ priority'[q] = priority[q] /\ id'[q] = id[q]
      /\ active_rules' = active_rules - 1
  BY DEF RemoveRule, Freed
<1>8. Cardinality(ToSet(t)) = Cardinality(ToSet(rules)) - 1
  BY <1>4, <1>6, SetFacts, FS_RemoveElement
<1>9. active_rules = Len(rules) /\ \A q \in ToSet(rules) : mem[q] = "live"
  BY DEF IInv, SetInOrder
<1>10. active_rules = Cardinality(ToSet(rules))
  BY DEF IInv, Counted
<1>11. \A i, j \in 1 .. Len(t) : i < j =>
         \/ priority'[t[i]] > priority'[t[j]]
         \/ priority'[t[i]] = priority'[t[j]] /\ id'[t[i]] < id'[t[j]]
  <2>1. SUFFICES ASSUME NEW i \in 1 .. Len(t), NEW j \in 1 .. Len(t), i < j
                 PROVE  \/ priority'[t[i]] > priority'[t[j]]
                        \/ priority'[t[i]] = priority'[t[j]] /\ id'[t[i]] < id'[t[j]]
    OBVIOUS
  <2>2. Before(t[i], t[j])
    BY <1>2, <1>4, <2>1
  <2>3. t[i] \in ToSet(t) /\ t[j] \in ToSet(t)
    BY <1>6 DEF ToSet
  <2>4. t[i] \in Rules \ {r} /\ t[j] \in Rules \ {r}
    BY <1>2, <1>4, <2>3
  <2>5. QED
    BY <1>7, <2>2, <2>4 DEF Before
<1>12. \A q \in ToSet(t) : mem'[q] = "live"
  BY <1>2, <1>4, <1>7, <1>9
<1>13. SetInOrder'
  BY <1>3, <1>5, <1>6, <1>7, <1>9, <1>11, <1>12 DEF SetInOrder
<1>14. QED
  BY <1>3, <1>5, <1>7, <1>8, <1>10, <1>13 DEF Counted

LEMMA SetStep ==
  ASSUME IInv, [Next]_vars
  PROVE  /\ rules' \in Seq(Rules) /\ SetInOrder' /\ Counted'
<1>0. /\ rules \in Seq(Rules) /\ SetInOrder /\ Counted
      /\ ToSet(rules) \subseteq Rules /\ DOMAIN rules = 1 .. Len(rules)
      /\ \A i \in 1 .. Len(rules) : rules[i] \in Rules /\ rules[i] \in ToSet(rules)
  BY SetFacts DEF IInv, ToSet
<1>1. ASSUME UNCHANGED <<rules, active_rules>>,
             \A q \in ToSet(rules) : UNCHANGED <<mem[q], priority[q], id[q]>>
      PROVE  /\ rules' \in Seq(Rules) /\ SetInOrder' /\ Counted'
  <2>1. SetInOrder'
    <3>1. \A i \in 1 .. Len(rules) :
            priority'[rules[i]] = priority[rules[i]] /\ id'[rules[i]] = id[rules[i]]
      BY <1>0, <1>1
    <3>2. \A q \in ToSet(rules) : mem'[q] = "live"
      BY <1>0, <1>1 DEF SetInOrder
    <3>3. QED
      BY <1>0, <1>1, <3>1, <3>2 DEF SetInOrder
  <2>2. QED
    BY <1>0, <1>1, <2>1 DEF Counted
<1>2. CASE UNCHANGED set
  BY <1>1, <1>2 DEF set, contents
<1>3. ASSUME NEW r \in Rules, NEW p \in Priorities, NEW c \in BOOLEAN, CreateRule(r, p, c)
      PROVE  /\ rules' \in Seq(Rules) /\ SetInOrder' /\ Counted'
  <2>1. r \notin ToSet(rules)
    BY <1>0, <1>3 DEF CreateRule, SetInOrder
  <2>2. \A q \in Rules : q # r => UNCHANGED <<mem[q], priority[q], id[q]>>
    BY <1>3 DEF CreateRule, IInv, TypeOK, IdsDiffer
  <2>3. UNCHANGED <<rules, active_rules>>
    BY <1>3 DEF CreateRule
  <2>4. QED
    BY <1>0, <1>1, <2>1, <2>2, <2>3
<1>4. CASE \/ \E r \in Rules, c \in Conditions : AddCondition(r, c)
           \/ \E r \in Rules : FindRule(r)
           \/ \E b \in BOOLEAN : SetEnabled(b)
  BY <1>1, <1>4 DEF AddCondition, FindRule, SetEnabled, set, contents
<1>5. CASE ExitRuleEngine
  <2>1. rules' = <<>> /\ active_rules' = 0 /\ ToSet(rules') = {}
    BY <1>5 DEF ExitRuleEngine, ToSet
  <2>2. QED
    BY <2>1, FS_EmptySet DEF SetInOrder, Counted
<1>6. QED
  BY <1>2, <1>3, <1>4, <1>5, Apart, NextSplit, AddRuleKeeps, RemoveRuleKeeps DEF RuleStep, vars

LEMMA IdsDifferStep ==
  ASSUME IInv, [Next]_vars
  PROVE  IdsDiffer'
<1>0. TypeOK /\ IdsDiffer
  BY DEF IInv
<1>1. CASE UNCHANGED <<mem, priority, id, rule_id_counter>>
  BY <1>0, <1>1 DEF IdsDiffer
<1>2. ASSUME NEW r \in Rules, NEW p \in Priorities, NEW c \in BOOLEAN, CreateRule(r, p, c)
      PROVE  IdsDiffer'
  <2>1. /\ rule_id_counter' = rule_id_counter + 1 /\ id' = [id EXCEPT ![r] = rule_id_counter + 1]
        /\ priority' = [priority EXCEPT ![r] = p] /\ mem' = [mem EXCEPT ![r] = "live"] /\ p \in Int
    BY <1>2, RuleEngineAssumption DEF CreateRule
  <2>2. QED
    BY <1>0, <2>1 DEF IdsDiffer, TypeOK
<1>3. ASSUME NEW rs, Freed(rs), UNCHANGED rule_id_counter
      PROVE  IdsDiffer'
  BY <1>0, <1>3 DEF Freed, IdsDiffer
<1>4. CASE RuleStep /\ ~\E r \in Rules, p \in Priorities, c \in BOOLEAN : CreateRule(r, p, c)
  BY <1>1, <1>3, <1>4 DEF RuleStep, AddCondition, AddRule, RemoveRule, FindRule, SetEnabled,
                          ExitRuleEngine, set, contents
<1>5. QED
  BY <1>1, <1>2, <1>4, Apart, NextSplit DEF vars, set, contents, RuleStep

\* The walk ends at a rule of the set.
LEMMA HitInSet ==
  ASSUME IInv, NEW ev, Stops(ev) # {}
  PROVE  Hit(ev) \in ToSet(rules) /\ Hit(ev) \in Rules
<1>1. Stops(ev) \in SUBSET Nat /\ Stops(ev) \subseteq DOMAIN rules
  BY SetFacts DEF Stops
<1>2. Min(Stops(ev)) \in DOMAIN rules
  BY <1>1, LeastExists
<1>3. QED
  BY <1>2, SetFacts DEF Hit, ToSet

LEMMA TypeOKStep ==
  ASSUME IInv, [Next]_vars
  PROVE  TypeOK'
<1>0. TypeOK /\ Cardinality(Rules) \in Nat
  BY FS_CardinalityType, RuleEngineAssumption DEF IInv
<1> DEFINE
     SetOK == /\ rules \in Seq(Rules) /\ active_rules \in 0 .. Cardinality(Rules)
              /\ id \in [Rules -> Nat] /\ priority \in [Rules -> Int] /\ rule_id_counter \in Nat
     MemOK == /\ default_rule_set \in {"live", "none"}
              /\ mem \in [Rules -> {"unused", "live", "freed"}]
              /\ custom \in [Rules -> BOOLEAN] /\ enabled \in [Rules -> BOOLEAN]
              /\ conditions \in [Rules -> Seq(Conditions)]
     EvalOK == /\ pc \in [Evaluators -> {"idle", "lock", "hit", "gap", "relock", "act", "store"}]
               /\ event \in [Evaluators -> Events]
               /\ rule \in [Evaluators -> Rules \cup {NoRule}]
               /\ seen \in [Evaluators -> Nat]
     CountOK == /\ rules_hit \in Nat /\ actions_taken \in Nat /\ clearing \subseteq Words
     HistoryOK == begun \in Nat /\ muddled \in BOOLEAN
     BadOK == bad \in {"no", "bad_free", "stale", "wild", "freed"}
     FoundOK == found \in Rules \cup {NoRule}
     EnabledOK == rule_engine_enabled \in BOOLEAN
<1>1. MemOK /\ EvalOK /\ CountOK /\ HistoryOK /\ BadOK /\ FoundOK /\ EnabledOK
  BY <1>0 DEF TypeOK
<1>2. SetOK'
  <2>1. rules' \in Seq(Rules) /\ active_rules' = Cardinality(ToSet(rules'))
    BY SetStep DEF Counted
  <2>2. ToSet(rules') \in SUBSET Rules
    BY <2>1 DEF ToSet
  <2>3. IsFiniteSet(ToSet(rules')) /\ Cardinality(ToSet(rules')) <= Cardinality(Rules)
    BY <2>2, FS_Subset, RuleEngineAssumption
  <2>4. active_rules' \in 0 .. Cardinality(Rules)
    BY <1>0, <2>1, <2>3, FS_CardinalityType
  <2>5. QED
    BY <2>1, <2>4, IdsDifferStep DEF IdsDiffer
<1>9. ASSUME MemOK', EvalOK', CountOK', HistoryOK', BadOK', FoundOK', EnabledOK'
      PROVE  TypeOK'
  BY <1>2, <1>9 DEF TypeOK
<1> HIDE DEF SetOK
<1>3. CASE RuleStep
  <2>1. EvalOK' /\ CountOK' /\ HistoryOK' /\ EnabledOK'
    BY <1>1, <1>3, Apart DEF stats, eval
  <2>2. MemOK'
    <3>1. ASSUME NEW rs, Freed(rs), default_rule_set' \in {"live", "none"}
          PROVE  MemOK'
      <4>1. mem' \in [Rules -> {"unused", "live", "freed"}]
        BY <1>1, <3>1 DEF Freed
      <4>2. custom' \in [Rules -> BOOLEAN] /\ enabled' \in [Rules -> BOOLEAN]
        BY <1>1, <3>1 DEF Freed
      <4>3. conditions' \in [Rules -> Seq(Conditions)]
        BY <1>1, <3>1 DEF Freed
      <4>4. QED
        BY <3>1, <4>1, <4>2, <4>3
    <3>2. CASE ExitRuleEngine \/ \E r \in Rules : RemoveRule(r)
      BY <1>1, <3>1, <3>2 DEF RemoveRule, ExitRuleEngine
    <3>3. ASSUME NEW b \in BOOLEAN, SetEnabled(b)
          PROVE  MemOK'
      BY <1>1, <3>3 DEF SetEnabled
    <3>4. ASSUME NEW r \in Rules, NEW p \in Priorities, NEW c \in BOOLEAN, CreateRule(r, p, c)
          PROVE  MemOK'
      BY <1>1, <3>4 DEF CreateRule
    <3>5. ASSUME NEW r \in Rules, NEW c \in Conditions, AddCondition(r, c)
          PROVE  MemOK'
      <4>1. Append(conditions[r], c) \in Seq(Conditions)
        BY <1>1
      <4>2. QED
        BY <1>1, <3>5, <4>1 DEF AddCondition
    <3>6. ASSUME NEW r \in Rules, AddRule(r) \/ FindRule(r)
          PROVE  MemOK'
      BY <1>1, <3>6 DEF AddRule, FindRule, set, contents
    <3>7. QED
      BY <1>3, <3>2, <3>3, <3>4, <3>5, <3>6 DEF RuleStep
  <2>3. BadOK' /\ FoundOK'
    BY <1>1, <1>3 DEF RuleStep, CreateRule, AddCondition, AddRule, RemoveRule, FindRule, SetEnabled,
                      ExitRuleEngine
  <2>4. QED
    BY <1>9, <2>1, <2>2, <2>3
<1>4. CASE ResetStep
  <2>1. MemOK' /\ EvalOK' /\ BadOK' /\ FoundOK' /\ EnabledOK'
    BY <1>1, <1>4, Apart DEF set, contents, eval
  <2>2. CountOK' /\ begun' \in Nat
    BY <1>1, <1>4 DEF ResetStep, ResetBegin, ResetWord, history
  <2>3. muddled' \in BOOLEAN
    <3>1. muddled' = (Counting # {}) \/ muddled' = muddled
      BY <1>4, Zenon DEF ResetStep, ResetBegin, ResetWord, history
    <3>2. QED
      BY <1>1, <3>1, Zenon
  <2>4. QED
    BY <1>9, <2>1, <2>2, <2>3
<1>5. CASE \E b \in BOOLEAN : EnableRuleEngine(b)
  <2>1. MemOK' /\ EvalOK' /\ CountOK' /\ HistoryOK' /\ BadOK' /\ FoundOK'
    BY <1>1, <1>5, Apart DEF set, contents, stats, eval, history
  <2>2. EnabledOK'
    BY <1>5 DEF EnableRuleEngine
  <2>3. QED
    BY <1>9, <2>1, <2>2
<1>6. ASSUME NEW e \in Evaluators, EvaluatorStep(e)
      PROVE  TypeOK'
  <2>1. MemOK' /\ FoundOK' /\ EnabledOK' /\ clearing' \subseteq Words
    BY <1>1, <1>6, Apart DEF set, contents
  <2>2. AnyEvent \in Events
    BY RuleEngineAssumption DEF AnyEvent
  <2>3. CASE \E ev \in Events : EvaluateBegin(e, ev)
    <3>1. EvalOK' /\ CountOK' /\ HistoryOK' /\ BadOK'
      BY <1>1, <2>3 DEF EvaluateBegin, Step, stats
    <3>2. QED
      BY <1>9, <2>1, <3>1
  <2>4. CASE EvaluateNothing(e) \/ EvaluateWild(e)
    <3>1. EvalOK' /\ CountOK' /\ HistoryOK' /\ BadOK'
      BY <1>1, <2>2, <2>4 DEF EvaluateNothing, EvaluateWild, Step, stats, eval, history
    <3>2. QED
      BY <1>9, <2>1, <3>1
  <2>5. CASE EvaluateHit(e)
    <3>1. Hit(event[e]) \in Rules
      BY <2>5, HitInSet DEF EvaluateHit
    <3>2. EvalOK' /\ CountOK' /\ HistoryOK' /\ BadOK'
      BY <1>1, <2>2, <2>5, <3>1 DEF EvaluateHit, Step, stats
    <3>3. QED
      BY <1>9, <2>1, <3>2
  <2>6. CASE EvaluateCount(e) \/ EvaluateCustom(e)
    <3>1. pc' \in [Evaluators -> {"idle", "lock", "hit", "gap", "relock", "act", "store"}]
      BY <1>1, <2>6 DEF EvaluateCount, EvaluateCustom, Step
    <3>2. event' \in [Evaluators -> Events] /\ HistoryOK' /\ BadOK'
      BY <1>1, <2>6 DEF EvaluateCount, EvaluateCustom, Step, history
    <3>3. rule' \in [Evaluators -> Rules \cup {NoRule}]
      BY <1>1, <2>6 DEF EvaluateCount, EvaluateCustom
    <3>4. seen' \in [Evaluators -> Nat] /\ CountOK'
      BY <1>1, <2>6 DEF EvaluateCount, EvaluateCustom, stats
    <3>5. QED
      BY <1>9, <2>1, <3>1, <3>2, <3>3, <3>4
  <2>7. CASE EvaluateAct(e) \/ EvaluateEnd(e)
    <3>1. pc' \in [Evaluators -> {"idle", "lock", "hit", "gap", "relock", "act", "store"}]
      BY <1>1, <2>7 DEF EvaluateAct, EvaluateEnd, Step
    <3>2. event' \in [Evaluators -> Events] /\ HistoryOK' /\ BadOK'
      BY <1>1, <2>7 DEF EvaluateAct, EvaluateEnd, Step, history
    <3>3. rule' \in [Evaluators -> Rules \cup {NoRule}]
      BY <1>1, <2>7 DEF EvaluateAct, EvaluateEnd
    <3>4. seen' \in [Evaluators -> Nat] /\ CountOK'
      <4>1. CASE EvaluateAct(e)
        BY <1>1, <4>1 DEF EvaluateAct, stats
      <4>2. CASE EvaluateEnd(e)
        <5>1. seen[e] + 1 \in Nat
          BY <1>1
        <5>2. QED
          BY <1>1, <4>2, <5>1 DEF EvaluateEnd
      <4>3. QED
        BY <2>7, <4>1, <4>2
    <3>5. QED
      BY <1>9, <2>1, <3>1, <3>2, <3>3, <3>4
  <2>8. QED
    BY <1>6, <2>3, <2>4, <2>5, <2>6, <2>7 DEF EvaluatorStep, Evaluates
<1>7. CASE UNCHANGED vars
  <2>1. MemOK' /\ EvalOK' /\ CountOK' /\ HistoryOK' /\ BadOK' /\ FoundOK' /\ EnabledOK'
    BY <1>1, <1>7 DEF vars, set, contents, stats, eval, history
  <2>2. QED
    BY <1>9, <2>1
<1>8. QED
  BY <1>3, <1>4, <1>5, <1>6, <1>7, NextSplit
-----------------------------------------------------------------------------
(***************************************************************************)
(* The evaluators.                                                          *)
(***************************************************************************)
LEMMA LockStep ==
  ASSUME IInv, [Next]_vars
  PROVE  LockInv'
<1>0. LockInv /\ pc \in [Evaluators -> {"idle", "lock", "hit", "gap", "relock", "act", "store"}]
  BY DEF IInv, TypeOK
<1>1. CASE UNCHANGED pc
  BY <1>0, <1>1 DEF LockInv, HasLock
<1>2. ASSUME NEW e \in Evaluators, NEW to, pc' = [pc EXCEPT ![e] = to],
             to \in {"hit", "act", "store"} => HasLock(e) \/ LockFree
      PROVE  LockInv'
  <2>1. \A f \in Evaluators : f # e => (HasLock(f)' <=> HasLock(f))
    BY <1>0, <1>2 DEF HasLock
  <2>2. HasLock(e)' => HasLock(e) \/ LockFree
    BY <1>0, <1>2 DEF HasLock
  <2>3. QED
    BY <1>0, <2>1, <2>2 DEF LockInv, LockFree
<1>3. ASSUME NEW e \in Evaluators, EvaluatorStep(e)
      PROVE  \/ UNCHANGED pc
             \/ \E to : /\ pc' = [pc EXCEPT ![e] = to]
                        /\ to \in {"hit", "act", "store"} => HasLock(e) \/ LockFree
  BY <1>3 DEF EvaluatorStep, EvaluateBegin, Evaluates, EvaluateNothing, EvaluateWild, EvaluateHit,
              EvaluateCount, EvaluateCustom, EvaluateAct, EvaluateEnd, Step, HasLock, eval
<1>4. CASE RuleStep \/ ResetStep \/ UNCHANGED vars \/ \E b \in BOOLEAN : EnableRuleEngine(b)
  BY <1>1, <1>4, Apart DEF vars, eval
<1>5. QED
  BY <1>1, <1>2, <1>3, <1>4, NextSplit

LEMMA PendingFacts ==
  /\ Pending \subseteq Counting /\ Pending \in SUBSET Evaluators
  /\ IsFiniteSet(Pending) /\ Cardinality(Pending) \in Nat
<1>1. Pending \in SUBSET Evaluators /\ Pending \subseteq Counting
  BY DEF Pending, Counting
<1>2. QED
  BY <1>1, FS_Subset, FS_CardinalityType, RuleEngineAssumption

LEMMA CountStep ==
  ASSUME IInv, [Next]_vars
  PROVE  CountInv'
<1>0. /\ TypeOK /\ CountInv /\ LockInv
      /\ rules_hit \in Nat /\ actions_taken \in Nat
      /\ pc \in [Evaluators -> {"idle", "lock", "hit", "gap", "relock", "act", "store"}]
      /\ seen \in [Evaluators -> Nat]
  BY DEF IInv, TypeOK
<1>1. CASE UNCHANGED <<stats, pc, seen, muddled>>
  BY <1>0, <1>1 DEF CountInv, Counting, Pending, stats
<1>2. CASE ResetBegin
  <2>1. clearing' = Words /\ muddled' = (Counting # {}) /\ UNCHANGED <<pc, seen>>
    BY <1>2 DEF ResetBegin, eval
  <2>2. ~muddled' => Counting' = {} /\ \A e \in Evaluators : pc'[e] \notin {"hit", "store"}
    BY <2>1 DEF Counting
  <2>3. QED
    BY <2>1, <2>2 DEF CountInv, Words
<1>3. ASSUME NEW w \in Words, ResetWord(w)
      PROVE  CountInv'
  <2>1. SUFFICES ASSUME ~muddled
                 PROVE  CountInv'
    BY <1>3 DEF ResetWord, history, CountInv
  <2>2. /\ w \in clearing /\ clearing' = clearing \ {w} /\ UNCHANGED <<pc, seen>>
        /\ rules_hit' = IF w = "rules_hit" THEN 0 ELSE rules_hit
        /\ actions_taken' = IF w = "actions_taken" THEN 0 ELSE actions_taken
    BY <1>3 DEF ResetWord, eval
  <2>3. /\ Counting = {}
        /\ "rules_hit" \notin clearing => rules_hit = 0
        /\ "actions_taken" \notin clearing => actions_taken = 0
    BY <1>0, <2>1, <2>2 DEF CountInv
  <2>4. Counting' = {} /\ Pending' = {} /\ \A e \in Evaluators : pc'[e] \notin {"hit", "store"}
    BY <2>2, <2>3 DEF Counting, Pending
  <2>5. Cardinality(Pending') = 0
    BY <2>4, FS_EmptySet
  <2>6. /\ "rules_hit" \notin clearing' => rules_hit' = 0
        /\ "actions_taken" \notin clearing' => actions_taken' = 0
    BY <2>2, <2>3
  <2>7. QED
    BY <2>4, <2>5, <2>6 DEF CountInv
<1>4. ASSUME NEW e \in Evaluators, EvaluatorStep(e)
      PROVE  CountInv'
  <2>10. \/ muddled' = muddled
        \/ muddled' = (muddled \/ clearing # {})
    BY <1>4, Zenon DEF EvaluatorStep, EvaluateBegin, Evaluates, EvaluateNothing, EvaluateWild,
       EvaluateHit, EvaluateCount, EvaluateCustom, EvaluateAct, EvaluateEnd, history
  <2>11. clearing' = clearing
    BY <1>4, Apart
  <2>12. ~muddled' => ~muddled
    BY <2>10, Zenon
  <2>0. clearing' = clearing /\ (~muddled' => ~muddled)
    BY <2>11, <2>12
  <2> SUFFICES ASSUME ~muddled'
               PROVE  CountInv'
    BY DEF CountInv
  <2>1. /\ clearing # {} => /\ Counting = {}
                            /\ "rules_hit" \notin clearing => rules_hit = 0
                            /\ "actions_taken" \notin clearing => actions_taken = 0
        /\ clearing = {} => rules_hit = actions_taken + Cardinality(Pending)
        /\ \A f \in Evaluators : pc[f] = "hit" => seen[f] = rules_hit
        /\ \A f \in Evaluators : pc[f] = "store" => seen[f] = actions_taken
    BY <1>0, <2>0 DEF CountInv
  <2>2. e \in Counting => clearing = {}
    BY <2>1
  <2>3. CASE \/ \E ev \in Events : EvaluateBegin(e, ev)
             \/ EvaluateNothing(e) \/ EvaluateWild(e)
    <3>1. UNCHANGED <<stats, seen>>
      BY <2>3 DEF EvaluateBegin, EvaluateNothing, EvaluateWild, eval
    <3>2. UNCHANGED pc \/ \E to \in {"idle", "lock"} :
                            pc[e] \in {"idle", "lock"} /\ pc' = [pc EXCEPT ![e] = to]
      BY <2>3 DEF EvaluateBegin, EvaluateNothing, EvaluateWild, Step, eval
    <3>3. Counting' = Counting /\ Pending' = Pending
      BY <1>0, <3>2 DEF Counting, Pending
    <3>4. \A f \in Evaluators : /\ pc'[f] = "hit" => pc[f] = "hit"
                                /\ pc'[f] = "store" => pc[f] = "store"
      BY <1>0, <3>2
    <3>5. QED
      BY <2>0, <2>1, <3>1, <3>3, <3>4 DEF CountInv, stats
  <2>4. CASE EvaluateHit(e)
    <3>1. /\ clearing = {} /\ UNCHANGED stats
          /\ pc[e] = "lock" /\ pc' = [pc EXCEPT ![e] = "hit"] /\ seen' = [seen EXCEPT ![e] = rules_hit]
      BY <2>4 DEF EvaluateHit, Step
    <3>2. Pending' = Pending
      BY <1>0, <3>1 DEF Pending
    <3>3. \A f \in Evaluators : /\ pc'[f] = "hit" => seen'[f] = rules_hit
                                /\ pc'[f] = "store" => seen'[f] = actions_taken
      BY <1>0, <2>1, <3>1
    <3>4. QED
      BY <2>0, <2>1, <3>1, <3>2, <3>3 DEF CountInv, stats
  <2>5. CASE EvaluateCount(e)
    <3>1. /\ pc[e] = "hit" /\ rules_hit' = seen[e] + 1 /\ UNCHANGED actions_taken
          /\ \E to \in {"gap", "act"} : pc' = [pc EXCEPT ![e] = to]
          /\ seen' = [seen EXCEPT ![e] = 0]
      BY <2>5 DEF EvaluateCount, Step
    <3>2. clearing = {} /\ seen[e] = rules_hit
      BY <2>1, <2>2, <3>1 DEF Counting
    <3>3. Pending' = Pending \cup {e} /\ e \notin Pending
      BY <1>0, <3>1 DEF Pending
    <3>4. Cardinality(Pending') = Cardinality(Pending) + 1
      BY <3>3, PendingFacts, FS_AddElement
    <3>5. \A f \in Evaluators : pc'[f] \notin {"hit", "store"}
      BY <1>0, <3>1 DEF LockInv, HasLock
    <3>6. rules_hit' = actions_taken' + Cardinality(Pending')
      <4>1. rules_hit = actions_taken + Cardinality(Pending) /\ Cardinality(Pending) \in Nat
        BY <2>1, <3>2, PendingFacts
      <4>2. rules_hit' = rules_hit + 1 /\ actions_taken' = actions_taken
        BY <3>1, <3>2
      <4>3. QED
        BY <1>0, <3>4, <4>1, <4>2
    <3>7. QED
      BY <2>0, <3>2, <3>5, <3>6 DEF CountInv
  <2>6. CASE EvaluateCustom(e)
    <3>1. UNCHANGED <<stats, seen>> /\ pc[e] = "gap" /\ pc' = [pc EXCEPT ![e] = "relock"]
      BY <2>6 DEF EvaluateCustom, Step
    <3>2. Counting' = Counting /\ Pending' = Pending
      BY <1>0, <3>1 DEF Counting, Pending
    <3>3. \A f \in Evaluators : /\ pc'[f] = "hit" => pc[f] = "hit"
                                /\ pc'[f] = "store" => pc[f] = "store"
      BY <1>0, <3>1
    <3>4. QED
      BY <2>0, <2>1, <3>1, <3>2, <3>3 DEF CountInv, stats
  <2>7. CASE EvaluateAct(e)
    <3>1. /\ UNCHANGED stats /\ pc[e] \in {"act", "relock"} /\ pc' = [pc EXCEPT ![e] = "store"]
          /\ seen' = [seen EXCEPT ![e] = actions_taken]
      BY <2>7 DEF EvaluateAct, Step
    <3>2. Counting' = Counting /\ Pending' = Pending
      BY <1>0, <3>1 DEF Counting, Pending
    <3>3. \A f \in Evaluators : /\ pc'[f] = "hit" => seen'[f] = rules_hit
                                /\ pc'[f] = "store" => seen'[f] = actions_taken
      BY <1>0, <2>1, <3>1
    <3>4. QED
      BY <2>0, <2>1, <3>1, <3>2, <3>3 DEF CountInv, stats
  <2>8. CASE EvaluateEnd(e)
    <3>1. /\ pc[e] = "store" /\ actions_taken' = seen[e] + 1 /\ UNCHANGED rules_hit
          /\ pc' = [pc EXCEPT ![e] = "idle"] /\ seen' = [seen EXCEPT ![e] = 0]
      BY <2>8 DEF EvaluateEnd, Step
    <3>2. clearing = {} /\ seen[e] = actions_taken
      BY <2>1, <2>2, <3>1 DEF Counting
    <3>3. Pending' = Pending \ {e} /\ e \in Pending
      BY <1>0, <3>1 DEF Pending
    <3>4. Cardinality(Pending') = Cardinality(Pending) - 1
      BY <3>3, PendingFacts, FS_RemoveElement
    <3>5. \A f \in Evaluators : pc'[f] \notin {"hit", "store"}
      BY <1>0, <3>1 DEF LockInv, HasLock
    <3>6. rules_hit' = actions_taken' + Cardinality(Pending')
      <4>1. rules_hit = actions_taken + Cardinality(Pending) /\ Cardinality(Pending) \in Nat
        BY <2>1, <3>2, PendingFacts
      <4>2. rules_hit' = rules_hit /\ actions_taken' = actions_taken + 1
        BY <3>1, <3>2
      <4>3. QED
        BY <1>0, <3>4, <4>1, <4>2
    <3>7. QED
      BY <2>0, <3>2, <3>5, <3>6 DEF CountInv
  <2>9. QED
    BY <1>4, <2>3, <2>4, <2>5, <2>6, <2>7, <2>8 DEF EvaluatorStep, Evaluates
<1>5. CASE RuleStep \/ UNCHANGED vars \/ \E b \in BOOLEAN : EnableRuleEngine(b)
  BY <1>1, <1>5, Apart DEF vars, eval, history
<1>6. QED
  BY <1>2, <1>3, <1>4, <1>5, NextSplit DEF ResetStep

LEMMA HitRuleStep ==
  ASSUME IInv, [Next]_vars
  PROVE  HitRuleLives'
<1>0. /\ TypeOK /\ HitRuleLives
      /\ pc \in [Evaluators -> {"idle", "lock", "hit", "gap", "relock", "act", "store"}]
      /\ rule \in [Evaluators -> Rules \cup {NoRule}]
      /\ mem \in [Rules -> {"unused", "live", "freed"}]
  BY DEF IInv, TypeOK
<1>1. CASE UNCHANGED <<pc, mem, rule>>
  BY <1>0, <1>1 DEF HitRuleLives
<1>2. CASE RuleStep
  <2>0. UNCHANGED <<pc, rule>>
    BY <1>2, Apart DEF eval
  <2>1. CASE ExitRuleEngine \/ \E r \in Rules : RemoveRule(r)
    <3>1. \A e \in Evaluators : pc[e] # "hit"
      BY <2>1 DEF ExitRuleEngine, RemoveRule, LockFree, HasLock
    <3>2. QED
      BY <2>0, <3>1 DEF HitRuleLives
  <2>2. ASSUME NEW r \in Rules, NEW p \in Priorities, NEW c \in BOOLEAN, CreateRule(r, p, c)
        PROVE  HitRuleLives'
    <3>1. mem' = [mem EXCEPT ![r] = "live"]
      BY <2>2 DEF CreateRule
    <3>2. \A q : mem[q] = "live" => mem'[q] = "live"
      BY <1>0, <3>1
    <3>3. QED
      BY <1>0, <2>0, <3>2 DEF HitRuleLives
  <2>3. CASE \/ \E r \in Rules, c \in Conditions : AddCondition(r, c)
             \/ \E r \in Rules : AddRule(r) \/ FindRule(r)
             \/ \E b \in BOOLEAN : SetEnabled(b)
    BY <1>1, <2>0, <2>3 DEF AddCondition, AddRule, FindRule, SetEnabled, set
  <2>4. QED
    BY <1>2, <2>1, <2>2, <2>3 DEF RuleStep
<1>3. ASSUME NEW e \in Evaluators, EvaluatorStep(e)
      PROVE  HitRuleLives'
  <2>0. UNCHANGED mem
    BY <1>3, Apart DEF set
  <2>1. CASE EvaluateHit(e)
    <3>1. /\ pc' = [pc EXCEPT ![e] = "hit"] /\ rule' = [rule EXCEPT ![e] = Hit(event[e])]
          /\ Stops(event[e]) # {}
      BY <2>1 DEF EvaluateHit, Step
    <3>2. mem[Hit(event[e])] = "live"
      BY <3>1, HitInSet DEF IInv, SetInOrder
    <3>3. \A f \in Evaluators : pc'[f] = "hit" => mem[rule'[f]] = "live"
      BY <1>0, <3>1, <3>2 DEF HitRuleLives
    <3>4. QED
      BY <2>0, <3>3 DEF HitRuleLives
  <2>2. ASSUME ~EvaluateHit(e)
        PROVE  HitRuleLives'
    <3>1. /\ UNCHANGED pc \/ \E to : to # "hit" /\ pc' = [pc EXCEPT ![e] = to]
          /\ UNCHANGED rule \/ (pc'[e] # "hit" /\ \E r : rule' = [rule EXCEPT ![e] = r])
      BY <1>0, <1>3, <2>2 DEF EvaluatorStep, EvaluateBegin, Evaluates, EvaluateNothing, EvaluateWild,
         EvaluateCount, EvaluateCustom, EvaluateAct, EvaluateEnd, Step, eval
    <3>2. \A f \in Evaluators : pc'[f] = "hit" => pc[f] = "hit" /\ rule'[f] = rule[f]
      BY <1>0, <3>1
    <3>3. QED
      BY <1>0, <2>0, <3>2 DEF HitRuleLives
  <2>3. QED
    BY <2>1, <2>2
<1>4. CASE ResetStep \/ UNCHANGED vars \/ \E b \in BOOLEAN : EnableRuleEngine(b)
  BY <1>1, <1>4, Apart DEF vars, eval, set
<1>5. QED
  BY <1>2, <1>3, <1>4, NextSplit

LEMMA InitIInv == Init => IInv
<1> SUFFICES ASSUME Init
             PROVE  IInv
  OBVIOUS
<1>1. ToSet(rules) = {} /\ Len(rules) = 0 /\ Cardinality(ToSet(rules)) = 0 /\ Cardinality(Rules) \in Nat
  <2>1. ToSet(rules) = {}
    BY DEF Init, ToSet
  <2>2. QED
    BY <2>1, FS_EmptySet, FS_CardinalityType, RuleEngineAssumption DEF Init
<1>2. Pending = {} /\ Cardinality(Pending) = 0
  <2>1. Pending = {}
    BY DEF Init, Pending
  <2>2. QED
    BY <2>1, FS_EmptySet
<1>3. TypeOK
  <2>1. AnyEvent \in Events
    BY RuleEngineAssumption DEF AnyEvent
  <2>2. /\ default_rule_set \in {"live", "none"} /\ rule_engine_enabled \in BOOLEAN
        /\ rules \in Seq(Rules) /\ active_rules \in 0 .. Cardinality(Rules)
        /\ mem \in [Rules -> {"unused", "live", "freed"}]
        /\ id \in [Rules -> Nat] /\ priority \in [Rules -> Int] /\ rule_id_counter \in Nat
    BY <1>1 DEF Init
  <2>3. /\ custom \in [Rules -> BOOLEAN] /\ enabled \in [Rules -> BOOLEAN]
        /\ conditions \in [Rules -> Seq(Conditions)]
        /\ found \in Rules \cup {NoRule}
    BY DEF Init
  <2>4. /\ pc \in [Evaluators -> {"idle", "lock", "hit", "gap", "relock", "act", "store"}]
        /\ event \in [Evaluators -> Events]
        /\ rule \in [Evaluators -> Rules \cup {NoRule}]
        /\ seen \in [Evaluators -> Nat]
    BY <2>1 DEF Init
  <2>5. /\ rules_hit \in Nat /\ actions_taken \in Nat /\ begun \in Nat
        /\ clearing \subseteq Words /\ muddled \in BOOLEAN
        /\ bad \in {"no", "bad_free", "stale", "wild", "freed"}
    BY DEF Init
  <2>6. QED
    BY <2>2, <2>3, <2>4, <2>5 DEF TypeOK
<1>4. IdsDiffer
  BY DEF Init, IdsDiffer
<1>5. Counted /\ SetInOrder
  BY <1>1 DEF Init, Counted, SetInOrder
<1>6. LockInv /\ CountInv /\ HitRuleLives
  BY <1>2 DEF Init, LockInv, HasLock, CountInv, HitRuleLives
<1>7. QED
  BY <1>3, <1>4, <1>5, <1>6 DEF IInv

\* Where the walk stops there is no better match behind: the tree is in order.
LEMMA WalkFindsBest == IInv => FirstMatchWins
<1> SUFFICES ASSUME IInv, NEW ev \in Events
             PROVE  /\ Stops(ev) = {} => Matching(ev) = {}
                    /\ Stops(ev) # {} =>
                         \A q \in Matching(ev) : LET r == Hit(ev) IN
                           \/ priority[r] > priority[q]
                           \/ priority[r] = priority[q] /\ id[r] <= id[q]
  BY DEF FirstMatchWins
<1>1. /\ DOMAIN rules = 1 .. Len(rules) /\ Len(rules) \in Nat
      /\ \A i, j \in 1 .. Len(rules) : i < j => Before(rules[i], rules[j])
      /\ \A i \in 1 .. Len(rules) : priority[rules[i]] \in Int /\ id[rules[i]] \in Nat
  BY SetFacts
<1>2. ASSUME NEW q \in Matching(ev)
      PROVE  \E j \in Stops(ev) : rules[j] = q
  BY <1>2 DEF Matching, ToSet, Stops
<1>3. ASSUME Stops(ev) # {}, NEW q \in Matching(ev)
      PROVE  LET r == Hit(ev) IN
               \/ priority[r] > priority[q]
               \/ priority[r] = priority[q] /\ id[r] <= id[q]
  <2>1. PICK j \in Stops(ev) : rules[j] = q
    BY <1>2, <1>3
  <2>2. Stops(ev) \in SUBSET Nat /\ Stops(ev) \subseteq 1 .. Len(rules)
    BY <1>1 DEF Stops
  <2> DEFINE m == Min(Stops(ev))
  <2>3. m \in Stops(ev) /\ m <= j
    BY <1>3, <2>2, LeastExists
  <2>4. Hit(ev) = rules[m]
    BY DEF Hit
  <2> HIDE DEF m
  <2>5. m \in 1 .. Len(rules) /\ j \in 1 .. Len(rules)
    BY <2>2, <2>3
  <2>6. CASE m = j
    BY <1>1, <2>1, <2>4, <2>5, <2>6
  <2>7. CASE m < j
    BY <1>1, <2>1, <2>4, <2>5, <2>7 DEF Before
  <2>8. QED
    BY <2>3, <2>5, <2>6, <2>7
<1>4. QED
  BY <1>2, <1>3
-----------------------------------------------------------------------------
(***************************************************************************)
(* Theorems.                                                                *)
(***************************************************************************)

\* The inductive invariant: types, ids that tell live rules apart, the counter
\* as the number of objects in the set, the order of the tree, who has the
\* lock, and the statistics with what has been loaded of them.
THEOREM Invariance == Spec => []IInv
<1>1. IInv /\ [Next]_vars => IInv'
  BY TypeOKStep, IdsDifferStep, SetStep, LockStep, CountStep, HitRuleStep DEF IInv
<1>2. QED
  BY <1>1, InitIInv, PTL DEF Spec

\* Every variable has its type; active_rules is never negative and never
\* beyond the number of rules there are (rules.c:188, 215).
THEOREM TypeCorrect == Spec => []TypeOK
<1>1. IInv => TypeOK
  BY DEF IInv
<1>2. QED
  BY <1>1, Invariance, PTL

\* Whatever is added and removed, the set holds live rules only, each once, by
\* falling priority and then by age (rules.c:158-220).
THEOREM InOrder == Spec => []SetInOrder
<1>1. IInv => SetInOrder
  BY DEF IInv
<1>2. QED
  BY <1>1, Invariance, PTL

\* For every event the walk of evaluate_event ends at the best match.
THEOREM BestMatch == Spec => []FirstMatchWins
BY Invariance, WalkFindsBest, PTL

\* However many evaluations overlap in their custom actions, no hit and no
\* action is lost, unless a reset, which takes no lock, overlaps one that is
\* counting.
THEOREM EveryHitCounted == Spec => []HitsBalance
<1>1. IInv => HitsBalance
  BY DEF IInv, CountInv, HitsBalance, Pending
<1>2. QED
  BY <1>1, Invariance, PTL

\* No remover can free a rule between the match and the lock gap.
THEOREM HitRuleSafe == Spec => []HitRuleLives
<1>1. IInv => HitRuleLives
  BY DEF IInv
<1>2. QED
  BY <1>1, Invariance, PTL
=============================================================================
