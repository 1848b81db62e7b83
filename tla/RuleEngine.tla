----------------------------- MODULE RuleEngine -----------------------------
(***************************************************************************)
(* src/src/core/rules.c: the default rule set, the rules and conditions     *)
(* built by its callers, and evaluate_event, which any number of threads    *)
(* run.  The set's lock orders everything in the set; the engine's flag,    *)
(* its statistics and the rules that find_rule hands out are outside it.    *)
(* rules_hit++ and actions_taken++ are a load and a store each, and the     *)
(* reset clears one word after the other.                                   *)
(*                                                                          *)
(* total_evaluations and average_eval_time_ns, written without a lock and   *)
(* only ever printed, and the hit counts of rules are left out.             *)
(*                                                                          *)
(* The red-black tree appears as the sequence rb_first and rb_next read     *)
(* from it.  Rules are kmalloc objects of one life each.  After the first   *)
(* bad access (bad) nothing more is explored.                               *)
(***************************************************************************)
EXTENDS Integers, Sequences, SequencesExt, FiniteSetsExt

CONSTANTS
  Rules,           \* objects create_rule can hand out
  Priorities,      \* the priorities in use
  Conditions,      \* the conditions in use
  Events,          \* the events in use, with the task that caused them
  Word,            \* 2 to the width of uint32_t
  Evaluators,      \* threads in evaluate_event
  MaxConditions,   \* bound: conditions added to one rule
  MaxEvaluations   \* bound: calls of evaluate_event

VARIABLES
  default_rule_set,     \* "live", or "none" after exit_rule_engine
  rules, active_rules,  \* the set: its tree in order, and its counter
  mem,                  \* state of each rule object
  id, priority, custom, enabled, conditions,  \* its contents
  rule_id_counter,
  rule_engine_enabled,
  rules_hit, actions_taken,   \* engine_stats
  clearing,             \* words of engine_stats a reset has yet to clear
  pc, event,            \* evaluators
  rule,                 \* the rule that was hit, while it is still needed
  seen,                 \* the counter as it was loaded
  found,                \* a rule that find_rule returned and a caller holds
  begun,                \* history: evaluations begun
  muddled,              \* history: the last reset overlapped an evaluation
  bad

contents == <<id, priority, custom, enabled, conditions>>
set    == <<default_rule_set, rules, active_rules, mem, contents, rule_id_counter>>
stats  == <<rules_hit, actions_taken, clearing>>
eval   == <<pc, event, rule, seen>>
history == <<begun, muddled, bad>>
vars == <<set, rule_engine_enabled, stats, eval, found, history>>

NoRule == "none"
Words == {"rules_hit", "actions_taken"}

StringTypes == {"PROCESS_NAME", "PROCESS_PATH", "PROCESS_CMDLINE", "FILE_PATH", "FILE_TYPE"}
IdTypes == {"USER_ID", "GROUP_ID"}

\* A condition holds a string (a sequence of names) or, with add_int_condition,
\* a number; nothing ties that to its type.  A string where a number is read
\* would compare the bits of a pointer and is left out.
ASSUME RuleEngineAssumption ==
  /\ Word \in Nat \ {0}
  /\ IsFiniteSet(Rules) /\ IsFiniteSet(Evaluators) /\ Events # {}
  /\ Priorities \subseteq Int
  /\ \A c \in Conditions :
       /\ c.string \in BOOLEAN
       /\ c.type \in IdTypes => ~c.string

AnyEvent == CHOOSE ev \in Events : TRUE

Init ==
  /\ default_rule_set = "live"
  /\ rules = <<>> /\ active_rules = 0
  /\ mem = [r \in Rules |-> "unused"]
  /\ id = [r \in Rules |-> 0]
  /\ priority = [r \in Rules |-> 0]
  /\ custom = [r \in Rules |-> FALSE]
  /\ enabled = [r \in Rules |-> TRUE]
  /\ conditions = [r \in Rules |-> <<>>]
  /\ rule_id_counter = 1    \* create_rule_set took the first id
  /\ rule_engine_enabled = TRUE
  /\ rules_hit = 0 /\ actions_taken = 0 /\ clearing = {}
  /\ pc = [e \in Evaluators |-> "idle"]
  /\ event = [e \in Evaluators |-> AnyEvent]
  /\ rule = [e \in Evaluators |-> NoRule]
  /\ seen = [e \in Evaluators |-> 0]
  /\ found = NoRule
  /\ begun = 0 /\ muddled = FALSE /\ bad = "no"

\* Who holds the lock of the set beyond the step that takes it.
HasLock(e) == pc[e] \in {"hit", "act", "store"}
LockFree == \A e \in Evaluators : ~HasLock(e)

-----------------------------------------------------------------------------
(***************************************************************************)
(* Conditions.                                                              *)
(***************************************************************************)
match_string(pattern, str, op) ==
  CASE op \in {"EQUALS", "REGEX_MATCH"} -> pattern = str
    [] op = "NOT_EQUALS"   -> pattern # str
    [] op = "CONTAINS"     -> \E i \in 0 .. Len(str) : IsPrefix(pattern, SubSeq(str, i + 1, Len(str)))
    [] op = "NOT_CONTAINS" -> ~\E i \in 0 .. Len(str) : IsPrefix(pattern, SubSeq(str, i + 1, Len(str)))
    [] op = "STARTS_WITH"  -> IsPrefix(pattern, str)
    [] op = "ENDS_WITH"    -> IsSuffix(pattern, str)
    [] OTHER -> FALSE

\* PROCESS_PATH and CMDLINE look at the name of the task, FILE_TYPE at the path.
Subject(type, ev) == IF type \in {"FILE_PATH", "FILE_TYPE"} THEN ev.path ELSE ev.comm

\* Both sides are unsigned.
uid_condition(op, uid, value) ==
  CASE op = "EQUALS"       -> uid = value % Word
    [] op = "NOT_EQUALS"   -> uid # value % Word
    [] op = "GREATER_THAN" -> uid > value % Word
    [] op = "LESS_THAN"    -> uid < value % Word
    [] OTHER -> FALSE

\* A number in a string condition is used as a pointer; zero is NULL, which
\* matches nothing.
Wild(c) == c.type \in StringTypes /\ ~c.string /\ c.value # 0

\* evaluate_single_condition; every other type never matches.
Holds(c, ev) ==
  \/ c.type \in StringTypes /\ c.string /\ match_string(c.value, Subject(c.type, ev), c.operator)
  \/ c.type \in IdTypes /\ uid_condition(c.operator, ev.uid, c.value)

\* The first condition that does not hold decides.
Verdict(r, ev) ==
  LET cs == conditions[r]
      stop == {i \in DOMAIN cs : ~Holds(cs[i], ev)}
  IN  IF stop = {} THEN "match" ELSE IF Wild(cs[Min(stop)]) THEN "wild" ELSE "no"

-----------------------------------------------------------------------------
(***************************************************************************)
(* Rules and the rule set.                                                  *)
(***************************************************************************)
\* What a freed object held does not matter any more.
Freed(rs) ==
  /\ mem' = [r \in Rules |-> IF r \in rs THEN "freed" ELSE mem[r]]
  /\ id' = [r \in Rules |-> IF r \in rs THEN 0 ELSE id[r]]
  /\ priority' = [r \in Rules |-> IF r \in rs THEN 0 ELSE priority[r]]
  /\ custom' = [r \in Rules |-> IF r \in rs THEN FALSE ELSE custom[r]]
  /\ enabled' = [r \in Rules |-> IF r \in rs THEN TRUE ELSE enabled[r]]
  /\ conditions' = [r \in Rules |-> IF r \in rs THEN <<>> ELSE conditions[r]]

Manages == bad = "no" /\ UNCHANGED <<rule_engine_enabled, stats, eval, begun, muddled>>

CreateRule(r, p, c) ==
  /\ Manages /\ mem[r] = "unused"
  /\ mem' = [mem EXCEPT ![r] = "live"]
  /\ rule_id_counter' = rule_id_counter + 1
  /\ id' = [id EXCEPT ![r] = rule_id_counter']
  /\ priority' = [priority EXCEPT ![r] = p]
  /\ custom' = [custom EXCEPT ![r] = c]
  /\ UNCHANGED <<default_rule_set, rules, active_rules, enabled, conditions, found, bad>>

\* add_string_condition and add_int_condition, on a new rule or on one that
\* find_rule returned, which may have been freed since.
AddCondition(r, c) ==
  /\ Manages /\ Len(conditions[r]) < MaxConditions
  /\ \/ mem[r] = "live" /\ r \notin ToSet(rules)
     \/ r = found
  /\ conditions' = [conditions EXCEPT ![r] = Append(@, c)]
  /\ bad' = IF mem[r] = "freed" THEN "stale" ELSE bad
  /\ UNCHANGED <<default_rule_set, rules, active_rules, mem, id, priority, custom, enabled,
                 rule_id_counter, found>>

\* rule_compare: the higher priority first, then the older rule.
Before(a, b) ==
  \/ priority[a] > priority[b]
  \/ priority[a] = priority[b] /\ id[a] < id[b]

\* Mutant: an equal priority goes to the front.
AddRuleInFront(r) ==
  /\ Manages /\ LockFree /\ default_rule_set = "live" /\ mem[r] = "live" /\ r \notin ToSet(rules)
  /\ LET n == Cardinality({i \in DOMAIN rules : priority[rules[i]] > priority[r]})
     IN  rules' = InsertAt(rules, n + 1, r)
  /\ active_rules' = active_rules + 1
  /\ UNCHANGED <<default_rule_set, mem, contents, rule_id_counter, found, bad>>

\* Mutant: the counter is left alone.
AddRuleUncounted(r) ==
  /\ Manages /\ LockFree /\ default_rule_set = "live" /\ mem[r] = "live" /\ r \notin ToSet(rules)
  /\ LET n == Cardinality({i \in DOMAIN rules : ~Before(r, rules[i])})
     IN  rules' = InsertAt(rules, n + 1, r)
  /\ UNCHANGED <<default_rule_set, active_rules, mem, contents,
                 rule_id_counter, found, bad>>

\* The descent ends behind every rule that comes before r.  Adding a rule that
\* is in the set already would relink a node of the tree; callers do not.
AddRule(r) ==
  /\ Manages /\ LockFree /\ default_rule_set = "live" /\ mem[r] = "live" /\ r \notin ToSet(rules)
  /\ LET n == Cardinality({i \in DOMAIN rules : ~Before(r, rules[i])})
     IN  rules' = InsertAt(rules, n + 1, r)
  /\ active_rules' = active_rules + 1
  /\ UNCHANGED <<default_rule_set, mem, contents, rule_id_counter, found, bad>>

\* destroy_rule frees value and value2 of every condition as strings.
BadFree(r) == \E i \in DOMAIN conditions[r] :
                ~conditions[r][i].string /\ conditions[r][i].value # 0

\* Mutant: the lock of the set is not taken.
RemoveRuleUnlocked(r) ==
  /\ Manages
  /\ \E i \in DOMAIN rules : rules[i] = r /\ rules' = RemoveAt(rules, i)
  /\ active_rules' = active_rules - 1
  /\ Freed({r})
  /\ bad' = IF BadFree(r) THEN "bad_free" ELSE bad
  /\ UNCHANGED <<default_rule_set, rule_id_counter, found>>

RemoveRule(r) ==
  /\ Manages /\ LockFree
  /\ \E i \in DOMAIN rules : rules[i] = r /\ rules' = RemoveAt(rules, i)
  /\ active_rules' = active_rules - 1
  /\ Freed({r})
  /\ bad' = IF BadFree(r) THEN "bad_free" ELSE bad
  /\ UNCHANGED <<default_rule_set, rule_id_counter, found>>

\* The rule is returned after the lock is dropped, and nothing pins it.
FindRule(r) ==
  /\ Manages /\ LockFree /\ r \in ToSet(rules)
  /\ found' = r
  /\ UNCHANGED <<set, bad>>

\* The enabled bit of a found rule is its holder's to set and clear.
SetEnabled(b) ==
  /\ Manages /\ found # NoRule
  /\ enabled' = [enabled EXCEPT ![found] = b]
  /\ bad' = IF mem[found] = "freed" THEN "stale" ELSE bad
  /\ UNCHANGED <<default_rule_set, rules, active_rules, mem, id, priority, custom, conditions,
                 rule_id_counter, found>>

\* exit_rule_engine, when the module goes and nobody evaluates any more.
ExitRuleEngine ==
  /\ Manages /\ default_rule_set = "live" /\ \A e \in Evaluators : pc[e] = "idle"
  /\ default_rule_set' = "none"
  /\ Freed(ToSet(rules))
  /\ rules' = <<>>
  /\ active_rules' = 0
  /\ bad' = IF \E r \in ToSet(rules) : BadFree(r) THEN "bad_free" ELSE bad
  /\ UNCHANGED <<rule_id_counter, found>>

-----------------------------------------------------------------------------
(***************************************************************************)
(* evaluate_event, enable_rule_engine and reset_rule_engine_stats.          *)
(***************************************************************************)
Step(e, from, to) == bad = "no" /\ pc[e] = from /\ pc' = [pc EXCEPT ![e] = to]

EvaluateBegin(e, ev) ==
  /\ Step(e, "idle", "lock")
  /\ default_rule_set = "live" /\ rule_engine_enabled
  /\ begun < MaxEvaluations /\ begun' = begun + 1
  /\ event' = [event EXCEPT ![e] = ev]
  /\ UNCHANGED <<set, rule_engine_enabled, stats, rule, seen, found, muddled, bad>>

\* Rules whose walk does not go on: a match, or a wild pointer.
Stops(ev) == {i \in DOMAIN rules : enabled[rules[i]] /\ Verdict(rules[i], ev) # "no"}

EvaluateNothing(e) ==
  /\ Step(e, "lock", "idle") /\ LockFree /\ Stops(event[e]) = {}
  /\ event' = [event EXCEPT ![e] = AnyEvent]
  /\ UNCHANGED <<set, rule_engine_enabled, stats, rule, seen, found, history>>

EvaluateWild(e) ==
  /\ pc[e] = "lock" /\ bad = "no" /\ LockFree /\ Stops(event[e]) # {}
  /\ Verdict(rules[Min(Stops(event[e]))], event[e]) = "wild"
  /\ bad' = "wild"
  /\ UNCHANGED <<set, rule_engine_enabled, stats, eval, found, begun, muddled>>

\* Mutant: the last match stands.
HitLast(ev) == rules[Max(Stops(ev))]

\* The first match ends the walk.
Hit(ev) == rules[Min(Stops(ev))]

\* The walk, and the load of rules_hit.
EvaluateHit(e) ==
  /\ Step(e, "lock", "hit") /\ LockFree /\ Stops(event[e]) # {}
  /\ LET r == Hit(event[e]) IN Verdict(r, event[e]) = "match" /\ rule' = [rule EXCEPT ![e] = r]
  /\ seen' = [seen EXCEPT ![e] = rules_hit]
  /\ event' = [event EXCEPT ![e] = AnyEvent]
  /\ muddled' = (muddled \/ clearing # {})
  /\ UNCHANGED <<set, rule_engine_enabled, stats, found, begun, bad>>

\* The store, and the test for a custom action, for which the lock is dropped.
EvaluateCount(e) ==
  /\ Step(e, "hit", IF custom[rule[e]] THEN "gap" ELSE "act")
  /\ rules_hit' = seen[e] + 1
  /\ rule' = [rule EXCEPT ![e] = IF custom[@] THEN @ ELSE NoRule]
  /\ seen' = [seen EXCEPT ![e] = 0]
  /\ UNCHANGED <<set, rule_engine_enabled, actions_taken, clearing, event, found, history>>

\* custom_action and custom_data are read without the lock; the rule is not
\* looked at again.
EvaluateCustom(e) ==
  /\ Step(e, "gap", "relock")
  /\ bad' = IF mem[rule[e]] = "freed" THEN "freed" ELSE bad
  /\ rule' = [rule EXCEPT ![e] = NoRule]
  /\ UNCHANGED <<set, rule_engine_enabled, stats, event, seen, found, begun, muddled>>

\* Mutant: the lock is not taken again after the custom action.
EvaluateActUnlocked(e) ==
  /\ Step(e, "act", "store") \/ Step(e, "relock", "store")
  /\ seen' = [seen EXCEPT ![e] = actions_taken]
  /\ UNCHANGED <<set, rule_engine_enabled, stats, event, rule, found, history>>

\* With the lock, still or again, actions_taken is loaded ...
EvaluateAct(e) ==
  /\ Step(e, "act", "store") \/ (Step(e, "relock", "store") /\ LockFree)
  /\ seen' = [seen EXCEPT ![e] = actions_taken]
  /\ UNCHANGED <<set, rule_engine_enabled, stats, event, rule, found, history>>

\* ... and stored; the walk is over.
EvaluateEnd(e) ==
  /\ Step(e, "store", "idle")
  /\ actions_taken' = seen[e] + 1
  /\ seen' = [seen EXCEPT ![e] = 0]
  /\ UNCHANGED <<set, rule_engine_enabled, rules_hit, clearing, event, rule, found, history>>

EnableRuleEngine(b) ==
  /\ bad = "no" /\ rule_engine_enabled' = b
  /\ UNCHANGED <<set, stats, eval, found, history>>

\* Evaluations between the load of the first counter and the store of the last.
Counting == {e \in Evaluators : pc[e] \in {"hit", "gap", "relock", "act", "store"}}

\* reset_rule_engine_stats takes no lock; one reset runs at a time.
ResetBegin ==
  /\ bad = "no" /\ clearing = {} /\ clearing' = Words
  /\ muddled' = (Counting # {})
  /\ UNCHANGED <<set, rule_engine_enabled, rules_hit, actions_taken, eval, found, begun, bad>>

\* The words that memset clears, in an order of its own.
ResetWord(w) ==
  /\ bad = "no" /\ w \in clearing /\ clearing' = clearing \ {w}
  /\ rules_hit' = IF w = "rules_hit" THEN 0 ELSE rules_hit
  /\ actions_taken' = IF w = "actions_taken" THEN 0 ELSE actions_taken
  /\ UNCHANGED <<set, rule_engine_enabled, eval, found, history>>

Evaluates(e) ==
  \/ EvaluateNothing(e) \/ EvaluateWild(e) \/ EvaluateHit(e) \/ EvaluateCount(e)
  \/ EvaluateCustom(e) \/ EvaluateAct(e) \/ EvaluateEnd(e)

Next ==
  \/ \E r \in Rules, p \in Priorities, c \in BOOLEAN : CreateRule(r, p, c)
  \/ \E r \in Rules, c \in Conditions : AddCondition(r, c)
  \/ \E r \in Rules : AddRule(r) \/ RemoveRule(r) \/ FindRule(r)
  \/ \E b \in BOOLEAN : SetEnabled(b) \/ EnableRuleEngine(b)
  \/ ExitRuleEngine \/ ResetBegin
  \/ \E w \in Words : ResetWord(w)
  \/ \E e \in Evaluators, ev \in Events : EvaluateBegin(e, ev)
  \/ \E e \in Evaluators : Evaluates(e)

Spec == Init /\ [][Next]_vars

-----------------------------------------------------------------------------
(***************************************************************************)
(* Correctness.                                                             *)
(***************************************************************************)

\* Every variable has its type; active_rules never falls below zero.
TypeOK ==
  /\ default_rule_set \in {"live", "none"} /\ rule_engine_enabled \in BOOLEAN
  /\ rules \in Seq(Rules) /\ active_rules \in 0 .. Cardinality(Rules)
  /\ mem \in [Rules -> {"unused", "live", "freed"}]
  /\ id \in [Rules -> Nat] /\ priority \in [Rules -> Int] /\ rule_id_counter \in Nat
  /\ custom \in [Rules -> BOOLEAN] /\ enabled \in [Rules -> BOOLEAN]
  /\ conditions \in [Rules -> Seq(Conditions)]
  /\ found \in Rules \cup {NoRule}
  /\ pc \in [Evaluators -> {"idle", "lock", "hit", "gap", "relock", "act", "store"}]
  /\ event \in [Evaluators -> Events]
  /\ rule \in [Evaluators -> Rules \cup {NoRule}]
  /\ seen \in [Evaluators -> Nat]
  /\ rules_hit \in Nat /\ actions_taken \in Nat /\ begun \in Nat
  /\ clearing \subseteq Words
  /\ muddled \in BOOLEAN
  /\ bad \in {"no", "bad_free", "stale", "wild", "freed"}

\* add_rule_to_set and remove_rule_from_set: the set holds live rules only,
\* each once, ordered by falling priority and then by age, and its counter
\* says how many.
SetInOrder ==
  /\ active_rules = Len(rules)
  /\ \A r \in ToSet(rules) : mem[r] = "live"
  /\ \A i, j \in DOMAIN rules : i < j =>
       \/ priority[rules[i]] > priority[rules[j]]
       \/ priority[rules[i]] = priority[rules[j]] /\ id[rules[i]] < id[rules[j]]

Matching(ev) == {r \in ToSet(rules) : enabled[r] /\ Verdict(r, ev) = "match"}

\* For every event the walk of evaluate_event ends at the enabled matching
\* rule of the highest priority, the oldest of those, whatever was added,
\* changed and removed before; if it ends nowhere, no rule matches.
FirstMatchWins ==
  \A ev \in Events :
    /\ Stops(ev) = {} => Matching(ev) = {}
    /\ Stops(ev) # {} =>
         \A q \in Matching(ev) : LET r == Hit(ev) IN
           \/ priority[r] > priority[q]
           \/ priority[r] = priority[q] /\ id[r] <= id[q]

\* No hit and no action is lost or counted twice, and every counted hit gets
\* its action counted, however evaluations overlap in their custom actions
\* (rules.c:480, 490); only a reset, which takes no lock (rules.c:549), can
\* upset that, and only one that overlaps an evaluation which is counting.
HitsBalance ==
  clearing = {} /\ ~muddled =>
    rules_hit = actions_taken
                  + Cardinality({e \in Evaluators : pc[e] \in {"gap", "relock", "act", "store"}})

\* From the match to the last access under the lock (custom_action at
\* rules.c:484) the rule an evaluation acts on has not been removed and freed;
\* only the custom action itself may find it gone.
HitRuleLives ==
  \A e \in Evaluators : pc[e] = "hit" => mem[rule[e]] = "live"
=============================================================================
