---------------------------- MODULE MCRuleEngine ----------------------------
(***************************************************************************)
(* Instances of RuleEngine for TLC.                                         *)
(***************************************************************************)
EXTENDS RuleEngine

InEtc == [type |-> "FILE_PATH", operator |-> "STARTS_WITH", string |-> TRUE, value |-> <<"etc">>]
NotRoot == [type |-> "USER_ID", operator |-> "NOT_EQUALS", string |-> FALSE, value |-> 0]
\* -1 in a process name: a bad pointer.
Mistyped == [type |-> "PROCESS_NAME", operator |-> "EQUALS", string |-> FALSE, value |-> -1]
MCConditions == {InEtc, NotRoot, Mistyped}

MCEvents == {[comm |-> <<"cat">>, path |-> <<"etc", "shadow">>, uid |-> 0],
             [comm |-> <<"sh">>, path |-> <<"etc">>, uid |-> 3]}

\* Either all that can be done to rules, beside one evaluator; or two
\* evaluators and resets of the statistics, on rules that are only built,
\* added and removed.  The two together are more states than a run can visit.
VARIABLE cast

MCInit == Init /\ cast \in {"manage", "count"}

\* Evaluators are interchangeable, so any one of them will do.
Alone == CHOOSE e \in Evaluators : TRUE

MCNext ==
  /\ Next
  /\ cast = "manage" => clearing' = {} /\ \A e \in Evaluators \ {Alone} : pc'[e] = "idle"
  /\ cast = "count" => /\ found' = NoRule /\ rule_engine_enabled'
                       /\ \A r \in Rules : ToSet(conditions'[r]) \subseteq {InEtc}
  /\ UNCHANGED cast

MCSpec == MCInit /\ [][MCNext]_<<vars, cast>>

MCSymmetry == Permutations(Rules)
=============================================================================
