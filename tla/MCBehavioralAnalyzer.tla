------------------------ MODULE MCBehavioralAnalyzer ------------------------
(***************************************************************************)
(* Instances of BehavioralAnalyzer for TLC.  The score of a one passes a     *)
(* threshold of 0 until the window is full, and one of 1 while less than     *)
(* half of it is filled.                                                    *)
(***************************************************************************)
EXTENDS BehavioralAnalyzer, TLC

\* Either everything, with handlers that update the global model one after the
\* other under one threshold; or handlers that race for it under changing
\* thresholds in a plugin that stays started and whose work is not due.  The
\* two together are more states than a run can visit.
VARIABLE cast

MCInit == Init /\ cast \in {"life", "race"}

MCNext ==
  /\ Next /\ UNCHANGED cast
  /\ cast = "life" => /\ anomaly_threshold' = anomaly_threshold
                      /\ \A g, h \in Handlers : pc'[g] \in InModel /\ pc'[h] \in InModel => g = h
  /\ cast = "race" => /\ phase' \in {"inited", "started"} /\ work' # "scan"
                      /\ max_profiles' = max_profiles

MCSpec == MCInit /\ [][MCNext]_<<vars, cast>>

Symmetry == Permutations(Handlers)
=============================================================================
