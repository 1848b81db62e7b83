---------------------------- MODULE MCEventSystem ----------------------------
(***************************************************************************)
(* Instances of EventSystem for TLC.                                        *)
(***************************************************************************)
EXTENDS EventSystem

\* What goes on beside the worker: all publishers and exit_event_system, or a
\* single publisher and the callers of process_pending_events.  All of them at
\* once are more states than the liveness properties can be checked on.
VARIABLE cast

\* Publishers are interchangeable, so any one of them will do.
MCInit ==
  /\ Init
  /\ cast \in {[publishers |-> Publishers, flushers |-> {}, unloads |-> TRUE],
               [publishers |-> {CHOOSE p \in Publishers : TRUE}, flushers |-> Flushers,
                unloads |-> FALSE]}

MCNext ==
  /\ Next
  /\ \A p \in Publishers \ cast.publishers : pub_pc'[p] = "idle"
  /\ \A f \in Flushers \ cast.flushers : con_pc'[f] = "idle"
  /\ ~cast.unloads => exit_pc' = "none"
  /\ UNCHANGED cast

\* Who stays away is never in a step that has to be taken, so the fairness is
\* that of the full system.
MCSpec == MCInit /\ [][MCNext]_<<vars, cast>> /\ Fairness
=============================================================================
