----------------------------- MODULE MCMonitors -----------------------------
(***************************************************************************)
(* Two instances of Monitors for TLC, told apart by which monitors are      *)
(* enabled: one that rolls back; and one that goes on with the probes it    *)
(* gets beside the one whose handler stops what it reports.                 *)
(***************************************************************************)
EXTENDS Monitors, TLC

VARIABLE enabled

MCInit == Init /\ enabled \in {{"process"}, {"network", "syscall"}}

MCNext ==
  /\ Next /\ UNCHANGED enabled
  /\ \A m \in Monitors \ enabled : mon'[m] = "off"

MCSpec == MCInit /\ [][MCNext]_<<vars, enabled>>

Symmetry == Permutations(Cpus)
=============================================================================
