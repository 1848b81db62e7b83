--------------------------- MODULE MCEventDispatch ---------------------------
(***************************************************************************)
(* Instances of EventDispatch for TLC.                                      *)
(***************************************************************************)
EXTENDS EventDispatch

\* Event 8 (EVENT_SYSCALL_EXECUTED) and event 1000 (EVENT_CUSTOM), whose bit
\* x86 takes to be 8.
MCTypes == {8, 1000}
MCMasks == {{8}, {1}}

\* Threads and objects of one kind are interchangeable.
MCSymmetry == Permutations(Nodes) \cup Permutations(Names)
                \cup Permutations(Subscribers) \cup Permutations(Dispatchers)
=============================================================================
