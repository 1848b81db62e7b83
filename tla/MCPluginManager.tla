--------------------------- MODULE MCPluginManager ---------------------------
(***************************************************************************)
(* An instance of PluginManager for TLC.                                    *)
(***************************************************************************)
EXTENDS PluginManager

MCSymmetry == Permutations(Controllers) \cup Permutations(Names)
=============================================================================
