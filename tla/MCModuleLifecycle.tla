-------------------------- MODULE MCModuleLifecycle --------------------------
(***************************************************************************)
(* Instances of ModuleLifecycle for TLC.  Three of the seven monitors give  *)
(* a first one, whose failure returns, one in the middle and a last one.    *)
(***************************************************************************)
EXTENDS ModuleLifecycle

MCMonitorOrder == <<"exec", "file", "module">>
=============================================================================
