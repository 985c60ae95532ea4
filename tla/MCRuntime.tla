------------------------------ MODULE MCRuntime -----------------------------
(***************************************************************************)
(* TLC instance of the service that activates plugins in worker threads of *)
(* a runtime process.                                                      *)
(***************************************************************************)
EXTENDS RuntimeService

(* Frames on the pipes and ports arrive, timers fire, dead processes are   *)
(* noticed; a plugin's own code is not fair.                               *)
Spec == RuntimeSpec /\ WF_runtimeVars(RuntimeRuns)
=============================================================================
