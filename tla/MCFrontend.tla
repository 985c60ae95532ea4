----------------------------- MODULE MCFrontend -----------------------------
(***************************************************************************)
(* TLC instance of two parts of the plugin runtime in the web client: the  *)
(* frames of frontend plugins, and the grants with the services, workers   *)
(* and connections that depend on them.  A behaviour runs one of them,     *)
(* chosen in Init.                                                         *)
(***************************************************************************)
EXTENDS PluginFrames, PluginGrants

CONSTANTS a, b   \* two plugins

VARIABLE slice

vars == <<slice, frameVars, grantVars>>

(* a provides a service, b uses it and computes in workers. *)
MCGrantable ==
    {<<a, "services.provide">>, <<b, "services.connect">>, <<b, "compute.worker">>}

InFrames(A) == slice = "frames" /\ A /\ UNCHANGED <<slice, grantVars>>
InGrants(A) == slice = "grants" /\ A /\ UNCHANGED <<slice, frameVars>>

Init ==
    /\ slice \in {"frames", "grants"}
    /\ FrameInit /\ GrantInit
    /\ slice = "frames" => server = {}

Next == InFrames(FrameNext) \/ InGrants(GrantNext)

(* Hooks answer or time out, probes end, deferred removals run. *)
Fairness == WF_vars(InFrames(FrameRuns))

Spec == Init /\ [][Next]_vars /\ Fairness
=============================================================================
