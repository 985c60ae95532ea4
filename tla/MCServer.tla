------------------------------ MODULE MCServer ------------------------------
(***************************************************************************)
(* TLC instance of the plugin host of the Node server: the backend         *)
(* processes and their governor, the routes they answer, the packages, and *)
(* the broker calls of a sandboxed worker.  A behaviour runs one of them,  *)
(* chosen in Init.                                                         *)
(***************************************************************************)
EXTENDS BackendHost, RouteStreams, PluginPackages, BrokerCalls

VARIABLE slice

vars == <<slice, backendVars, streamVars, packageVars, brokerCallVars>>

InBackend(A) ==
    slice = "backend" /\ A /\ UNCHANGED <<slice, streamVars, packageVars, brokerCallVars>>
InStreams(A) ==
    slice = "streams" /\ A /\ UNCHANGED <<slice, backendVars, packageVars, brokerCallVars>>
InPackages(A) ==
    slice = "packages" /\ A /\ UNCHANGED <<slice, backendVars, streamVars, brokerCallVars>>
InBroker(A) ==
    slice = "broker" /\ A /\ UNCHANGED <<slice, backendVars, streamVars, packageVars>>

Init ==
    /\ slice \in {"backend", "streams", "packages", "broker"}
    /\ BackendInit /\ StreamInit /\ PackagesInit /\ BrokerInit
    /\ slice # "packages" => row = NoPlugin
    /\ slice # "broker" => large = {}

Next ==
    \/ InBackend(BackendNext) \/ InStreams(StreamNext)
    \/ InPackages(PackagesNext) \/ InBroker(BrokerNext)

(* The host's handlers and timers run and the channels deliver; a plugin   *)
(* and a client may stop at any point.                                     *)
Fairness ==
    /\ WF_vars(InBackend(BackendRuns))
    /\ WF_vars(InStreams(StreamRuns))
    /\ WF_vars(InBroker(BrokerRuns))
    /\ \A c \in BCalls : WF_vars(InBroker(RuntimeDeadline(c)))

Spec == Init /\ [][Next]_vars /\ Fairness
=============================================================================
