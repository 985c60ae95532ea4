------------------------------ MODULE MCNative -------------------------------
(* Three parts of the native crates: opening and restoring a data root, the *)
(* asset store, and the streams of the hosts.  They share no state here: a  *)
(* behaviour is one part's, chosen at the start.                            *)
EXTENDS Restore, Assets, HostStreams

CONSTANTS r1, l1   \* a run started over HTTP, and one of the WebView

VARIABLE slice

allVars == <<slice, restoreVars, vars, hostVars>>

\* A host that opens the root after each restore and starts one kernel while
\* an activation is pending; and one that does neither.
MCHosts ==
    {[does |-> {}, kills |-> 2, restores |-> 3],
     [does |-> {"restore_unopened", "open_pending"}, kills |-> 1,
      restores |-> 2]}

\* One that starts two kernels on a pending activation.
HastyHosts == {[does |-> {"open_pending"}, kills |-> 1, restores |-> 1]}

\* One run, of either host, with several upsets; both runs, with one.
MCPlans ==
    {[runs |-> {r1}, events |-> 2, upsets |-> 2],
     [runs |-> {r1}, events |-> 1, upsets |-> 3],
     [runs |-> {l1}, events |-> 1, upsets |-> 3],
     [runs |-> {r1, l1}, events |-> 1, upsets |-> 1]}

InRestore(A) == slice = "restore" /\ A /\ UNCHANGED <<slice, vars, hostVars>>
InAssets(A)  == slice = "assets"  /\ A /\ UNCHANGED <<slice, restoreVars, hostVars>>
InHosts(A)   == slice = "hosts"   /\ A /\ UNCHANGED <<slice, restoreVars, vars>>

NativeInit ==
    /\ slice \in {"restore", "assets", "hosts"}
    /\ RestoreInit
    /\ Init
    /\ HostInit
    /\ slice # "hosts" => plan.runs = {l1}
    /\ slice # "restore" => host.kills = 1

NativeNext == InRestore(RestoreNext) \/ InAssets(Next) \/ InHosts(HostNext)

\* Asset calls return, time passes, and the host runs the collector.  The
\* writer ends its run and goes on, and every thread of a stream runs.
NativeSpec ==
    /\ NativeInit /\ [][NativeNext]_allVars
    /\ WF_allVars(InAssets(Writer))
    /\ WF_allVars(InAssets(GcOrphans))
    /\ WF_allVars(InAssets(\E key \in Keys : Age(key)))
    /\ WF_allVars(InHosts(ExecutorEnds))
    /\ \A w \in Readers :
         WF_allVars(InHosts(StreamStep(w))) /\ WF_allVars(InHosts(Started(w)))
=============================================================================
