---------------------------- MODULE PluginFrames ----------------------------
(***************************************************************************)
(* The sandbox frames of frontend plugins                                  *)
(* (apps/web/src/plugins/runtime.ts, FrontendPluginRuntime): creation from *)
(* the plugin list, the kernel handshake, graceful removal with a timer    *)
(* and a lifecycle hook, liveness probes, crash restarts under a budget,   *)
(* and what a frame leaves behind in the host.                             *)
(***************************************************************************)
EXTENDS Integers, Sequences, FiniteSetsExt

CONSTANTS
    FPlugins,      \* frontend plugins
    MaxVersion,    \* versions of a plugin are 1..MaxVersion
    MaxRestarts,   \* crashPolicy.maxRestarts
    MaxSyncs,      \* bound: changes of the plugin list
    MaxFrames,     \* bound: crashes are forgotten only before so many frames
    NoFrame        \* the plugin has no frame

ASSUME FrameAssumption ==
    /\ MaxVersion \in Nat /\ MaxRestarts \in Nat /\ MaxSyncs \in Nat /\ MaxFrames \in Nat
    /\ IsFiniteSet(FPlugins)
    /\ NoFrame \notin [id : Nat, version : Nat, session : {"none", "live"}, loaded : BOOLEAN,
                       removing : BOOLEAN, next : Nat, hung : BOOLEAN]

VARIABLES
    wanted,      \* the plugin list of the last sync: version, 0 when disabled
    frames,      \* the frames map
    frameSeq,    \* ids of frames
    hooks,       \* lifecyclePending: none, pending or settled
    deferred,    \* removals that wait for a hook
    probes,      \* pings in flight
    crashes,     \* crashHistory within the window
    left,        \* registrations, invocations, consent dialog of each plugin
    syncs,       \* list changes so far
    counted,     \* history: frames whose crash was counted
    raced        \* history: plugins whose list entry changed during a removal

frameVars == <<wanted, frames, frameSeq, hooks, deferred, probes, crashes, left, syncs,
               counted, raced>>

\* Registrations go with the invocations.
Kinds == {"invocation", "consent"}
Versions == 0 .. MaxVersion

FrameInit ==
    /\ wanted = [p \in FPlugins |-> 0]
    /\ frames = [p \in FPlugins |-> NoFrame]
    /\ frameSeq = 0
    /\ hooks = [p \in FPlugins |-> "none"]
    /\ deferred = {} /\ probes = {}
    /\ crashes = [p \in FPlugins |-> 0]
    /\ left = [p \in FPlugins |-> {}]
    /\ syncs = 0
    /\ counted = <<>>
    /\ raced = {}

Mounted(p) == frames[p] # NoFrame
Live(p) == Mounted(p) /\ frames[p].session = "live"

NewFrame(id, version) ==
    [id |-> id, version |-> version, session |-> "none", loaded |-> FALSE,
     removing |-> FALSE, next |-> 0, hung |-> FALSE]

\* finalizeFrameRemovalNow: everything of the plugin goes, and the
\* replacement, if there is one, gets a new frame.
Finalized(p, version) ==
    /\ left' = [left EXCEPT ![p] = {}]
    /\ IF version = 0
       THEN frames' = [frames EXCEPT ![p] = NoFrame] /\ UNCHANGED frameSeq
       ELSE /\ frameSeq' = frameSeq + 1
            /\ frames' = [frames EXCEPT ![p] = NewFrame(frameSeq + 1, version)]

\* finalizeFrameRemoval: wait for a hook that was started, else at once.
FinalizeFrameRemoval_WhenIdle(p) ==
    /\ hooks[p] # "pending"
    /\ Finalized(p, frames[p].next) /\ UNCHANGED deferred
FinalizeFrameRemoval(p) ==
    IF hooks[p] # "none"
    THEN /\ deferred' = deferred \cup {[plugin |-> p, id |-> frames[p].id]}
         /\ UNCHANGED <<frames, frameSeq, left>>
    ELSE Finalized(p, frames[p].next) /\ UNCHANGED deferred

-----------------------------------------------------------------------------
(* The plugin list.                                                        *)

\* sync: frames that are not wanted any more, or not in this version, are
\* removed unless a removal is under way already.
Outdated(p, list) == Mounted(p) /\ frames[p].version # list[p]
Sync(list) ==
    /\ syncs < MaxSyncs /\ syncs' = syncs + 1
    /\ wanted' = list
    /\ LET missing == {p \in FPlugins : ~Mounted(p) /\ list[p] # 0}
       IN  /\ Cardinality(missing) <= 1
           /\ frameSeq' = frameSeq + Cardinality(missing)
           /\ frames' = [p \in FPlugins |->
                IF p \in missing THEN NewFrame(frameSeq + 1, list[p])
                ELSE IF Outdated(p, list) /\ ~frames[p].removing
                THEN [frames[p] EXCEPT !.removing = TRUE, !.next = list[p]]
                ELSE frames[p]]
    /\ raced' = raced \cup {p \in FPlugins : Mounted(p) /\ (Mounted(p) => frames[p].removing)}
    /\ UNCHANGED <<hooks, deferred, probes, crashes, left, counted>>

\* The removal timer, or the sandbox's `deactivated`.
RemovalDue(p) ==
    /\ Mounted(p) /\ frames[p].removing
    /\ [plugin |-> p, id |-> frames[p].id] \notin deferred
    /\ FinalizeFrameRemoval(p)
    /\ UNCHANGED <<wanted, hooks, probes, crashes, syncs, counted, raced>>

\* activate() or mount fails: the frame is torn down.
PluginError(p) ==
    /\ Mounted(p) /\ ~frames[p].removing /\ frames[p].hung
    /\ [plugin |-> p, id |-> frames[p].id] \notin deferred
    /\ FinalizeFrameRemoval(p)
    /\ UNCHANGED <<wanted, hooks, probes, crashes, syncs, counted, raced>>

\* A deferred removal: only of the frame it was for.
DeferredRemoval(d) ==
    /\ d \in deferred /\ deferred' = deferred \ {d}
    /\ hooks' = [hooks EXCEPT ![d.plugin] = "none"]
    /\ IF Mounted(d.plugin) /\ frames[d.plugin].id = d.id
       THEN Finalized(d.plugin, frames[d.plugin].next)
       ELSE UNCHANGED <<frames, frameSeq, left>>
    /\ UNCHANGED <<wanted, probes, crashes, syncs, counted, raced>>

-----------------------------------------------------------------------------
(* Sessions, hooks and probes.                                             *)

SetFrame(p, f) ==
    /\ frames' = [frames EXCEPT ![p] = f]
    /\ UNCHANGED <<wanted, frameSeq, hooks, deferred, probes, crashes, left, syncs, counted, raced>>

\* The first load starts the handshake; it succeeds or is given up.
FrameLoads(p) ==
    /\ Mounted(p) /\ ~frames[p].loaded
    /\ \E s \in {"none", "live"} :
        SetFrame(p, [frames[p] EXCEPT !.loaded = TRUE, !.session = s])

\* The sandbox stops answering, or reports an error.
SandboxFails(p) ==
    /\ Mounted(p) /\ frames[p].loaded /\ ~frames[p].hung
    /\ SetFrame(p, [frames[p] EXCEPT !.hung = TRUE])

\* kernelLifecycleHook: the promise stays in the map when it has settled.
HookStarts(p) ==
    /\ Live(p) /\ hooks[p] # "pending"
    /\ hooks' = [hooks EXCEPT ![p] = "pending"]
    /\ UNCHANGED <<wanted, frames, frameSeq, deferred, probes, crashes, left, syncs, counted, raced>>

\* handleFrameCrash: count, then restart or give up.
CrashApplies_AnyFrame(p, id) == Live(p) /\ (Live(p) => ~frames[p].removing)
CrashApplies(p, id) ==
    Live(p) /\ (Live(p) => frames[p].id = id /\ ~frames[p].removing)
Budget(p) == IF crashes[p] + 1 > MaxRestarts THEN 0 ELSE frames[p].version
HandleFrameCrash(p, id) ==
    IF CrashApplies(p, id)
    THEN /\ crashes' = [crashes EXCEPT ![p] = @ + 1]
         /\ counted' = Append(counted, id)
         /\ Finalized(p, Budget(p))
    ELSE UNCHANGED <<crashes, counted, frames, frameSeq, left>>

\* probeFrame sends a ping; a frame that is replaced disposes its session and
\* so fails its ping too.
Probe(p) ==
    /\ Live(p) /\ ~frames[p].removing
    /\ LET ping == [plugin |-> p, id |-> frames[p].id]
       IN  ping \notin probes /\ probes' = probes \cup {ping}
    /\ UNCHANGED <<wanted, frames, frameSeq, hooks, deferred, crashes, left, syncs, counted, raced>>
Answers(d) == Live(d.plugin) /\ frames[d.plugin].id = d.id /\ ~frames[d.plugin].hung
ProbeEnds(d) ==
    /\ d \in probes /\ probes' = probes \ {d}
    /\ IF Answers(d) THEN UNCHANGED <<crashes, counted, frames, frameSeq, left>>
       ELSE HandleFrameCrash(d.plugin, d.id)
    /\ UNCHANGED <<wanted, hooks, deferred, syncs, raced>>

\* The port of a failed sandbox closes, or its document is replaced.
PeerCloses(p) ==
    /\ Live(p) /\ frames[p].hung /\ ~frames[p].removing
    /\ HandleFrameCrash(p, frames[p].id)
    /\ UNCHANGED <<wanted, hooks, deferred, probes, syncs, raced>>

\* A sandbox that never had a session navigates away: its state is dropped.
ResetFrameSession(p) ==
    /\ Mounted(p) /\ frames[p].loaded /\ frames[p].session = "none" /\ left[p] # {}
    /\ left' = [left EXCEPT ![p] = @ \cap {"consent"}]
    /\ UNCHANGED <<wanted, frames, frameSeq, hooks, deferred, probes, crashes, syncs, counted, raced>>

\* The crashes of the last ten minutes are forgotten.
CrashesForgotten(p) ==
    /\ crashes[p] > 0 /\ frameSeq < MaxFrames /\ crashes' = [crashes EXCEPT ![p] = 0]
    /\ UNCHANGED <<wanted, frames, frameSeq, hooks, deferred, probes, left, syncs, counted, raced>>

\* A plugin registers, is invoked, or asks for consent; answers, timers and
\* the user take the last two away again.
Leave(p, kind) ==
    /\ Mounted(p) /\ kind \notin left[p]
    /\ kind = "consent" => Live(p)
    /\ left' = [left EXCEPT ![p] = @ \cup {kind}]
    /\ UNCHANGED <<wanted, frames, frameSeq, hooks, deferred, probes, crashes, syncs, counted, raced>>
Settle(p, kind) ==
    /\ kind \in left[p]
    /\ left' = [left EXCEPT ![p] = @ \ {kind}]
    /\ UNCHANGED <<wanted, frames, frameSeq, hooks, deferred, probes, crashes, syncs, counted, raced>>

\* Timers: the removal, the wait for a hook, pings and their deadlines.
FrameRuns ==
    \/ \E p \in FPlugins : RemovalDue(p) \/ FrameLoads(p)
    \/ \E d \in deferred : DeferredRemoval(d)
    \/ \E d \in probes : ProbeEnds(d)

FrameNext ==
    \/ FrameRuns
    \/ \E list \in [FPlugins -> Versions] : Sync(list)
    \/ \E p \in FPlugins :
        \/ PluginError(p) \/ SandboxFails(p) \/ HookStarts(p) \/ Probe(p) \/ PeerCloses(p)
        \/ ResetFrameSession(p) \/ CrashesForgotten(p)
        \/ \E kind \in Kinds : Leave(p, kind) \/ Settle(p, kind)

FrameSpec == FrameInit /\ [][FrameNext]_frameVars

-----------------------------------------------------------------------------

\* A plugin without a frame has left nothing behind: no registration, no
\* pending invocation, no consent dialog.
NothingLeftBehind == \A p \in FPlugins : frames[p] = NoFrame => left[p] = {}

\* A frame goes only for a reason of its own: its removal was started, or its
\* own sandbox failed.  Timers, deferred removals and failed pings of an
\* earlier frame never take the one that replaced it.
OnlyDueRemovals ==
    [][\A p \in FPlugins : frames[p] # NoFrame =>
          \/ frames'[p] # NoFrame /\ frames'[p].id = frames[p].id
          \/ frames[p].removing \/ frames[p].hung]_frameVars

\* A crash is counted once, although a missed ping, a closed port and a
\* reloaded document can all report it.
CrashCountedOnce == \A i, j \in DOMAIN counted : counted[i] = counted[j] => i = j

\* "After a plugin is disabled, nothing remains" (plugin-sdk/lifecycle.md):
\* a disabled plugin has no frame, apart from one that is being removed.
DisabledIsGone ==
    \A p \in FPlugins : wanted[p] = 0 /\ frames[p] # NoFrame => frames[p].removing

\* The same for plugins whose list entry did not change during a removal.
DisabledIsGoneUnlessRaced ==
    \A p \in FPlugins \ raced : wanted[p] = 0 /\ frames[p] # NoFrame => frames[p].removing

\* Every removal that starts is carried out, hooks or not.
RemovalEnds ==
    \A p \in FPlugins : (frames[p] # NoFrame /\ frames[p].removing)
                          ~> (frames[p] = NoFrame \/ ~frames[p].removing)

\* Frames, in one: what is gone is gone whole, a crash counts once, and a
\* disabled plugin has no frame.
FramesSound == NothingLeftBehind /\ CrashCountedOnce /\ DisabledIsGoneUnlessRaced

\* Removals, in one: only those that are due, and all of them.
RemovalsDue == OnlyDueRemovals /\ RemovalEnds
=============================================================================
