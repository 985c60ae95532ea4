---------------------------- MODULE BackendHost -----------------------------
(***************************************************************************)
(* The host of backend plugin processes in the Node server                 *)
(* (apps/server/src/plugin/backendHost.ts) and the resource governor that  *)
(* watches them (resourceGovernor.ts), for one plugin.                     *)
(*                                                                         *)
(* Activations and deactivations of a plugin run one at a time, through a  *)
(* per-plugin chain of promises (`queue`; its head is running and `step`   *)
(* says how far it is).  The governor samples the process of its ledger    *)
(* across an await and asks for a deactivation, by plugin id, through the  *)
(* same chain.  A process is a member of `procs`, named by its position:   *)
(* alive, dead, or dead and its 'exit' event handled.  Not modelled: the   *)
(* CPU watchdog, which counts samples as the memory limit does, and the    *)
(* usage reports used where /proc does not exist.                          *)
(***************************************************************************)
EXTENDS Integers, Sequences, FiniteSets

CONSTANTS
    MaxLifecycle,   \* activations and deactivations asked for by requests
    MaxProcesses,   \* processes ever spawned
    MaxTicks,       \* governor samples
    MaxProcCrashes, \* processes that die by themselves
    HardSamples     \* hardViolationSamples

ASSUME BackendHostAssumption ==
    /\ {MaxLifecycle, MaxProcesses, MaxTicks, MaxProcCrashes} \subseteq Nat
    /\ HardSamples \in Nat \ {0}

VARIABLES
    queue,       \* lifecycleLocks: the chain of the plugin, its head running
    step,        \* of the head: "begin", "ending", "resolving", "starting", "failing"
    handled,     \* the process the head ends or starts, 0 for none
    procs,       \* every process spawned
    current,     \* processes.get(pluginId), 0 for none
    routes,      \* the processes that hold host-side registrations
    ledger,      \* the governor's entry: the process it names, 0 for none
    sampling,    \* the entry whose sample is awaited, 0 for none
    left         \* what the environment may still do

lifecycleVars == <<queue, step, handled, procs, current, routes>>
governorVars  == <<ledger, sampling>>
backendVars   == <<queue, step, handled, procs, current, routes,
                   ledger, sampling, left>>

BackendInit ==
    /\ queue = <<>> /\ step = "begin" /\ handled = 0
    /\ procs = <<>> /\ current = 0 /\ routes = {}
    /\ ledger = 0 /\ sampling = 0
    /\ left = [lifecycle |-> MaxLifecycle, ticks |-> MaxTicks, crashes |-> MaxProcCrashes]

Spawned == [life |-> "alive", killed |-> FALSE, asked |-> FALSE, over |-> 0, terminated |-> FALSE]

Processes == 1..Len(procs)
Running   == queue # <<>>
Exited(k) == procs[k].life = "exited"

-----------------------------------------------------------------------------
(* The lifecycle chain (withLifecycleLock).                                *)

Enqueued(q, op, measured) == Append(q, [op |-> op, measured |-> measured])

(* Activation over the HTTP routes, an install, or server start. *)
Activate ==
    /\ left.lifecycle > 0
    /\ left' = [left EXCEPT !.lifecycle = @ - 1]
    /\ queue' = Enqueued(queue, "activate", 0)
    /\ UNCHANGED <<step, handled, procs, current, routes, governorVars>>

(* Disable, delete, an update, or close() when the map names a process. *)
Deactivate ==
    /\ left.lifecycle > 0
    /\ left' = [left EXCEPT !.lifecycle = @ - 1]
    /\ queue' = Enqueued(queue, "deactivate", 0)
    /\ UNCHANGED <<step, handled, procs, current, routes, governorVars>>

(* The chain goes on with the next action, whether the head failed or not. *)
HeadDone == queue' = Tail(queue) /\ step' = "begin" /\ handled' = 0

(* After the old process is gone: a deactivation is over, an activation    *)
(* goes on.                                                                *)
OldProcessGone ==
    IF Head(queue).op = "activate"
    THEN step' = "resolving" /\ handled' = 0 /\ UNCHANGED queue
    ELSE HeadDone

(* deactivateUnlocked up to its await: the process leaves the map and is   *)
(* asked to deactivate.                                                    *)
BeginEnd_Keep ==
    /\ Running /\ step = "begin"
    /\ IF current = 0 \/ Head(queue).op = "activate"
       THEN OldProcessGone /\ UNCHANGED <<procs, current>>
       ELSE /\ current' = 0 /\ handled' = current /\ step' = "ending"
            /\ procs' = [procs EXCEPT ![current].asked = TRUE]
            /\ UNCHANGED queue
    /\ UNCHANGED <<routes, governorVars, left>>

BeginEnd ==
    /\ Running /\ step = "begin"
    /\ IF current = 0
       THEN OldProcessGone /\ UNCHANGED <<procs, current>>
       ELSE /\ current' = 0 /\ handled' = current /\ step' = "ending"
            /\ procs' = [procs EXCEPT ![current].asked = TRUE]
            /\ UNCHANGED queue
    /\ UNCHANGED <<routes, governorVars, left>>

Killed(k) == [procs EXCEPT ![k].killed = @ \/ ~Exited(k)]

(* deactivateUnlocked after its await (the exit, the `deactivated` message *)
(* or 3 s): kill what has not exited, release its registrations, and       *)
(* delete the governor's entry of the plugin.                              *)
FinishEnd ==
    /\ Running /\ step = "ending"
    /\ procs' = Killed(handled)
    /\ routes' = routes \ {handled}
    /\ ledger' = 0
    /\ OldProcessGone
    /\ UNCHANGED <<current, sampling, left>>

(* activateUnlocked: the package cannot be resolved or spawn fails. *)
SpawnFails ==
    /\ Running /\ step = "resolving"
    /\ HeadDone
    /\ UNCHANGED <<procs, current, routes, governorVars, left>>

(* activateUnlocked: the process is spawned, registered with the governor  *)
(* and put in the map; waitUntilReady follows.                             *)
Spawn ==
    /\ Running /\ step = "resolving" /\ Len(procs) < MaxProcesses
    /\ procs' = Append(procs, Spawned)
    /\ handled' = Len(procs') /\ current' = Len(procs') /\ ledger' = Len(procs')
    /\ step' = "starting"
    /\ UNCHANGED <<queue, routes, sampling, left>>

(* The worker's `ready`. *)
Ready ==
    /\ Running /\ step = "starting" /\ ~Exited(handled)
    /\ HeadDone
    /\ UNCHANGED <<procs, current, routes, governorVars, left>>

(* The worker's `activationError`, its exit, or the activation timeout:    *)
(* the process is asked to deactivate.                                     *)
StartFails_ExitOnly ==
    /\ Running /\ step = "starting" /\ Exited(handled)
    /\ step' = "failing"
    /\ procs' = [procs EXCEPT ![handled].asked = TRUE]
    /\ UNCHANGED <<queue, handled, current, routes, governorVars, left>>

StartFails ==
    /\ Running /\ step = "starting"
    /\ step' = "failing"
    /\ procs' = [procs EXCEPT ![handled].asked = TRUE]
    /\ UNCHANGED <<queue, handled, current, routes, governorVars, left>>

(* The catch of activateUnlocked after process.deactivate(): the process   *)
(* leaves the map and its registrations go; the governor is not told.      *)
FinishFail ==
    /\ Running /\ step = "failing"
    /\ procs' = Killed(handled)
    /\ current' = IF current = handled THEN 0 ELSE current
    /\ routes' = routes \ {handled}
    /\ HeadDone
    /\ UNCHANGED <<governorVars, left>>

-----------------------------------------------------------------------------
(* The worker process.                                                     *)

(* route.register and the like; the plugin registers one route, and a key  *)
(* that is taken is refused.  A message sent before a death can arrive     *)
(* after it.                                                               *)
Register(k) ==
    /\ ~Exited(k) /\ routes = {}
    /\ routes' = {k}
    /\ UNCHANGED <<queue, step, handled, procs, current, governorVars, left>>

Dies(k) ==
    /\ procs[k].life = "alive"
    /\ \/ (procs[k].killed \/ procs[k].asked) /\ UNCHANGED left
       \/ left.crashes > 0 /\ left' = [left EXCEPT !.crashes = @ - 1]
    /\ procs' = [procs EXCEPT ![k].life = "dead"]
    /\ UNCHANGED <<queue, step, handled, current, routes, governorVars>>

(* The 'exit' handler, failAll: everything in flight is rejected and the   *)
(* registrations are released; the map and the governor keep the process.  *)
ExitSeen(k) ==
    /\ procs[k].life = "dead"
    /\ procs' = [procs EXCEPT ![k].life = "exited"]
    /\ routes' = routes \ {k}
    /\ UNCHANGED <<queue, step, handled, current, governorVars, left>>

-----------------------------------------------------------------------------
(* The governor.                                                           *)

(* tick() up to the await of the sampler. *)
SampleBegins ==
    /\ sampling = 0 /\ ledger # 0 /\ left.ticks > 0
    /\ sampling' = ledger
    /\ left' = [left EXCEPT !.ticks = @ - 1]
    /\ UNCHANGED <<lifecycleVars, ledger>>

(* A dead process keeps its last known memory. *)
MayBeOver(k) ==
    IF procs[k].life = "alive" THEN BOOLEAN ELSE {procs[k].over > 0}

(* evaluateProcess: the entry after one more sample. *)
Evaluated(p, over) ==
    IF p.terminated THEN p
    ELSE LET n == IF over THEN p.over + 1 ELSE 0
         IN  [p EXCEPT !.over = n, !.terminated = n >= HardSamples]

(* tick() after the sample: evaluateProcess for the entry sampled,         *)
(* computeLevel and terminateVictims for the ledger as it is now;          *)
(* `tree` says whether the whole tree is over its hard budget.             *)
SampleEnds(over, tree) ==
    LET k         == sampling
        evaluated == [procs EXCEPT ![k] = Evaluated(@, over)]
        hard      == tree \/ (ledger # 0 /\ evaluated[ledger].terminated)
        victim    == /\ hard /\ ledger # 0
                     /\ ~evaluated[ledger].terminated /\ evaluated[ledger].over > 0
        asked     == IF evaluated[k].terminated /\ ~procs[k].terminated
                     THEN Enqueued(queue, "deactivate", k) ELSE queue
    IN  /\ k # 0 /\ over \in MayBeOver(k)
        /\ procs' = IF victim THEN [evaluated EXCEPT ![ledger].terminated = TRUE]
                              ELSE evaluated
        /\ queue' = IF victim THEN Enqueued(asked, "deactivate", ledger) ELSE asked
        /\ sampling' = 0
        /\ UNCHANGED <<step, handled, current, routes, ledger, left>>

(* What the host's own code and timers do without the worker's help. *)
LifecycleRuns ==
    BeginEnd \/ FinishEnd \/ SpawnFails \/ Spawn \/ StartFails \/ FinishFail

BackendRuns ==
    \/ LifecycleRuns
    \/ \E k \in Processes : ExitSeen(k)
    \/ \E over, tree \in BOOLEAN : SampleEnds(over, tree)

BackendNext ==
    \/ BackendRuns
    \/ Activate \/ Deactivate \/ SampleBegins \/ Ready
    \/ \E k \in Processes : Register(k) \/ Dies(k)

BackendSpec == BackendInit /\ [][BackendNext]_backendVars

-----------------------------------------------------------------------------
(* No worker is orphaned: a process that lives and was not killed is the   *)
(* one in the map, or the one its lifecycle action is ending.  (PLUG-52:   *)
(* overlapping activations used to orphan workers.)                        *)
NoOrphanWorker ==
    \A k \in Processes :
        procs[k].life = "alive" /\ ~procs[k].killed =>
            \/ k = current
            \/ Running /\ k = handled /\ step \in {"ending", "failing"}

(* No registration outlives its process: what is registered belongs to a   *)
(* process whose exit was not handled yet, so no route leads to a worker   *)
(* that is gone for good.                                                  *)
RoutesOwned == \A k \in routes : ~Exited(k)

(* Every process in the map is the one the governor watches, through any   *)
(* order of updates, failures and crashes.                                 *)
RunningGoverned == current # 0 => ledger = current

(* Every lifecycle request is served: the chain never stays blocked by a   *)
(* worker that hangs, dies or fails while it starts or ends.               *)
LifecycleDrains == Running ~> ~Running

(* A termination the governor decided on is carried out: while the process *)
(* is in the map, a lifecycle action that will end it is queued.           *)
TerminationServed ==
    current # 0 /\ procs[current].terminated => Running

(* computeLevel answers `hard` while the ledger holds a terminated entry,  *)
(* so an entry must not outlive the request that ends its process.  The    *)
(* entry of an activation that failed does: nothing unregisters it, its    *)
(* last sample is kept, and the deactivation finds no process.             *)
PressureClears ==
    ledger # 0 /\ procs[ledger].terminated => Running

(* The governor ends the process it measured (registerPluginRoutes:        *)
(* terminations go through the lifecycle locks "so no spawn/deactivate     *)
(* race can slip through").  The request names only the plugin: one queued *)
(* behind an update or a restart ends the new process.                     *)
GovernorEndsMeasured ==
    Running /\ step = "ending" /\ Head(queue).measured # 0 =>
        handled = Head(queue).measured

(* Backends, in one: every worker, registration and ledger entry has its   *)
(* owner, and a termination that was decided on is queued.                 *)
BackendsAccounted ==
    NoOrphanWorker /\ RoutesOwned /\ RunningGoverned /\ TerminationServed
=============================================================================
