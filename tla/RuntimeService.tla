--------------------------- MODULE RuntimeService ---------------------------
(***************************************************************************)
(* The backend plugin runtime: the server's service                        *)
(* (server/src/plugin/vnextRuntime.ts) starts a runtime process on demand  *)
(* (plugin-runtime/src/host/runtimeClient.ts), which runs one worker       *)
(* thread per activated plugin (runtime-main.ts, supervisor.ts).           *)
(*                                                                         *)
(* Activation number a is also the id of its worker: `nextWorkerId` gives  *)
(* every activation an id of its own.  Frames keep their order per pipe; a *)
(* frame to the host is lost when the control outbox is full.              *)
(***************************************************************************)
EXTENDS Integers, Sequences, FiniteSets

CONSTANTS
    RPlugins,     \* plugins
    MaxActs,      \* bound: calls of activate
    MaxGens,      \* bound: runtime processes that are started
    MaxShutdowns, \* bound: calls of shutdown
    MaxFaults,    \* bound: processes and workers that die by themselves
    MaxFrames     \* maxPending of the control outbox

ASSUME RuntimeAssumption ==
    MaxActs \in Nat /\ MaxGens \in Nat /\ MaxShutdowns \in Nat /\ MaxFaults \in Nat /\ MaxFrames \in Nat \ {0}

Acts == 1..MaxActs
Gens == 1..MaxGens

VARIABLES
    acts,          \* the activations: plugin, state, generation, worker ready
    client,        \* `client`: a generation, 0 when undefined
    promise,       \* `clientPromise`: a generation, 0 when undefined
    shuttingDown,  \* `shuttingDown`
    workers,       \* `workers`
    pluginWorkers, \* `pluginWorkers`: 0 when the plugin has no entry
    proc,          \* the processes: none, starting, up, dead (exit not seen), gone
    toRuntime,     \* control frames of the host, per process
    toHost,        \* control outbox, per process
    rec,           \* the supervisor's record of a worker
    thread,        \* worker threads: none, boot, ready, loaded, exited
    grace,         \* workers whose grace period runs
    portDown,      \* messages of the supervisor for a worker
    portUp,        \* messages of a worker for the supervisor
    shutdowns,     \* calls of shutdown so far
    startCut,      \* history: what made the service forget a process that was starting:
                   \* a shutdown, or the exit of an earlier process
    overlapped,    \* history: plugins with two activations at once
    faults,        \* processes and workers that died by themselves
    lost,          \* history: the outbox has dropped an exit
    miscounted     \* history: acknowledged exits counted as restarts

hostVars == <<acts, client, promise, shuttingDown, workers, pluginWorkers, shutdowns,
              startCut, overlapped>>
threadVars == <<rec, thread, grace, portDown, portUp, miscounted, faults>>
runtimeVars == <<hostVars, proc, toRuntime, toHost, threadVars, lost>>

RuntimeInit ==
    /\ acts = [a \in Acts |-> [plugin |-> 0, st |-> "idle", gen |-> 0, ready |-> FALSE]]
    /\ client = 0 /\ promise = 0 /\ shuttingDown = FALSE
    /\ workers = {} /\ pluginWorkers = [p \in RPlugins |-> 0]
    /\ proc = [g \in Gens |-> "none"]
    /\ toRuntime = [g \in Gens |-> <<>>] /\ toHost = [g \in Gens |-> <<>>]
    /\ rec = [a \in Acts |-> "none"] /\ thread = [a \in Acts |-> "none"]
    /\ grace = {}
    /\ portDown = [a \in Acts |-> <<>>] /\ portUp = [a \in Acts |-> <<>>]
    /\ shutdowns = 0 /\ startCut = {} /\ overlapped = {} /\ lost = FALSE /\ miscounted = {} /\ faults = 0

PendingActs == {a \in Acts : acts[a].st = "pending"}
Waiting(a) == acts[a].st \in {"building", "connecting", "pending"}
InProcess(g) == {a \in Acts : acts[a].gen = g}
Alive(g) == proc[g] \in {"starting", "up"}
Connected(g) == proc[g] \in {"up", "dead"}

FrameTo(q, g, kind, a) == [q EXCEPT ![g] = Append(@, [kind |-> kind, act |-> a])]
CutBy(cause) == startCut' = startCut \cup {cause : g \in {h \in Gens : proc[h] = "starting"}}
Ended(A) == [a \in Acts |-> IF a \in A THEN [acts[a] EXCEPT !.st = "failed"] ELSE acts[a]]

-----------------------------------------------------------------------------
(* The server's service. *)

\* activate: the check, before the package is read
Activate(a, p) ==
    /\ acts[a].st = "idle" /\ \A b \in Acts : b < a => acts[b].st # "idle"
    /\ acts' = [acts EXCEPT ![a] = [@ EXCEPT !.plugin = p,
                   !.st = IF pluginWorkers[p] # 0 THEN "failed" ELSE "building"]]
    /\ overlapped' = IF \E b \in Acts : acts[b].plugin = p /\ Waiting(b)
                     THEN overlapped \cup {p} ELSE overlapped
    /\ UNCHANGED <<client, promise, shuttingDown, workers, pluginWorkers, shutdowns, startCut,
                   proc, toRuntime, toHost, threadVars, lost>>

\* buildGraph throws
BuildFails(a) ==
    /\ acts[a].st = "building"
    /\ acts' = Ended({a})
    /\ UNCHANGED <<client, promise, shuttingDown, workers, pluginWorkers, shutdowns, startCut, overlapped,
                   proc, toRuntime, toHost, threadVars, lost>>

\* The client is known: the worker is spawned at once.  spawnWorker throws
\* when the process is known to be gone.
Spawned(as, g) ==
    /\ acts' = [a \in Acts |-> IF a \in as
                  THEN [acts[a] EXCEPT !.gen = g, !.st = IF Connected(g) THEN "pending" ELSE "failed"]
                  ELSE acts[a]]
    /\ toRuntime' = IF Connected(g)
         THEN [toRuntime EXCEPT ![g] = @ \o
                 [i \in 1..Cardinality(as) |->
                    [kind |-> "spawn", act |-> CHOOSE a \in as :
                                          Cardinality({b \in as : b <= a}) = i]]]
         ELSE toRuntime

\* The graph is built: ensureClient
Build(a) ==
    /\ acts[a].st = "building"
    /\ UNCHANGED <<client, workers, pluginWorkers, shutdowns, startCut, overlapped, toHost, threadVars, lost>>
    /\ \/ /\ client # 0
          /\ Spawned({a}, client)
          /\ UNCHANGED <<promise, shuttingDown, proc>>
       \/ /\ client = 0 /\ promise # 0
          /\ shuttingDown' = FALSE
          /\ acts' = [acts EXCEPT ![a] = [@ EXCEPT !.st = "connecting", !.gen = promise]]
          /\ UNCHANGED <<promise, proc, toRuntime>>
       \/ /\ client = 0 /\ promise = 0
          /\ shuttingDown' = FALSE
          /\ \E g \in Gens :
               /\ proc[g] = "none" /\ \A h \in Gens : h < g => proc[h] # "none"
               /\ promise' = g
               /\ proc' = [proc EXCEPT ![g] = "starting"]
               /\ acts' = [acts EXCEPT ![a] = [@ EXCEPT !.st = "connecting", !.gen = g]]
          /\ UNCHANGED toRuntime

\* The handshake is done; the activations that wait for it go on in the same
\* microtasks
StartDone(g) ==
    /\ proc[g] = "starting"
    /\ client' = g
    /\ proc' = [proc EXCEPT ![g] = "up"]
    /\ LET as == {a \in InProcess(g) : acts[a].st = "connecting"} IN
         /\ acts' = [a \in Acts |-> IF a \in as THEN [acts[a] EXCEPT !.st = "pending"] ELSE acts[a]]
         /\ toRuntime' = [toRuntime EXCEPT ![g] =
              [i \in 1..Cardinality(as) |->
                 [kind |-> "spawn", act |-> CHOOSE a \in as : Cardinality({b \in as : b <= a}) = i]]]
    /\ UNCHANGED <<promise, shuttingDown, workers, pluginWorkers, shutdowns, startCut, overlapped,
                   toHost, threadVars, lost>>

\* The handshake fails: clientPromise is cleared whatever it is by now
StartFails(g) ==
    /\ proc[g] = "starting"
    /\ promise' = 0
    /\ proc' = [proc EXCEPT ![g] = "gone"]
    /\ acts' = Ended({a \in InProcess(g) : acts[a].st = "connecting"})
    /\ UNCHANGED <<client, shuttingDown, workers, pluginWorkers, shutdowns, startCut, overlapped,
                   toRuntime, toHost, threadVars, lost>>

ActTimeout_LeavesWorker(a) ==
    /\ acts[a].st = "pending"
    /\ acts' = Ended({a})
    /\ UNCHANGED <<client, promise, shuttingDown, workers, pluginWorkers, shutdowns, startCut,
                   overlapped, proc, toRuntime, toHost, threadVars, lost>>

\* The timer of an activation; terminateWorker throws when the process is
\* gone, and the activation is never rejected
ActTimeout(a) ==
    /\ acts[a].st = "pending"
    /\ IF Connected(acts[a].gen)
       THEN /\ acts' = Ended({a})
            /\ toRuntime' = FrameTo(toRuntime, acts[a].gen, "terminate", a)
       ELSE /\ acts' = [acts EXCEPT ![a].st = "stuck"]
            /\ UNCHANGED toRuntime
    /\ UNCHANGED <<client, promise, shuttingDown, workers, pluginWorkers, shutdowns, startCut, overlapped,
                   proc, toHost, threadVars, lost>>

\* handleWorkerReady: the graph goes to the client of the moment
WorkerReady(a) ==
    LET counts == acts[a].st = "pending" /\ ~acts[a].ready IN
    /\ acts' = IF counts THEN [acts EXCEPT ![a].ready = TRUE] ELSE acts
    /\ toRuntime' = IF counts /\ client # 0 /\ Connected(client)
                    THEN FrameTo(toRuntime, client, "graph", a) ELSE toRuntime
    /\ UNCHANGED <<workers, pluginWorkers>>

\* handleBridgeMessage, finishActivation
GraphLoaded(a) ==
    /\ acts' = IF acts[a].st = "pending" THEN [acts EXCEPT ![a].st = "active"] ELSE acts
    /\ workers' = IF acts[a].st = "pending" THEN workers \cup {a} ELSE workers
    /\ pluginWorkers' = IF acts[a].st = "pending"
                        THEN [pluginWorkers EXCEPT ![acts[a].plugin] = a] ELSE pluginWorkers
    /\ UNCHANGED toRuntime

GraphError(a) ==
    /\ acts' = IF acts[a].st = "pending" THEN Ended({a}) ELSE acts
    /\ toRuntime' = IF acts[a].st = "pending" /\ client # 0 /\ Connected(client)
                    THEN FrameTo(toRuntime, client, "terminate", a) ELSE toRuntime
    /\ UNCHANGED <<workers, pluginWorkers>>

\* handleWorkerTerminated
WorkerTerminated(a) ==
    /\ acts' = IF acts[a].st = "pending" THEN Ended({a}) ELSE acts
    /\ workers' = workers \ {a}
    /\ pluginWorkers' = IF a \in workers THEN [pluginWorkers EXCEPT ![acts[a].plugin] = 0]
                        ELSE pluginWorkers
    /\ UNCHANGED toRuntime

\* A frame of the process reaches the service; a dead process's last frames
\* are read before its exit
HostReceives(g) ==
    /\ toHost[g] # <<>> /\ Connected(g)
    /\ LET f == Head(toHost[g]) IN
         \/ f.kind = "ready" /\ WorkerReady(f.act)
         \/ f.kind = "loaded" /\ GraphLoaded(f.act)
         \/ f.kind = "error" /\ GraphError(f.act)
         \/ f.kind = "terminated" /\ WorkerTerminated(f.act)
    /\ toHost' = [toHost EXCEPT ![g] = Tail(@)]
    /\ UNCHANGED <<client, promise, shuttingDown, shutdowns, startCut, overlapped, proc, threadVars, lost>>

ResetHost_KeepsWorkers ==
    /\ acts' = Ended(PendingActs)
    /\ client' = 0 /\ promise' = 0
    /\ UNCHANGED <<workers, pluginWorkers>>

\* What handleRuntimeExit leaves of the host's state
ResetHost ==
    /\ acts' = Ended(PendingActs)
    /\ workers' = {} /\ pluginWorkers' = [p \in RPlugins |-> 0]
    /\ client' = 0 /\ promise' = 0

\* The exit event: handleRuntimeExit, for whichever process it is
ExitSeen(g) ==
    /\ proc[g] = "dead"
    /\ proc' = [proc EXCEPT ![g] = "gone"]
    /\ toHost' = [toHost EXCEPT ![g] = <<>>] /\ toRuntime' = [toRuntime EXCEPT ![g] = <<>>]
    /\ \/ shuttingDown /\ UNCHANGED <<acts, workers, pluginWorkers, client, promise, startCut>>
       \/ ~shuttingDown /\ ResetHost /\ CutBy("exit")
    /\ UNCHANGED <<shuttingDown, shutdowns, overlapped, threadVars, lost>>

\* deactivate: nothing while the plugin has no worker yet.  A request for a
\* worker that is being ended or has ended changes nothing and is left out.
Deactivate(p) ==
    /\ pluginWorkers[p] \in workers
    /\ client # 0 /\ Connected(client)
    /\ \A i \in DOMAIN toRuntime[client] : toRuntime[client][i].act # pluginWorkers[p]
    /\ rec[pluginWorkers[p]] = "ready"
    /\ toRuntime' = FrameTo(toRuntime, client, "terminate", pluginWorkers[p])
    /\ UNCHANGED <<hostVars, proc, toHost, threadVars, lost>>

\* shutdown, then client.terminate: it returns when the process has exited,
\* and kills it after a while
Shutdown ==
    /\ shutdowns < MaxShutdowns
    /\ shutdowns' = shutdowns + 1
    /\ shuttingDown' = TRUE
    /\ acts' = Ended(PendingActs)
    /\ workers' = {} /\ pluginWorkers' = [p \in RPlugins |-> 0]
    /\ client' = 0 /\ promise' = 0
    /\ toRuntime' = IF client # 0 /\ Connected(client)
                    THEN FrameTo(toRuntime, client, "TERMINATE", 0) ELSE toRuntime
    /\ CutBy("shutdown")
    /\ UNCHANGED <<overlapped, proc, toHost, threadVars, lost>>

-----------------------------------------------------------------------------
(* The runtime process. *)

\* ControlOutbox.push
Pushed(g, kind, a) ==
    IF Len(toHost[g]) >= MaxFrames THEN toHost ELSE FrameTo(toHost, g, kind, a)

Dies(g) ==
    /\ proc' = [proc EXCEPT ![g] = "dead"]
    /\ thread' = [a \in Acts |-> IF a \in InProcess(g) /\ thread[a] # "none" THEN "exited" ELSE thread[a]]
    /\ rec' = [a \in Acts |-> IF a \in InProcess(g) /\ rec[a] # "none" THEN "gone" ELSE rec[a]]
    /\ grace' = grace \ InProcess(g)
    /\ portDown' = [a \in Acts |-> IF a \in InProcess(g) THEN <<>> ELSE portDown[a]]
    /\ portUp' = [a \in Acts |-> IF a \in InProcess(g) THEN <<>> ELSE portUp[a]]

\* terminateWorkerInternal, up to the grace period
Terminating(a) ==
    /\ rec' = IF rec[a] \in {"starting", "ready"} THEN [rec EXCEPT ![a] = "terminating"] ELSE rec
    /\ grace' = IF rec[a] \in {"starting", "ready"} THEN grace \cup {a} ELSE grace
    /\ portDown' = IF rec[a] \in {"starting", "ready"}
                   THEN [portDown EXCEPT ![a] = Append(@, "terminate")] ELSE portDown

\* handleHostFrame
RuntimeReceives(g) ==
    /\ proc[g] = "up" /\ toRuntime[g] # <<>>
    /\ toRuntime' = [toRuntime EXCEPT ![g] = Tail(@)]
    /\ LET f == Head(toRuntime[g]) IN
         \/ /\ f.kind = "spawn"
            /\ rec' = [rec EXCEPT ![f.act] = "starting"]
            /\ thread' = [thread EXCEPT ![f.act] = "boot"]
            /\ UNCHANGED <<proc, grace, portDown, portUp>>
         \/ /\ f.kind = "graph"
            /\ portDown' = IF rec[f.act] \in {"starting", "ready", "terminating", "terminated"}
                           THEN [portDown EXCEPT ![f.act] = Append(@, "graph")] ELSE portDown
            /\ UNCHANGED <<proc, rec, thread, grace, portUp>>
         \/ /\ f.kind = "terminate"
            /\ Terminating(f.act)
            /\ UNCHANGED <<proc, thread, portUp>>
         \/ /\ f.kind = "TERMINATE"     \* shutdownAndExit
            /\ Dies(g)
    /\ UNCHANGED <<hostVars, toHost, lost, miscounted, faults>>

\* The process crashes or is killed
Crash(g) ==
    /\ proc[g] = "up" /\ faults < MaxFaults
    /\ faults' = faults + 1
    /\ Dies(g)
    /\ UNCHANGED <<hostVars, toRuntime, toHost, lost, miscounted>>

\* worker-bootstrap.mjs: lockdown is over, or a message is handled
WorkerRuns(a) ==
    /\ \/ /\ thread[a] = "boot"
          /\ thread' = [thread EXCEPT ![a] = "ready"]
          /\ portUp' = [portUp EXCEPT ![a] = Append(@, "ready")]
          /\ UNCHANGED portDown
       \/ /\ thread[a] \in {"ready", "loaded"} /\ portDown[a] # <<>>
          /\ portDown' = [portDown EXCEPT ![a] = Tail(@)]
          /\ \/ /\ Head(portDown[a]) = "graph"
                /\ thread' = [thread EXCEPT ![a] = "loaded"]
                /\ \E m \in {"loaded", "error"} : portUp' = [portUp EXCEPT ![a] = Append(@, m)]
             \/ /\ Head(portDown[a]) = "terminate"
                /\ thread' = [thread EXCEPT ![a] = "exited"]
                /\ portUp' = [portUp EXCEPT ![a] = Append(@, "ack")]
    /\ UNCHANGED <<hostVars, proc, toRuntime, toHost, rec, grace, lost, miscounted, faults>>

\* The thread ends by itself, or the grace period of terminateWorkerInternal
\* is over
ThreadEnds(a) ==
    /\ thread[a] \in {"boot", "ready", "loaded"}
    /\ thread' = [thread EXCEPT ![a] = "exited"]
    /\ UNCHANGED <<hostVars, proc, toRuntime, toHost, rec, grace, portDown, portUp, lost, miscounted>>
ThreadDies(a) == faults < MaxFaults /\ faults' = faults + 1 /\ ThreadEnds(a)
GraceOver(a) == a \in grace /\ ThreadEnds(a) /\ UNCHANGED faults

\* handleHardenedReady: the record is ready whatever it was before
HardenedReady(a) ==
    /\ rec' = [rec EXCEPT ![a] = "ready"]
    /\ toHost' = Pushed(acts[a].gen, "ready", a)

\* wire: a message of the worker
SupervisorReceives(a) ==
    /\ portUp[a] # <<>> /\ rec[a] \notin {"none", "gone"}
    /\ portUp' = [portUp EXCEPT ![a] = Tail(@)]
    /\ \/ Head(portUp[a]) = "ready" /\ HardenedReady(a)
       \/ /\ Head(portUp[a]) \in {"loaded", "error"}
          /\ toHost' = Pushed(acts[a].gen, Head(portUp[a]), a)
          /\ UNCHANGED rec
       \/ /\ Head(portUp[a]) = "ack"
          /\ rec' = IF rec[a] = "terminating" THEN [rec EXCEPT ![a] = "terminated"] ELSE rec
          /\ UNCHANGED toHost
    /\ miscounted' = IF Head(portUp[a]) = "ack" /\ rec[a] # "terminating"
                     THEN miscounted \cup {a} ELSE miscounted
    /\ UNCHANGED <<hostVars, proc, toRuntime, thread, grace, portDown, lost, faults>>

\* wire: the thread has exited; what it posted has been delivered
ThreadExitSeen(a) ==
    /\ thread[a] = "exited" /\ portUp[a] = <<>> /\ rec[a] \notin {"none", "gone"}
    /\ rec' = [rec EXCEPT ![a] = "gone"]
    /\ grace' = grace \ {a}
    /\ portDown' = [portDown EXCEPT ![a] = <<>>]
    /\ toHost' = Pushed(acts[a].gen, "terminated", a)
    /\ lost' = (lost \/ Len(toHost[acts[a].gen]) >= MaxFrames)
    /\ UNCHANGED <<hostVars, proc, toRuntime, thread, portUp, miscounted, faults>>

-----------------------------------------------------------------------------
RuntimeNext ==
    \/ \E a \in Acts : \/ \E p \in RPlugins : Activate(a, p)
                       \/ BuildFails(a) \/ Build(a) \/ ActTimeout(a)
                       \/ WorkerRuns(a) \/ ThreadDies(a) \/ GraceOver(a)
                       \/ SupervisorReceives(a) \/ ThreadExitSeen(a)
    \/ \E g \in Gens : \/ StartDone(g) \/ StartFails(g) \/ HostReceives(g) \/ ExitSeen(g)
                       \/ RuntimeReceives(g) \/ Crash(g)
    \/ \E p \in RPlugins : Deactivate(p)
    \/ Shutdown

RuntimeSpec == RuntimeInit /\ [][RuntimeNext]_runtimeVars

\* What goes on by itself: event loops, pipes and timers.  A plugin's own
\* code may hang, so a worker's steps are not among them.
RuntimeRuns ==
    \/ \E a \in Acts : \/ BuildFails(a) \/ Build(a) \/ ActTimeout(a)
                       \/ SupervisorReceives(a) \/ GraceOver(a) \/ ThreadExitSeen(a)
    \/ \E g \in Gens : \/ StartDone(g) \/ StartFails(g) \/ HostReceives(g) \/ ExitSeen(g)
                       \/ RuntimeReceives(g)

-----------------------------------------------------------------------------
(* Properties. *)

\* A worker the service lists is one of the runtime process it talks to:
\* handleRuntimeExit, shutdown and the late frames of an older process leave
\* no worker behind that a deactivate could not reach.  (A process that was
\* forgotten while it was starting becomes the client all the same, and so may
\* one that was started after it.)
WorkersReachable == startCut # {} \/ \A a \in workers : client # 0 /\ acts[a].gen = client

\* The index by plugin names a listed worker of that plugin, and unless two
\* activations of the plugin overlapped (the `already-active` check comes
\* before the awaits) every listed worker is the one its plugin is indexed by.
IndexAgrees ==
    /\ \A p \in RPlugins : pluginWorkers[p] # 0 =>
         pluginWorkers[p] \in workers /\ acts[pluginWorkers[p]].plugin = p
    /\ \A a \in workers : pluginWorkers[acts[a].plugin] = a \/ acts[a].plugin \in overlapped

\* Every call of activate is answered: loaded, refused, timed out or rejected
\* by the exit of the process, also when frames are lost; a shutdown in the
\* meantime may leave it without an answer.
ActivationSettles == \A a \in Acts :
    Waiting(a) ~> acts[a].st \in {"active", "failed"} \/ "shutdown" \in startCut

\* A worker whose activation failed does not go on running.  (After a shutdown
\* the exit of the old process may reset the host under a new one.)
FailedWorkerEnds == \A a \in Acts :
    acts[a].st = "failed" ~> thread[a] \in {"none", "exited"} \/ shutdowns > 0

\* Once the supervisor has been asked to end a worker, the service stops
\* listing it, unless the frame that says so was lost or a shutdown cut a start.
TerminatedUnlisted == \A a \in Acts :
    a \in grace ~> a \notin workers \/ lost \/ "shutdown" \in startCut

\* vnextRuntime.ts, shuttingDown: "the exit event of that process is graceful
\* and must not be treated as a crash": an exit of a process that is not the
\* client's leaves the client alone.
OldExitHarmless == [][\A g \in Gens :
    (proc[g] = "dead" /\ proc'[g] = "gone" /\ client \notin {0, g}) => client' = client]_runtimeVars

\* supervisor.ts, wire: "Mark the exit as expected so it is not counted as a
\* restart."
AckedNotCounted == miscounted = {}

\* The service's two tables, in one.
WorkersTracked == WorkersReachable /\ IndexAgrees

\* Ends, in one: an activation is answered, and a worker that failed or was
\* asked to end goes, in the runtime and in the service's list.
WorkersEnd == ActivationSettles /\ FailedWorkerEnds /\ TerminatedUnlisted
=============================================================================
