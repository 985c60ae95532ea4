---------------------------- MODULE RouteStreams ----------------------------
(***************************************************************************)
(* HTTP requests that a backend plugin answers: the dispatcher and         *)
(* BackendProcess of apps/server/src/plugin/backendHost.ts on one side of  *)
(* an IPC channel, apps/server/worker/plugin-worker.mjs on the other.      *)
(*                                                                         *)
(* A handler answers with a plain result or with a streamed body: the      *)
(* worker sends chunks within a window of unacknowledged bytes, the host   *)
(* writes them to a bounded pipe and acknowledges what the pipe accepts,   *)
(* the rest when it drains.  Requests end by a result, the end or an error *)
(* of the stream, the quota, the deadline, the client going away, or the   *)
(* death of the worker.  All chunks have one size, the unit of every       *)
(* count.  The pipe (a PassThrough) and what Fastify does when a client    *)
(* goes away are external: a pipe whose consumer is gone is destroyed.     *)
(***************************************************************************)
EXTENDS Integers, Sequences, FiniteSets

CONSTANTS
    Invs,        \* invocations
    Bodies,      \* the lengths a streamed body may have
    Window,      \* STREAM_WINDOW_BYTES
    HighWater,   \* STREAM_HIGH_WATER_BYTES
    Quota        \* MAX_STREAM_BODY_BYTES

ASSUME RouteStreamsAssumption ==
    /\ Bodies \subseteq Nat
    /\ Window \in Nat \ {0} /\ HighWater \in Nat \ {0} /\ Quota \in Nat

VARIABLES
    entry,     \* invocations: what is pending, with its deadline and abort listener
    body,      \* streamBodies
    request,   \* the HTTP side of each invocation
    worker,    \* the worker's side of each invocation
    toWorker, toHost,   \* the IPC channel
    alive      \* the worker process

streamVars == <<entry, body, request, worker, toWorker, toHost, alive>>

NoEntry == [pending |-> FALSE, timer |-> FALSE]
NoBody  == [open |-> FALSE, got |-> 0, buffered |-> 0, credit |-> 0]

StreamInit ==
    /\ entry = [i \in Invs |-> NoEntry]
    /\ body = [i \in Invs |-> NoBody]
    /\ request = [i \in Invs |-> [st |-> "none", pipe |-> "none", client |-> TRUE]]
    /\ worker = [i \in Invs |-> [st |-> "none", aborted |-> FALSE, stop |-> FALSE,
                                 unread |-> 0, len |-> 0, inFlight |-> 0]]
    /\ toWorker = <<>> /\ toHost = <<>> /\ alive = TRUE

Ipc(t, i, n) == [t |-> t, i |-> i, n |-> n]

(* safeSend: nothing is sent to a process that exited. *)
Sent(m) == IF alive THEN Append(toWorker, m) ELSE toWorker

-----------------------------------------------------------------------------
(* The host.                                                               *)

(* The dispatcher calls invoke(): the deadline and the abort listener are  *)
(* armed and the request goes to the worker.                               *)
Invoke(i) ==
    /\ request[i].st = "none" /\ alive
    /\ request' = [request EXCEPT ![i].st = "waiting"]
    /\ entry' = [entry EXCEPT ![i] = [pending |-> TRUE, timer |-> TRUE]]
    /\ toWorker' = Sent(Ipc("invoke", i, 0))
    /\ UNCHANGED <<body, worker, toHost, alive>>

(* The client closes its connection.  The dispatcher listens for it only   *)
(* until reply.send returns; the abort reaches the worker, and the         *)
(* invocation stays pending.                                               *)
ClientLeaves(i) ==
    /\ request[i].client /\ request[i].st \in {"waiting", "streaming"}
    /\ request' = [request EXCEPT ![i].client = FALSE,
                       ![i].pipe = IF @ = "open" THEN "destroyed" ELSE @]
    /\ toWorker' = IF request[i].st = "waiting" THEN Sent(Ipc("abort", i, 0)) ELSE toWorker
    /\ UNCHANGED <<entry, body, worker, toHost, alive>>

(* The deadline of an invocation that was neither answered nor opened. *)

Deadline(i) ==
    /\ entry[i].timer
    /\ entry' = [entry EXCEPT ![i] = NoEntry]
    /\ request' = [request EXCEPT ![i].st = "failed"]
    /\ toWorker' = Sent(Ipc("abort", i, 0))
    /\ UNCHANGED <<body, worker, toHost, alive>>

(* route.result *)
OnResult(i) ==
    /\ IF entry[i].pending
       THEN /\ entry' = [entry EXCEPT ![i] = NoEntry]
            /\ request' = [request EXCEPT ![i].st = "answered"]
       ELSE UNCHANGED <<entry, request>>
    /\ UNCHANGED <<body, toWorker>>

(* onStreamOpen: dropped when nothing is pending; otherwise the deadline   *)
(* is released, the request resolves with the pipe and its reply starts.   *)
OnOpen(i) ==
    /\ IF entry[i].pending /\ ~body[i].open
       THEN /\ entry' = [entry EXCEPT ![i].timer = FALSE]
            /\ body' = [body EXCEPT ![i].open = TRUE]
            /\ request' = [request EXCEPT ![i].st = "streaming",
                               ![i].pipe = IF request[i].client THEN "open" ELSE "destroyed"]
       ELSE UNCHANGED <<entry, body, request>>
    /\ UNCHANGED toWorker

(* The stream's entries go and its pipe ends or breaks (onStreamEnd,       *)
(* onStreamError, failStreamBody).                                         *)
Closed(i, pipe) ==
    /\ body' = [body EXCEPT ![i].open = FALSE]
    /\ entry' = [entry EXCEPT ![i] = NoEntry]
    /\ request' = [request EXCEPT ![i].pipe = IF @ = "open" THEN pipe ELSE @,
                       ![i].st = IF pipe = "destroyed" THEN "failed" ELSE @]

(* onStreamChunk *)

OnChunk_QuotaQuiet(i) ==
    IF ~body[i].open THEN UNCHANGED <<entry, body, request, toWorker>>
    ELSE IF body[i].got + 1 > Quota
    THEN Closed(i, "destroyed") /\ UNCHANGED toWorker
    ELSE IF request[i].pipe = "destroyed"
    THEN /\ body' = [body EXCEPT ![i].got = @ + 1]
         /\ UNCHANGED <<entry, request, toWorker>>
    ELSE LET accepted == body[i].buffered + 1 < HighWater
         IN  /\ body' = [body EXCEPT ![i].got = @ + 1, ![i].buffered = @ + 1,
                             ![i].credit = IF accepted THEN @ ELSE @ + 1]
             /\ toWorker' = IF accepted THEN Sent(Ipc("ack", i, 1)) ELSE toWorker
             /\ UNCHANGED <<entry, request>>

OnChunk(i) ==
    IF ~body[i].open THEN UNCHANGED <<entry, body, request, toWorker>>
    ELSE IF body[i].got + 1 > Quota
    THEN Closed(i, "destroyed") /\ toWorker' = Sent(Ipc("abort", i, 0))
    ELSE IF request[i].pipe = "destroyed"
    THEN /\ body' = [body EXCEPT ![i].got = @ + 1]
         /\ UNCHANGED <<entry, request, toWorker>>
    ELSE LET accepted == body[i].buffered + 1 < HighWater
         IN  /\ body' = [body EXCEPT ![i].got = @ + 1, ![i].buffered = @ + 1,
                             ![i].credit = IF accepted THEN @ ELSE @ + 1]
             /\ toWorker' = IF accepted THEN Sent(Ipc("ack", i, 1)) ELSE toWorker
             /\ UNCHANGED <<entry, request>>

(* onStreamEnd, onStreamError *)
OnClose(i, pipe) ==
    /\ IF body[i].open THEN Closed(i, pipe) ELSE UNCHANGED <<body, entry, request>>
    /\ UNCHANGED toWorker

(* BackendProcess.onMessage *)
HostGets ==
    /\ toHost # <<>> /\ toHost' = Tail(toHost)
    /\ LET m == Head(toHost) IN
           CASE m.t = "result" -> OnResult(m.i)
             [] m.t = "open"   -> OnOpen(m.i)
             [] m.t = "chunk"  -> OnChunk(m.i)
             [] m.t = "end"    -> OnClose(m.i, "ended")
             [] m.t = "error"  -> OnClose(m.i, "destroyed")
    /\ UNCHANGED <<worker, alive>>

(* The client takes a chunk; a pipe that had refused one and is now empty  *)
(* drains, and what was held back is acknowledged.  The end of the pipe    *)
(* follows its last chunk.                                                 *)
ClientReads(i) ==
    /\ request[i].client /\ request[i].pipe \in {"open", "ended"}
    /\ \/ /\ body[i].buffered > 0
          /\ LET drained == body[i].buffered = 1 /\ body[i].open /\ body[i].credit > 0 IN
             /\ body' = [body EXCEPT ![i].buffered = @ - 1,
                             ![i].credit = IF drained THEN 0 ELSE @]
             /\ toWorker' = IF drained THEN Sent(Ipc("ack", i, body[i].credit)) ELSE toWorker
          /\ UNCHANGED request
       \/ /\ body[i].buffered = 0 /\ request[i].pipe = "ended" /\ request[i].st = "streaming"
          /\ request' = [request EXCEPT ![i].st = "answered"]
          /\ UNCHANGED <<body, toWorker>>
    /\ UNCHANGED <<entry, worker, toHost, alive>>

-----------------------------------------------------------------------------
(* The worker.                                                             *)

Handling(i) == worker[i].st \in {"handling", "pumping"}

WorkerGets ==
    /\ toWorker # <<>> /\ alive /\ toWorker' = Tail(toWorker)
    /\ LET m == Head(toWorker) i == m.i IN
       worker' = [worker EXCEPT ![i] =
           CASE m.t = "invoke" -> [@ EXCEPT !.st = "handling"]
             [] m.t = "abort" /\ Handling(i) /\ ~worker[i].aborted ->
                    [@ EXCEPT !.aborted = TRUE, !.stop = (worker[i].st = "pumping")]
             [] m.t = "ack" /\ worker[i].st = "pumping" ->
                    [@ EXCEPT !.inFlight = IF @ > m.n THEN @ - m.n ELSE 0]
             [] OTHER -> @]
    /\ UNCHANGED <<entry, body, request, toHost, alive>>

Said(i, t, w) ==
    /\ alive /\ toHost' = Append(toHost, Ipc(t, i, 0))
    /\ worker' = [worker EXCEPT ![i] = w]
    /\ UNCHANGED <<entry, body, request, toWorker, alive>>

(* The handler returns a plain value, or throws. *)
HandlerAnswers(i) ==
    worker[i].st = "handling" /\ Said(i, "result", [worker[i] EXCEPT !.st = "done"])

(* The handler returns a stream: pumpRouteStream announces it and listens  *)
(* for an abort from now on.                                               *)
HandlerStreams(i) ==
    /\ worker[i].st = "handling"
    /\ \E n \in Bodies : Said(i, "open", [worker[i] EXCEPT !.st = "pumping", !.len = n, !.unread = n])

(* drainBodyQueue: one chunk, within the window. *)
Pump(i) ==
    /\ worker[i].st = "pumping" /\ ~worker[i].stop /\ worker[i].unread > 0
    /\ worker[i].inFlight + 1 <= Window
    /\ Said(i, "chunk", [worker[i] EXCEPT !.unread = @ - 1, !.inFlight = @ + 1])

PumpEnds_Early(i) ==
    /\ worker[i].st = "pumping" /\ ~worker[i].stop
    /\ Said(i, "end", [worker[i] EXCEPT !.st = "done"])

PumpEnds(i) ==
    /\ worker[i].st = "pumping" /\ ~worker[i].stop /\ worker[i].unread = 0
    /\ Said(i, "end", [worker[i] EXCEPT !.st = "done"])

(* Reading the plugin's stream throws. *)
PumpFails(i) ==
    /\ worker[i].st = "pumping" /\ ~worker[i].stop
    /\ Said(i, "error", [worker[i] EXCEPT !.st = "done"])

PumpStops(i) ==
    /\ worker[i].st = "pumping" /\ worker[i].stop /\ alive
    /\ worker' = [worker EXCEPT ![i].st = "done"]
    /\ UNCHANGED <<entry, body, request, toWorker, toHost, alive>>

(* The worker dies; failAll destroys every pipe and rejects what is        *)
(* pending.                                                                *)
WorkerDies ==
    /\ alive /\ alive' = FALSE
    /\ toWorker' = <<>> /\ toHost' = <<>>
    /\ entry' = [i \in Invs |-> NoEntry]
    /\ body' = [i \in Invs |-> [body[i] EXCEPT !.open = FALSE]]
    /\ request' = [i \in Invs |->
           [request[i] EXCEPT
               !.pipe = IF body[i].open THEN "destroyed" ELSE @,
               !.st = IF entry[i].pending THEN "failed" ELSE @]]
    /\ worker' = [i \in Invs |-> [worker[i] EXCEPT !.st = "done"]]

StreamRuns ==
    \/ HostGets \/ WorkerGets
    \/ \E i \in Invs : Deadline(i) \/ PumpStops(i)

StreamNext ==
    \/ HostGets \/ WorkerGets \/ WorkerDies
    \/ \E i \in Invs :
           \/ Invoke(i) \/ ClientLeaves(i) \/ ClientReads(i) \/ Deadline(i)
           \/ HandlerAnswers(i) \/ HandlerStreams(i)
           \/ Pump(i) \/ PumpEnds(i) \/ PumpFails(i) \/ PumpStops(i)

RouteSpec == StreamInit /\ [][StreamNext]_streamVars

-----------------------------------------------------------------------------
ChunksOnWay(i) == Cardinality({k \in DOMAIN toHost : toHost[k].t = "chunk" /\ toHost[k].i = i})

(* A body is never cut silently: the pipe reaches its regular end only     *)
(* when everything the plugin's stream held was received, whatever was     *)
(* aborted, stalled or torn down on the way.                               *)
NoSilentTruncation ==
    \A i \in Invs : request[i].pipe = "ended" => body[i].got = worker[i].len

(* What a slow client makes the host hold is bounded: the chunks in the    *)
(* channel and in the pipe never exceed the window and the high-water mark *)
(* together, though every acknowledgement is delayed arbitrarily.          *)
HostBuffersBounded ==
    \A i \in Invs : ChunksOnWay(i) + body[i].buffered < Window + HighWater

(* Every request is answered or fails: the deadline, the exit of the       *)
(* worker, or its answer, in any order.                                    *)
InvocationSettles ==
    \A i \in Invs : (request[i].st = "waiting") ~> (request[i].st # "waiting")

(* A stream the host opened and gave up stops in the worker: "abort the    *)
(* worker's pump so its credit stall cannot leak a pending route handler". *)
TeardownStopsPump ==
    \A i \in Invs :
        (/\ request[i].st = "failed" /\ request[i].pipe = "destroyed"
         /\ worker[i].st = "pumping") ~> (worker[i].st = "done")

(* The same for any request that failed.  One that timed out before its    *)
(* stream was announced never stops: the signal is already aborted when    *)
(* pumpRouteStream starts to listen for it, and no acknowledgement comes.  *)
FailureStopsPump ==
    \A i \in Invs :
        (request[i].st = "failed" /\ worker[i].st = "pumping") ~> (worker[i].st = "done")

(* onStreamOpen: "The abort listener stays attached so a client disconnect *)
(* tears the stream down".  The dispatcher removes the listener on the     *)
(* request when reply.send returns, so nothing does: a destroyed pipe      *)
(* acknowledges nothing, the worker stalls and both entries stay.          *)
DisconnectReleases ==
    \A i \in Invs : (~request[i].client /\ body[i].open) ~> ~body[i].open

(* Streamed bodies, in one: whole, and bounded in memory.                  *)
StreamsSound == NoSilentTruncation /\ HostBuffersBounded

(* Invocations end at the host, and those given up end in the worker too.  *)
StreamsEnd == InvocationSettles /\ TeardownStopsPump
=============================================================================
