----------------------------- MODULE BrokerCalls ----------------------------
(***************************************************************************)
(* A backend plugin's calls of the host: the worker                        *)
(* (apps/plugin-runtime/worker-bootstrap.mjs) posts a call to the runtime  *)
(* process, whose forwarding core (broker/hostForwardingCore.ts) admits it *)
(* and relays it to the host (server/src/plugin/vnextBrokerHost.ts and     *)
(* broker/capabilityBroker.ts); the answer comes back in a control frame,  *)
(* in one data frame or as a credit stream (host/responseStreamer.ts).     *)
(*                                                                         *)
(* Frames keep their order per pipe.  Every call is of one capability of   *)
(* one plugin.                                                             *)
(***************************************************************************)
EXTENDS Integers, Sequences, SequencesExt, FiniteSetsExt

CONSTANTS
    BCalls,        \* calls
    MaxInflight,   \* maxInflight of the forwarding core
    MaxOutbox,     \* maxPending of the control outbox
    MaxQueued,     \* DATA_OUT_MAX_QUEUED_FRAMES
    MaxStreams,    \* RPC_STREAM_MAX_CONCURRENT
    Chunks,        \* frames of a streamed answer
    NoCall         \* the frame is about no call

ASSUME BrokerAssumption ==
    /\ Chunks \in Nat /\ Chunks > 1
    /\ MaxInflight \in Nat /\ MaxOutbox \in Nat /\ MaxQueued \in Nat /\ MaxStreams \in Nat

VARIABLES
    large,       \* calls whose arguments need the data pipe
    outcome,     \* the worker's promise: idle, pending, ok or failed
    posted,      \* calls on their way to the runtime
    inFlight,    \* the forwarding core's calls
    controlUp,   \* control outbox of the runtime
    dataUp,      \* data outbox of the runtime
    hostCalls,   \* calls the host decides
    controlDown, \* control frames of the host
    dataDown,    \* data frames of the host
    port,        \* messages of the runtime for the worker
    streams,     \* the host's response streams: chunks sent
    credits,     \* stream credits on their way to the host
    parts,       \* the worker's accumulators: chunks received
    denied,      \* who has revoked the capability: host, runtime
    workerUp,    \* the worker is alive
    refused,     \* history: large calls whose frame was not queued
    cut          \* history: calls that a revocation ended

brokerCallVars == <<large, outcome, posted, inFlight, controlUp, dataUp, hostCalls, controlDown,
                    dataDown, port, streams, credits, parts, denied, workerUp, refused, cut>>
brokerHostVars == <<hostCalls, streams>>
downVars == <<controlDown, dataDown>>
upVars == <<controlUp, dataUp>>
pastVars == <<large, refused, cut>>

BrokerInit ==
    /\ large \in SUBSET BCalls
    /\ outcome = [c \in BCalls |-> "idle"]
    /\ posted = {} /\ inFlight = {}
    /\ controlUp = <<>> /\ dataUp = <<>> /\ controlDown = <<>> /\ dataDown = <<>> /\ port = <<>>
    /\ hostCalls = {} /\ streams = [c \in {} |-> 0] /\ credits = <<>>
    /\ parts = [c \in {} |-> 0]
    /\ denied = {} /\ workerUp = TRUE
    /\ refused = {} /\ cut = {}

Msg(kind, c) == [kind |-> kind, call |-> c, seq |-> 0]
Without(f, c) == [d \in DOMAIN f \ {c} |-> f[d]]
With(f, c, n) == [d \in DOMAIN f \cup {c} |-> IF d = c THEN n ELSE f[d]]

-----------------------------------------------------------------------------
(* The worker.                                                             *)

InvokeBrokerCall(c) ==
    /\ workerUp /\ outcome[c] = "idle"
    /\ outcome' = [outcome EXCEPT ![c] = "pending"]
    /\ posted' = posted \cup {c}
    /\ UNCHANGED <<inFlight, upVars, brokerHostVars, downVars, port, credits, parts, denied, workerUp,
                   pastVars>>

\* The caller's signal: nobody else is told.
CallerAborts(c) ==
    /\ outcome[c] = "pending"
    /\ outcome' = [outcome EXCEPT ![c] = "failed"]
    /\ UNCHANGED <<posted, inFlight, upVars, brokerHostVars, downVars, port, credits, parts, denied,
                   workerUp, pastVars>>

\* handleRpcResponse: a late answer finds no pending call.
Settled(c, result) == IF outcome[c] = "pending" THEN [outcome EXCEPT ![c] = result] ELSE outcome

\* handleRpcResponseStream: parts in sequence, a credit for each but the last.
OnPart(m) ==
    LET c == m.call
    IN  IF outcome[c] # "pending" THEN UNCHANGED <<outcome, parts, credits>>
        ELSE IF (c \notin DOMAIN parts /\ m.seq # 0)
                \/ (c \in DOMAIN parts /\ m.seq # parts[c])
        THEN /\ outcome' = Settled(c, "failed") /\ parts' = Without(parts, c)
             /\ UNCHANGED credits
        ELSE IF m.seq = Chunks - 1
        THEN /\ outcome' = Settled(c, "ok") /\ parts' = Without(parts, c)
             /\ UNCHANGED credits
        ELSE /\ parts' = With(parts, c, m.seq + 1)
             /\ credits' = Append(credits, c)
             /\ UNCHANGED outcome
WorkerReceives ==
    /\ workerUp /\ port # <<>> /\ port' = Tail(port)
    /\ LET m == Head(port)
       IN  IF m.kind = "part" THEN OnPart(m)
           ELSE outcome' = Settled(m.call, m.kind) /\ UNCHANGED <<parts, credits>>
    /\ UNCHANGED <<posted, inFlight, upVars, brokerHostVars, downVars, denied, workerUp, pastVars>>

-----------------------------------------------------------------------------
(* The runtime process.                                                    *)

\* admitAndRegister; then the frame is pushed to an outbox that drops it when
\* it is full.  Of the data outbox the core does not see the refusal.
Forward(c) ==
    IF c \in large
    THEN /\ dataUp' = IF Len(dataUp) < MaxQueued THEN Append(dataUp, c) ELSE dataUp
         /\ refused' = IF Len(dataUp) < MaxQueued THEN refused ELSE refused \cup {c}
         /\ UNCHANGED controlUp
    ELSE /\ controlUp' = IF Len(controlUp) < MaxOutbox THEN Append(controlUp, c) ELSE controlUp
         /\ UNCHANGED <<dataUp, refused>>
Admits(c) == "runtime" \notin denied /\ Cardinality(inFlight) < MaxInflight
Submit(c) ==
    /\ c \in posted /\ posted' = posted \ {c}
    /\ IF Admits(c)
       THEN inFlight' = inFlight \cup {c} /\ Forward(c) /\ UNCHANGED port
       ELSE /\ port' = Append(port, Msg("failed", c))
            /\ UNCHANGED <<inFlight, controlUp, dataUp, refused>>
    /\ UNCHANGED <<outcome, brokerHostVars, downVars, credits, parts, denied, workerUp, cut, large>>

\* The deadline timer of an admitted call.
RuntimeDeadline_Small(c) ==
    /\ c \in inFlight \ large /\ inFlight' = inFlight \ {c}
    /\ port' = Append(port, Msg("failed", c))
    /\ UNCHANGED <<outcome, posted, upVars, brokerHostVars, downVars, credits, parts, denied, workerUp,
                   pastVars>>
RuntimeDeadline(c) ==
    /\ c \in inFlight /\ inFlight' = inFlight \ {c}
    /\ port' = Append(port, Msg("failed", c))
    /\ UNCHANGED <<outcome, posted, upVars, brokerHostVars, downVars, credits, parts, denied, workerUp,
                   pastVars>>

\* A revocation ends what is in flight, in the order of the map.
AbortInFlight_Silent(cs) == inFlight' = inFlight \ cs /\ UNCHANGED port
AbortInFlight(cs) ==
    /\ inFlight' = inFlight \ cs
    /\ port' = port \o [i \in 1 .. Cardinality(cs) |-> Msg("failed", SetToSeq(cs)[i])]

\* A control frame of the host: an answer that is still awaited, or a
\* revocation.
RuntimeControl ==
    /\ controlDown # <<>> /\ controlDown' = Tail(controlDown)
    /\ LET m == Head(controlDown)
       IN  IF m.kind = "revoke"
           THEN /\ denied' = denied \cup {"runtime"}
                /\ AbortInFlight(inFlight)
                /\ cut' = cut \cup {c \in inFlight : /\ outcome[c] = "pending"
                                                   /\ \A i \in DOMAIN port : port[i].call # c}
           ELSE /\ IF m.call \in inFlight
                   THEN inFlight' = inFlight \ {m.call} /\ port' = Append(port, m)
                   ELSE UNCHANGED <<inFlight, port>>
                /\ UNCHANGED <<denied, cut>>
    /\ UNCHANGED <<outcome, posted, upVars, brokerHostVars, dataDown, credits, parts, workerUp, refused,
                   large>>

\* Data frames pass the forwarding core by, unless the worker is gone.
RuntimeData ==
    /\ dataDown # <<>> /\ dataDown' = Tail(dataDown)
    /\ port' = IF workerUp THEN Append(port, Head(dataDown)) ELSE port
    /\ UNCHANGED <<outcome, posted, inFlight, upVars, brokerHostVars, controlDown, credits, parts, denied,
                   workerUp, pastVars>>

\* The worker exits: abortWorker, and its promises go with it.
WorkerExits ==
    /\ workerUp /\ workerUp' = FALSE
    /\ inFlight' = {} /\ posted' = {} /\ port' = <<>> /\ credits' = <<>>
    /\ outcome' = [c \in BCalls |-> IF outcome[c] = "pending" THEN "failed" ELSE outcome[c]]
    /\ parts' = [c \in {} |-> 0]
    /\ UNCHANGED <<upVars, brokerHostVars, downVars, denied, pastVars>>

-----------------------------------------------------------------------------
(* The host.                                                               *)

Reply(kind, c) == controlDown' = Append(controlDown, Msg(kind, c)) /\ UNCHANGED dataDown

\* submit of the host's core: a revoked or denied call fails at once.
Receive(c) ==
    \/ /\ "host" \in denied /\ Reply("failed", c) /\ UNCHANGED hostCalls
    \/ /\ "host" \notin denied /\ hostCalls' = hostCalls \cup {c} /\ UNCHANGED downVars
BrokerReceives ==
    /\ \/ /\ controlUp # <<>> /\ Receive(Head(controlUp))
          /\ controlUp' = Tail(controlUp) /\ UNCHANGED dataUp
       \/ /\ dataUp # <<>> /\ Receive(Head(dataUp))
          /\ dataUp' = Tail(dataUp) /\ UNCHANGED controlUp
    /\ UNCHANGED <<outcome, posted, inFlight, port, streams, credits, parts, denied, workerUp,
                   pastVars>>

\* sendRpcResponse: by size; begin refuses a stream too many.
SendPart(c, n) == dataDown' = Append(dataDown, [kind |-> "part", call |-> c, seq |-> n])
Respond(c) ==
    \/ \E kind \in {"ok", "failed"} : Reply(kind, c) /\ UNCHANGED streams
    \/ /\ dataDown' = Append(dataDown, Msg("ok", c)) /\ UNCHANGED <<controlDown, streams>>
    \/ /\ Cardinality(DOMAIN streams) >= MaxStreams
       /\ Reply("failed", c) /\ UNCHANGED streams
    \/ /\ Cardinality(DOMAIN streams) < MaxStreams
       /\ SendPart(c, 0) /\ streams' = With(streams, c, 1)
       /\ UNCHANGED controlDown
HostResponds(c) ==
    /\ c \in hostCalls /\ hostCalls' = hostCalls \ {c}
    /\ Respond(c)
    /\ UNCHANGED <<outcome, posted, inFlight, upVars, port, credits, parts, denied, workerUp,
                   pastVars>>

\* grant: the next chunk; the stream ends with the last.
Granted(c) ==
    /\ SendPart(c, streams[c])
    /\ streams' = IF streams[c] = Chunks - 1 THEN Without(streams, c)
                  ELSE With(streams, c, streams[c] + 1)
CreditArrives ==
    /\ credits # <<>> /\ credits' = Tail(credits)
    /\ IF Head(credits) \in DOMAIN streams THEN Granted(Head(credits))
       ELSE UNCHANGED <<dataDown, streams>>
    /\ UNCHANGED <<outcome, posted, inFlight, upVars, hostCalls, controlDown, port, parts, denied,
                   workerUp, pastVars>>

\* revoke: the operations under way are asked to stop and answer in any way;
\* the runtime is told.
RevokeCapability ==
    /\ "host" \notin denied /\ denied' = denied \cup {"host"}
    /\ controlDown' = Append(controlDown, [kind |-> "revoke", call |-> NoCall, seq |-> 0])
    /\ UNCHANGED <<outcome, posted, inFlight, upVars, brokerHostVars, dataDown, port, credits, parts,
                   workerUp, pastVars>>

-----------------------------------------------------------------------------

\* Pipes, timers and the host's operations, which all end.
BrokerRuns ==
    \/ WorkerReceives \/ RuntimeControl \/ RuntimeData \/ BrokerReceives \/ CreditArrives
    \/ \E c \in BCalls : Submit(c) \/ HostResponds(c)
BrokerNext ==
    \/ BrokerRuns \/ RevokeCapability \/ WorkerExits
    \/ \E c \in BCalls : InvokeBrokerCall(c) \/ CallerAborts(c) \/ RuntimeDeadline(c)

BrokerSpec == BrokerInit /\ [][BrokerNext]_brokerCallVars

-----------------------------------------------------------------------------

\* A call settles once: an answer that comes after a deadline, a revocation
\* or an abort of the caller does not change what the plugin saw.
CallSettlesOnce ==
    [][\A c \in BCalls : outcome[c] \in {"ok", "failed"} => outcome'[c] = outcome[c]]_brokerCallVars

\* A call that a revocation ended in the runtime does not succeed, whatever
\* answer is under way on the pipe that passes the forwarding core by.
CutFails == \A c \in cut : outcome[c] # "ok"

\* A streamed answer arrives in order and without a gap.
StreamWhole ==
    \A i \in DOMAIN port : port[i].kind = "part" /\ outcome[port[i].call] = "pending" =>
        LET c == port[i].call
            earlier == {j \in 1 .. i - 1 : port[j].kind = "part" /\ port[j].call = c}
        IN  port[i].seq = Cardinality(earlier) + (IF c \in DOMAIN parts THEN parts[c] ELSE 0)

\* Every call settles, although both outboxes drop frames when they are full.
CallsSettle == \A c \in BCalls : outcome[c] = "pending" ~> outcome[c] # "pending"

\* "A congested outbox fails the call with backpressure" (runtime-main.ts):
\* a call whose frame was not queued is not left to its deadline.
BackpressureFails == refused \cap inFlight = {}

\* A stream belongs to a call that somebody still waits for, once nothing of
\* it is under way.
StreamsReleased ==
    posted = {} /\ port = <<>> /\ dataDown = <<>> /\ credits = <<>> =>
        \A c \in DOMAIN streams : outcome[c] = "pending"

\* Answers, in one: none after a revocation, and no torn stream.
AnswersSound == CutFails /\ StreamWhole

\* Calls, in one: each settles, and once.
CallsSettled == CallSettlesOnce /\ CallsSettle
=============================================================================
