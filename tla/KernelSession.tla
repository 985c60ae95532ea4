---------------------------- MODULE KernelSession ----------------------------
(***************************************************************************)
(* The RPC session of the plugin kernel                                    *)
(* (packages/plugin-sdk/src/kernel/session.ts): calls with deadlines and   *)
(* cancellation, and one credit-based byte stream, over a MessagePort.     *)
(*                                                                         *)
(* The class is symmetric.  Here side A calls and writes, side B serves    *)
(* and reads; the port keeps the order of each direction.                  *)
(***************************************************************************)
EXTENDS Integers, Sequences, SequencesExt, FiniteSetsExt

CONSTANTS
    Calls,        \* calls that side A makes
    Deadlined,    \* those with a deadlineMs
    Window,       \* limits.maxInFlightBytes
    MaxBuffered,  \* limits.maxBufferedBytesPerStream
    MaxTotal,     \* limits.maxTotalBytes
    Sizes,        \* sizes of the chunks the producer writes, in order
    MaxPort       \* bound: envelopes on the way in one direction

ASSUME SessionAssumption ==
    /\ Deadlined \subseteq Calls /\ Window \in Nat /\ MaxBuffered \in Nat
    /\ MaxTotal \in Nat /\ MaxPort \in Nat
    /\ \A i \in DOMAIN Sizes : Sizes[i] \in 1 .. Window

VARIABLES
    calls,      \* side A, per call: idle, pending or how it settled
    remote,     \* side B, per call: none, running, aborted or ended
    toB, toA,   \* the port: envelopes on the way
    downA, downB,  \* disposed
    out,        \* side A's outbound stream
    writer,     \* the producer: idle, or waiting for a drain
    in,         \* side B's inbound stream
    reader,     \* the consumer: idle, pulling, or what pull() ended with
    written,    \* history: chunks that write() has accepted
    read,       \* history: chunks that pull() has returned
    granted     \* history: bytes that side B has granted

sessionVars == <<calls, remote, toB, toA, downA, downB, out, writer, in, reader,
                 written, read, granted>>
rpcVars == <<calls, remote>>
streamVars == <<out, writer, in, reader, written, read, granted>>

Settled == {"ok", "failed", "cancelled", "deadline", "disposed"}

NoOut == [open |-> FALSE, credit |-> 0, queue |-> <<>>, queued |-> 0, seq |-> 0,
          sent |-> 0, ended |-> FALSE, errored |-> FALSE]
NoIn == [open |-> FALSE, known |-> FALSE, granted |-> 0, buffered |-> <<>>,
         next |-> 0, total |-> 0, ended |-> FALSE, failed |-> FALSE]

SessionInit ==
    /\ calls = [c \in Calls |-> "idle"]
    /\ remote = [c \in Calls |-> "none"]
    /\ toB = <<>> /\ toA = <<>>
    /\ downA = FALSE /\ downB = FALSE
    /\ out = NoOut /\ writer = "idle"
    /\ in = NoIn /\ reader = "idle"
    /\ written = <<>> /\ read = <<>> /\ granted = 0

\* send: a disposed session sends nothing; a closed port drops envelopes.
PostTo(queue, down, es) == IF down THEN queue ELSE queue \o es
PostB(es) == toB' = PostTo(toB, downA \/ downB, es)
PostA(es) == toA' = PostTo(toA, downA \/ downB, es)
PortSpace == Len(toB) < MaxPort /\ Len(toA) < MaxPort

RequestOf(c) == [kind |-> "rpc.request", call |-> c]
ResponseOf(c, ok) == [kind |-> "rpc.response", call |-> c, ok |-> ok]
CancelOf(c) == [kind |-> "rpc.cancel", call |-> c]
ChunkOf(seq, i) == [kind |-> "stream.chunk", seq |-> seq, chunk |-> i]
CreditOf(n) == [kind |-> "stream.credit", bytes |-> n]

-----------------------------------------------------------------------------
(* Calls.                                                                  *)

CallPeer(c) ==
    /\ calls[c] = "idle" /\ ~downA /\ PortSpace
    /\ calls' = [calls EXCEPT ![c] = "pending"]
    /\ PostB(<<RequestOf(c)>>)
    /\ UNCHANGED <<remote, toA, downA, downB, streamVars>>

\* The caller's signal: cancelRequest.
CancelRequest(c) ==
    /\ calls[c] = "pending" /\ PortSpace
    /\ calls' = [calls EXCEPT ![c] = "cancelled"]
    /\ PostB(<<CancelOf(c)>>)
    /\ UNCHANGED <<remote, toA, downA, downB, streamVars>>

\* The deadline timer of the caller; nothing is sent.
CallDeadline(c) ==
    /\ calls[c] = "pending" /\ c \in Deadlined
    /\ calls' = [calls EXCEPT ![c] = "deadline"]
    /\ UNCHANGED <<remote, toB, toA, downA, downB, streamVars>>

\* serveRequest: an expired deadline is answered without the handler.
ServeRequest(c) ==
    \/ /\ remote' = [remote EXCEPT ![c] = "running"] /\ UNCHANGED toA
    \/ /\ c \in Deadlined
       /\ remote' = [remote EXCEPT ![c] = "ended"]
       /\ PostA(<<ResponseOf(c, FALSE)>>)

\* The peer's own deadline timer aborts the handler's signal.
ServeDeadline(c) ==
    /\ remote[c] = "running" /\ c \in Deadlined
    /\ remote' = [remote EXCEPT ![c] = "aborted"]
    /\ UNCHANGED <<calls, toB, toA, downA, downB, streamVars>>

\* The handler returns or throws; a result after an abort is an error.
HandlerEnds(c) ==
    /\ remote[c] \in {"running", "aborted"} /\ PortSpace
    /\ \E ok \in BOOLEAN :
        /\ ok => remote[c] = "running"
        /\ PostA(<<ResponseOf(c, ok)>>)
    /\ remote' = [remote EXCEPT ![c] = "ended"]
    /\ UNCHANGED <<calls, toB, downA, downB, streamVars>>

\* A response settles a pending call and nothing else.
OnResponse(e) ==
    calls' = IF calls[e.call] = "pending"
             THEN [calls EXCEPT ![e.call] = IF e.ok THEN "ok" ELSE "failed"]
             ELSE calls

OnCancel_Ignored(e) == UNCHANGED remote
OnCancel(e) ==
    remote' = IF remote[e.call] = "running"
              THEN [remote EXCEPT ![e.call] = "aborted"] ELSE remote

-----------------------------------------------------------------------------
(* The stream.                                                             *)

OpenStream ==
    /\ out = NoOut /\ written = <<>> /\ ~downA /\ PortSpace
    /\ out' = [NoOut EXCEPT !.open = TRUE]
    /\ PostB(<<[kind |-> "stream.open"]>>)
    /\ UNCHANGED <<rpcVars, toA, downA, downB, writer, in, reader, written, read, granted>>

\* pumpOutbound sends the chunks at the head that fit the credit, then the
\* end, and otherwise wakes the producer.  Neither the credit nor the number
\* of queued bytes is reduced.
Fits(state, n) == \A i \in 1 .. n : Sizes[state.queue[i]] <= state.credit
Sendable(state) == Max({n \in 0 .. Len(state.queue) : Fits(state, n)})
Closes(state, n) == state.ended /\ n = Len(state.queue)
PumpSends_EndFirst(state) ==
    LET n == Sendable(state)
        chunks == [i \in 1 .. n |-> ChunkOf(state.seq + i - 1, state.queue[i])]
    IN  IF state.ended THEN <<[kind |-> "stream.end"]>> ELSE chunks
PumpSends(state) ==
    LET n == Sendable(state)
        chunks == [i \in 1 .. n |-> ChunkOf(state.seq + i - 1, state.queue[i])]
    IN  IF Closes(state, n) THEN Append(chunks, [kind |-> "stream.end"]) ELSE chunks
PumpState(state) ==
    LET n == Sendable(state)
    IN  [state EXCEPT !.queue = SubSeq(@, n + 1, Len(@)), !.seq = @ + n,
                      !.sent = @ + SumFunction([i \in 1 .. n |-> Sizes[state.queue[i]]]),
                      !.open = @ /\ ~Closes(state, n)]
PumpWakes(state) == ~Closes(state, Sendable(state)) /\ 2 * state.queued <= MaxBuffered

PumpOutbound(state) ==
    /\ out' = PumpState(state)
    /\ PostB(PumpSends(state))

\* A drain waiter is released: a full writer queues its chunk, one that
\* had queued it returns.
Woken == IF writer = "full" THEN "woken" ELSE "idle"

\* write: the chunk is queued, now or after a drain.
EnqueueChunk(i) ==
    LET state == [out EXCEPT !.queue = Append(@, i), !.queued = @ + Sizes[i]]
    IN  /\ written' = Append(written, i)
        /\ PumpOutbound(state)
        /\ writer' = IF state.queued > MaxBuffered /\ ~PumpWakes(state) THEN "drained" ELSE "idle"
WriteChunk ==
    /\ writer = "idle" /\ Len(written) < Len(Sizes) /\ PortSpace
    /\ out # NoOut /\ ~out.ended /\ ~out.errored
    /\ LET i == Len(written) + 1
       IN  IF out.queued + Sizes[i] > MaxBuffered
           THEN writer' = "full" /\ UNCHANGED <<out, toB, written>>
           ELSE EnqueueChunk(i)
    /\ UNCHANGED <<rpcVars, toA, downA, downB, in, reader, read, granted>>

WriteResumes ==
    /\ writer = "woken" /\ PortSpace
    /\ EnqueueChunk(Len(written) + 1)
    /\ UNCHANGED <<rpcVars, toA, downA, downB, in, reader, read, granted>>

\* end() and fail(), by a producer that awaits its writes.
EndStream ==
    /\ writer = "idle" /\ out # NoOut /\ ~out.ended /\ ~out.errored /\ PortSpace
    /\ IF out.queue = <<>>
       THEN /\ out' = [out EXCEPT !.ended = TRUE, !.open = FALSE]
            /\ PostB(<<[kind |-> "stream.end"]>>)
       ELSE out' = [out EXCEPT !.ended = TRUE] /\ UNCHANGED toB
    /\ UNCHANGED <<rpcVars, toA, downA, downB, writer, in, reader, written, read, granted>>
FailStream ==
    /\ out # NoOut /\ ~out.ended /\ ~out.errored /\ PortSpace
    /\ out' = [out EXCEPT !.errored = TRUE, !.open = FALSE]
    /\ PostB(<<[kind |-> "stream.error"]>>)
    /\ UNCHANGED <<rpcVars, toA, downA, downB, writer, in, reader, written, read, granted>>

OnCredit(e) ==
    IF ~out.open THEN UNCHANGED <<out, toB, writer>>
    ELSE LET state == [out EXCEPT !.credit = @ + e.bytes]
         IN  /\ PumpOutbound(state)
             /\ writer' = IF PumpWakes(state) THEN Woken ELSE writer

OnOpen ==
    /\ in' = [NoIn EXCEPT !.open = TRUE, !.known = TRUE, !.granted = Window]
    /\ granted' = Window
    /\ PostA(<<CreditOf(Window)>>)
    /\ UNCHANGED <<reader, read>>

\* A chunk out of order is dropped; too many bytes fail the stream.
FailedIn(state) == [state EXCEPT !.failed = TRUE, !.open = FALSE]
OnChunk(e) ==
    LET state == [in EXCEPT !.next = @ + 1, !.total = @ + Sizes[e.chunk],
                            !.granted = Max({0, @ - Sizes[e.chunk]})]
    IN  IF ~in.open \/ e.seq # in.next THEN UNCHANGED <<in, reader, read, granted, toA>>
        ELSE IF state.total > MaxTotal
        THEN /\ in' = FailedIn(state)
             /\ reader' = IF reader = "pulling" THEN "failed" ELSE reader
             /\ UNCHANGED <<read, granted, toA>>
        ELSE IF reader = "pulling"
        THEN /\ read' = Append(read, e.chunk)
             /\ reader' = "idle"
             /\ in' = [state EXCEPT !.granted = Window]
             /\ granted' = granted + Window - state.granted
             /\ PostA(IF Window > state.granted THEN <<CreditOf(Window - state.granted)>> ELSE <<>>)
        ELSE /\ in' = [state EXCEPT !.buffered = Append(@, e.chunk)]
             /\ UNCHANGED <<reader, read, granted, toA>>

OnEnd ==
    IF ~in.open THEN UNCHANGED <<in, reader>>
    ELSE /\ in' = [in EXCEPT !.ended = TRUE, !.open = FALSE]
         /\ reader' = IF reader = "pulling" THEN "ended" ELSE reader

OnError ==
    IF ~in.open THEN UNCHANGED <<in, reader>>
    ELSE /\ in' = FailedIn(in)
         /\ reader' = IF reader = "pulling" THEN "failed" ELSE reader

\* pull(): a buffered chunk and new credit, the error, the end, or a wait.
PullChunk ==
    /\ in.known /\ reader = "idle" /\ PortSpace
    /\ IF in.buffered # <<>>
       THEN /\ read' = Append(read, Head(in.buffered))
            /\ LET more == IF in.open THEN Window - in.granted ELSE 0
               IN  /\ in' = [in EXCEPT !.buffered = Tail(@), !.granted = @ + more]
                   /\ granted' = granted + more
                   /\ PostA(IF more > 0 THEN <<CreditOf(more)>> ELSE <<>>)
            /\ UNCHANGED reader
       ELSE /\ reader' = IF in.failed THEN "failed" ELSE IF in.ended THEN "ended" ELSE "pulling"
            /\ UNCHANGED <<in, read, granted, toA>>
    /\ UNCHANGED <<rpcVars, toB, downA, downB, out, writer, written>>

-----------------------------------------------------------------------------
(* The port, and disposal.                                                 *)

AtB ==
    /\ toB # <<>> /\ ~downB
    /\ toB' = Tail(toB)
    /\ LET e == Head(toB) IN
       \/ /\ e.kind = "rpc.request" /\ ServeRequest(e.call)
          /\ UNCHANGED <<calls, streamVars>>
       \/ /\ e.kind = "rpc.cancel" /\ OnCancel(e)
          /\ UNCHANGED <<calls, toA, streamVars>>
       \/ /\ e.kind = "stream.open" /\ OnOpen
          /\ UNCHANGED <<rpcVars, out, writer, written>>
       \/ /\ e.kind = "stream.chunk" /\ OnChunk(e)
          /\ UNCHANGED <<rpcVars, out, writer, written>>
       \/ /\ e.kind = "stream.end" /\ OnEnd
          /\ UNCHANGED <<rpcVars, toA, out, writer, written, read, granted>>
       \/ /\ e.kind = "stream.error" /\ OnError
          /\ UNCHANGED <<rpcVars, toA, out, writer, written, read, granted>>
    /\ UNCHANGED <<downA, downB>>

AtA ==
    /\ toA # <<>> /\ ~downA
    /\ toA' = Tail(toA)
    /\ LET e == Head(toA) IN
       \/ /\ e.kind = "rpc.response" /\ OnResponse(e)
          /\ UNCHANGED <<remote, toB, streamVars>>
       \/ /\ e.kind = "stream.credit" /\ OnCredit(e)
          /\ UNCHANGED <<rpcVars, in, reader, written, read, granted>>
    /\ UNCHANGED <<downA, downB>>

\* dispose on either side.  Envelopes already posted still arrive.
DisposeA ==
    /\ ~downA /\ downA' = TRUE
    /\ calls' = [c \in Calls |-> IF calls[c] = "pending" THEN "disposed" ELSE calls[c]]
    /\ writer' = Woken
    /\ out' = [out EXCEPT !.open = FALSE]
    /\ toA' = <<>>
    /\ UNCHANGED <<remote, toB, downB, in, reader, written, read, granted>>
DisposeB ==
    /\ ~downB /\ downB' = TRUE
    /\ remote' = [c \in Calls |-> IF remote[c] = "running" THEN "aborted" ELSE remote[c]]
    /\ in' = IF in.open THEN FailedIn(in) ELSE in
    /\ reader' = IF reader = "pulling" THEN "failed" ELSE reader
    /\ toB' = <<>>
    /\ UNCHANGED <<calls, toA, downA, out, writer, written, read, granted>>

SessionNext ==
    \/ \E c \in Calls :
        CallPeer(c) \/ CancelRequest(c) \/ CallDeadline(c) \/ ServeDeadline(c) \/ HandlerEnds(c)
    \/ OpenStream \/ WriteChunk \/ WriteResumes \/ EndStream \/ FailStream \/ PullChunk
    \/ AtA \/ AtB \/ DisposeA \/ DisposeB

SessionSpec == SessionInit /\ [][SessionNext]_sessionVars

-----------------------------------------------------------------------------

\* A call settles once: an answer that is late, after a cancel, a deadline or
\* a dispose, changes nothing (session.ts onMessage, rpc.response).
SettlesOnce ==
    [][\A c \in Calls : calls[c] \in Settled => calls'[c] = calls[c]]_sessionVars

\* A disposed session leaves no caller waiting.
DisposeSettles == downA => \A c \in Calls : calls[c] # "pending"

\* A handler whose caller gave up is told so, by the cancel envelope or by
\* its own deadline timer, however the envelopes and timers are ordered.
NoRunaway ==
    \A c \in Calls :
        calls[c] \in {"cancelled", "deadline"} ~> remote[c] # "running"

\* What pull() returns is what was written, in order and without gaps.
StreamInOrder == IsPrefix(read, written)

\* A reader that sees a clean end has read every chunk.
EndComplete == reader = "ended" => read = written

\* The producer never sends more bytes than the consumer has granted, as the
\* header of session.ts promises.
CreditRespected == out.sent <= granted

\* The session, in one: a reader gets what was written, whole and in order,
\* and a disposed side leaves nobody waiting.
SessionSound == StreamInOrder /\ EndComplete /\ DisposeSettles

\* A call settles once on its side and does not run on at the other.
CallsEndOnce == SettlesOnce /\ NoRunaway
=============================================================================
