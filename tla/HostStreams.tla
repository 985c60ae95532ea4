----------------------------- MODULE HostStreams ----------------------------
(***************************************************************************)
(* The hosts that serve the durable event log of generation runs: pollers  *)
(* of the desktop WebView (adapters/tauri-local) and workers of the HTTP   *)
(* adapter (adapters/remote-http) with the desktop service that starts and *)
(* stops it (adapters/desktop-remote).  All share one mutex around the     *)
(* kernel handle.                                                          *)
(*                                                                         *)
(* A call of the kernel takes the mutex and waits for the writer thread.   *)
(* The writer answers a unary call at its next step boundary, so that call *)
(* is one step here; it answers a start only when no other run executes,   *)
(* so a start is two, with the mutex held between them.  `Generation` has  *)
(* the writer in full; of a run, only the status and the length of its log *)
(* are kept.  Sequence numbers count from 0 and the terminal event is the  *)
(* last.  The rate limiter is left out (the desktop service configures     *)
(* none), as are CORS, envelopes and their decoding.                       *)
(***************************************************************************)
EXTENDS Integers, FiniteSets

CONSTANTS
    Workers,     \* threads of the HTTP adapter
    Pollers,     \* threads of the WebView's streams
    RemoteRuns, LocalRuns,   \* runs started over HTTP, and by the WebView
    Creds,       \* pairing credentials, in the order they are issued
    MaxStreams,  \* config.max_streams
    PageLimit,   \* STREAM_PAGE_LIMIT
    Plans,       \* what a behaviour holds: the runs asked for, how many events a
                 \* run commits before its terminal one, and how many cancels,
                 \* discards, deletes, faults, leaves, revocations and stops occur
    NoRun, NoCred, NoReader

ASSUME HostStreamsAssumption ==
    /\ IsFiniteSet(Workers)
    /\ Workers \cap Pollers = {} /\ RemoteRuns \cap LocalRuns = {}
    /\ NoRun \notin RemoteRuns \cup LocalRuns
    /\ NoCred \notin Creds /\ NoReader \notin Workers \cup Pollers
    /\ {MaxStreams, PageLimit} \subseteq Nat \ {0}
    /\ Plans \subseteq
         [runs : SUBSET (RemoteRuns \cup LocalRuns), events : Nat, upsets : Nat]

Readers == Workers \cup Pollers
Runs    == RemoteRuns \cup LocalRuns

VARIABLES
    row,      \* status of each run
    size,     \* number of events each run has committed
    purged,   \* runs whose log was discarded
    exec,     \* the run the writer thread executes
    opener,   \* the reader that holds the kernel mutex for a start
    reader,   \* each thread and the stream it serves
    raised,   \* local runs whose CancellationFlag is set
    unheeded, \* history: local runs of which a poller's call of the kernel failed
    slots,    \* Shared.streams
    adapter,  \* RemoteAccessService: "off", "on", "draining", "abandoned"
    cred,     \* the pairing stores
    client,   \* what the consumer of each run has received
    plan      \* the member of Plans, with the upsets that are left

kernelVars  == <<row, size, purged, exec>>
serviceVars == <<adapter, cred>>
hostVars    == <<row, size, purged, exec, opener, reader, raised, unheeded,
                 slots, adapter, cred, client, plan>>

Free ==
    [pc |-> "free", mode |-> "none", run |-> NoRun, last |-> -1, batch |-> 0,
     fin |-> "no", cred |-> NoCred, old |-> FALSE, gone |-> FALSE,
     asked |-> FALSE, late |-> 0]

HostInit ==
    /\ row = [r \in Runs |-> "absent"] /\ size = [r \in Runs |-> 0]
    /\ purged = {} /\ exec = NoRun /\ opener = NoReader
    /\ reader = [w \in Readers |-> Free]
    /\ raised = {} /\ unheeded = {} /\ slots = 0 /\ adapter = "off" /\ plan \in Plans
    /\ cred = [c \in Creds |-> "unused"]
    /\ client = [r \in Runs |-> [seen |-> {}, lastId |-> -1, told |-> "open"]]

Busy(w)   == reader[w].pc # "free"
Ended(r)  == row[r] \in {"completed", "recoverable"}
KernelFree == opener = NoReader
Upset     == plan.upsets > 0 /\ plan' = [plan EXCEPT !.upsets = @ - 1]
Rows(r)   == IF r \in purged \/ row[r] = "deleted" THEN {} ELSE 0..(size[r] - 1)

-----------------------------------------------------------------------------
(* The writer thread.  A commit appends events; the last one sets the      *)
(* status in the same transaction.  An executor whose transaction fails,   *)
(* as it does once its row is deleted, leaves the row as it is.            *)

CommitEvent ==
    /\ exec # NoRun /\ row[exec] = "active" /\ size[exec] < plan.events
    /\ size' = [size EXCEPT ![exec] = @ + 1]
    /\ UNCHANGED <<row, purged, exec, opener, reader, raised, unheeded, slots, client, serviceVars, plan>>

CommitTerminal(status) ==
    /\ exec # NoRun /\ row[exec] \in {"active", "cancelling"}
    /\ row[exec] = "cancelling" => status = "recoverable"
    /\ size' = [size EXCEPT ![exec] = @ + 1]
    /\ row' = [row EXCEPT ![exec] = status]
    /\ exec' = NoRun
    /\ UNCHANGED <<purged, opener, reader, raised, unheeded, slots, client, serviceVars, plan>>

ExecutorFails ==
    /\ exec # NoRun
    /\ exec' = NoRun
    /\ IF row[exec] = "deleted" THEN UNCHANGED plan ELSE Upset
    /\ UNCHANGED <<row, size, purged, opener, reader, raised, unheeded, slots, client, serviceVars>>

ExecutorEnds ==
    ExecutorFails \/ \E status \in {"completed", "recoverable"} : CommitTerminal(status)

(* Unary operations of other callers, through the same mutex. *)
CancelledRows(r) ==
    IF row[r] = "active" THEN [row EXCEPT ![r] = "cancelling"] ELSE row

UserCancels(r) ==
    /\ KernelFree /\ row[r] = "active"
    /\ row' = CancelledRows(r)
    /\ Upset
    /\ UNCHANGED <<size, purged, exec, opener, reader, raised, unheeded, slots, client, serviceVars>>

UserDiscards(r) ==
    /\ KernelFree /\ row[r] = "recoverable" /\ r \notin purged
    /\ purged' = purged \cup {r}
    /\ Upset
    /\ UNCHANGED <<row, size, exec, opener, reader, raised, unheeded, slots, client, serviceVars>>

UserDeletes(r) ==
    /\ KernelFree /\ row[r] \notin {"absent", "deleted"}
    /\ row' = [row EXCEPT ![r] = "deleted"]
    /\ Upset
    /\ UNCHANGED <<size, purged, exec, opener, reader, raised, unheeded, slots, client, serviceVars>>

-----------------------------------------------------------------------------
(* Opening a stream.                                                       *)

Opening(mode, r, c) ==
    [Free EXCEPT !.pc = "lock", !.mode = mode, !.run = r, !.cred = c]

(* Requests wait in one queue: which idle worker takes one is all the same. *)
IdleWorker == CHOOSE w \in Workers : ~Busy(w)

(* gate_request.  A revocation while the body is read is left to the first *)
(* recheck of the stream.                                                  *)
GateAdmits(c) == adapter = "on" /\ cred[c] = "live"

Admitted_OneMore(w, opening) ==
    /\ GateAdmits(opening.cred) /\ ~Busy(w) /\ w = IdleWorker
    /\ slots' = slots + 1
    /\ reader' = [reader EXCEPT ![w] =
                    IF slots > MaxStreams THEN [Free EXCEPT !.pc = "over"] ELSE opening]

(* The stream cap: one fetch_add, undone when the count it returns is at    *)
(* the cap.  The worker is held for the whole stream.                       *)
Admitted(w, opening) ==
    /\ GateAdmits(opening.cred) /\ ~Busy(w) /\ w = IdleWorker
    /\ slots' = slots + 1
    /\ reader' = [reader EXCEPT ![w] =
                    IF slots >= MaxStreams THEN [Free EXCEPT !.pc = "over"] ELSE opening]

Refuse(w) ==
    /\ reader[w].pc = "over"
    /\ slots' = IF reader[w].old THEN slots ELSE slots - 1
    /\ reader' = [reader EXCEPT ![w] = Free]
    /\ UNCHANGED <<kernelVars, opener, raised, unheeded, client, serviceVars, plan>>

(* generation.start over HTTP, and its resumption: generation.events from   *)
(* the id of the last event the client received.  The client knows the run  *)
(* by its events.                                                           *)
OpenLive(w, r, c) ==
    /\ r \in plan.runs /\ row[r] = "absent"
    /\ \A v \in Workers : reader[v].run # r
    /\ Admitted(w, Opening("live", r, c))
    /\ UNCHANGED <<kernelVars, opener, raised, unheeded, client, serviceVars, plan>>

OpenResume(w, r, c) ==
    /\ client[r].seen # {} /\ client[r].told # "closed"
    /\ \A v \in Workers : reader[v].run = r => reader[v].gone
    /\ Admitted(w, [Opening("resume", r, c) EXCEPT !.pc = "check", !.last = client[r].lastId])
    /\ UNCHANGED <<kernelVars, opener, raised, unheeded, client, serviceVars, plan>>

(* kernel_stream_start of the WebView: no gate, no cap. *)
OpenLocal(w, r) ==
    /\ ~Busy(w) /\ r \in plan.runs /\ row[r] = "absent"
    /\ \A v \in Pollers : reader[v].run # r
    /\ reader' = [reader EXCEPT ![w] = Opening("local", r, NoCred)]
    /\ UNCHANGED <<kernelVars, opener, raised, unheeded, slots, client, serviceVars, plan>>

(* kernel.lock() and dispatch_stream: the command is sent, and waits. *)
TakeLock(w) ==
    /\ reader[w].pc = "lock" /\ KernelFree
    /\ opener' = w
    /\ reader' = [reader EXCEPT ![w].pc = "starting"]
    /\ UNCHANGED <<kernelVars, raised, unheeded, slots, client, serviceVars, plan>>

(* What becomes of the slot when the thread is done with the stream.       *)
Released(w) ==
    IF w \in Workers /\ ~reader[w].old THEN slots - 1 ELSE slots

(* The writer takes the start up: the run exists and executes.  A worker   *)
(* whose client is gone fails to write the head and ends.  Or the request  *)
(* is refused and answered as an error.                                    *)
Launch(w) ==
    LET headFails == w \in Workers /\ reader[w].gone
    IN  /\ opener = w /\ exec = NoRun
        /\ opener' = NoReader
        /\ exec' = reader[w].run
        /\ row' = [row EXCEPT ![reader[w].run] = "active"]
        /\ slots' = IF headFails THEN Released(w) ELSE slots
        /\ reader' = [reader EXCEPT ![w] =
                        IF headFails THEN Free ELSE [@ EXCEPT !.pc = "check"]]
        /\ UNCHANGED <<size, purged, raised, unheeded, client, serviceVars, plan>>

LaunchRefused(w) ==
    /\ opener = w /\ exec = NoRun
    /\ opener' = NoReader
    /\ slots' = Released(w)
    /\ reader' = [reader EXCEPT ![w] = Free]
    /\ Upset
    /\ UNCHANGED <<kernelVars, raised, unheeded, client, serviceVars>>

(* The thread of the poller cannot be spawned: abort_stream raises the     *)
(* flag, which the provider sees.                                          *)
SpawnFails(w) ==
    /\ w \in Pollers /\ opener = w /\ exec = NoRun
    /\ opener' = NoReader
    /\ exec' = reader[w].run
    /\ row' = [row EXCEPT ![reader[w].run] = "active"]
    /\ raised' = raised \cup {reader[w].run}
    /\ reader' = [reader EXCEPT ![w] = Free]
    /\ Upset
    /\ UNCHANGED <<size, purged, unheeded, slots, client, serviceVars>>

-----------------------------------------------------------------------------
(* One round of a worker: produce_next_batch and the write of its frames.  *)

(* is_live in the pairing store of the stream's own adapter. *)
LiveCred(c) == cred[c] \in {"live", "stale"}

Recheck_AtOpen(w) ==
    /\ w \in Workers /\ reader[w].pc = "check"
    /\ reader' = [reader EXCEPT ![w].pc = "poll"]
    /\ UNCHANGED <<kernelVars, opener, raised, unheeded, slots, client, serviceVars, plan>>

Recheck(w) ==
    /\ w \in Workers /\ reader[w].pc = "check"
    /\ reader' = [reader EXCEPT ![w] =
                    IF LiveCred(reader[w].cred) THEN [@ EXCEPT !.pc = "poll"]
                    ELSE [@ EXCEPT !.pc = "write", !.fin = "error"]]
    /\ UNCHANGED <<kernelVars, opener, raised, unheeded, slots, client, serviceVars, plan>>

(* generation.events after the cursor: the sequence number of the last row *)
(* of the page, and whether that row is the terminal event.                *)
PageEnd(w) ==
    LET r == reader[w].run
        page == {s \in Rows(r) : s > reader[w].last /\ s <= reader[w].last + PageLimit}
    IN  IF page = {} THEN reader[w].last ELSE CHOOSE s \in page : \A t \in page : t <= s

TerminalAt(r, s) == Ended(r) /\ s \in Rows(r) /\ s = size[r] - 1

Poll(w) ==
    LET rd == reader[w]
        to == PageEnd(w)
        some == to > rd.last
        closes == some /\ TerminalAt(rd.run, to)
    IN  /\ w \in Workers /\ rd.pc = "poll" /\ KernelFree
        /\ reader' = [reader EXCEPT ![w] =
             IF row[rd.run] = "deleted"
             THEN [rd EXCEPT !.pc = "write", !.fin = "error"]
             ELSE [rd EXCEPT !.last = to, !.batch = to - rd.last,
                             !.fin = IF closes THEN "closed" ELSE "no",
                             !.pc = IF some THEN "write"
                                    ELSE IF rd.mode = "resume" THEN "probe" ELSE "check"]]
        /\ UNCHANGED <<kernelVars, opener, raised, unheeded, slots, client, serviceVars, plan>>

(* run_finished: generation.get under a lock of its own. *)
Probe(w) ==
    /\ reader[w].pc = "probe" /\ KernelFree
    /\ reader' = [reader EXCEPT ![w] =
                    IF Ended(reader[w].run)
                    THEN [@ EXCEPT !.pc = "write", !.fin = "closed"]
                    ELSE [@ EXCEPT !.pc = "check"]]
    /\ UNCHANGED <<kernelVars, opener, raised, unheeded, slots, client, serviceVars, plan>>

(* The client has got the first k events of the batch.  It resumes from    *)
(* the id of the last event frame.                                         *)
Got(w, k) ==
    LET rd == reader[w]
        first == rd.last - rd.batch + 1
    IN  [client EXCEPT ![rd.run].seen = @ \cup first..(first + k - 1),
                       ![rd.run].lastId = IF k > 0 THEN first + k - 1 ELSE @]

Told(w) ==
    [Got(w, reader[w].batch) EXCEPT ![reader[w].run].told =
       IF reader[w].fin = "no" THEN @ ELSE reader[w].fin]

Write(w) ==
    /\ w \in Workers /\ reader[w].pc = "write" /\ ~reader[w].gone
    /\ client' = Told(w)
    /\ slots' = IF reader[w].fin = "no" THEN slots ELSE Released(w)
    /\ reader' = [reader EXCEPT ![w] =
                    IF reader[w].fin # "no" THEN Free
                    ELSE [@ EXCEPT !.pc = "check", !.batch = 0,
                            !.late = reader[w].late +
                                       IF cred[reader[w].cred] = "revoked" THEN 1 ELSE 0]]
    /\ UNCHANGED <<kernelVars, opener, raised, unheeded, serviceVars, plan>>

(* A write error drops the stream; the run goes on. *)
WriteFails(w) ==
    /\ w \in Workers /\ reader[w].pc = "write" /\ reader[w].gone
    /\ slots' = Released(w)
    /\ reader' = [reader EXCEPT ![w] = Free]
    /\ UNCHANGED <<kernelVars, opener, raised, unheeded, client, serviceVars, plan>>

(* The consumer goes away, with part of what was being written. *)
ClientLeaves(w) ==
    /\ Busy(w) /\ reader[w].pc # "over" /\ ~reader[w].gone
    /\ \E k \in 0..(IF reader[w].pc = "write" THEN reader[w].batch ELSE 0) :
         client' = Got(w, k)
    /\ reader' = [reader EXCEPT ![w].gone = TRUE]
    /\ Upset
    /\ UNCHANGED <<kernelVars, opener, raised, unheeded, slots, serviceVars>>

-----------------------------------------------------------------------------
(* One round of a poller of the WebView (poll_loop).                       *)

Abort(r) ==
    /\ r \notin raised
    /\ \E w \in Pollers : reader[w].run = r /\ reader[w].pc \notin {"lock", "starting"}
    /\ raised' = raised \cup {r}
    /\ Upset
    /\ UNCHANGED <<kernelVars, opener, reader, unheeded, slots, client, serviceVars>>

(* generation.cancel of a poller, dispatched once.  Its error is ignored:  *)
(* when the transaction fails the row stays as it is.                      *)
CancelOnce(r) ==
    \/ /\ row' = CancelledRows(r)
       /\ UNCHANGED <<unheeded, plan>>
    \/ /\ Upset /\ unheeded' = unheeded \cup {r}
       /\ UNCHANGED row

LocalCheck(w) ==
    LET cancels == reader[w].run \in raised /\ ~reader[w].asked
    IN  /\ w \in Pollers /\ reader[w].pc = "check"
        /\ IF cancels THEN KernelFree /\ CancelOnce(reader[w].run)
           ELSE UNCHANGED <<row, unheeded, plan>>
        /\ reader' = [reader EXCEPT ![w].pc = "poll", ![w].asked = @ \/ cancels]
        /\ UNCHANGED <<size, purged, exec, opener, raised, slots, client, serviceVars>>

(* The page cannot be read: the poller sends the end-of-stream value, as   *)
(* it does after the terminal event, and ends without a cancel.            *)
Closes(w) ==
    /\ reader' = [reader EXCEPT ![w] = Free]
    /\ client' = [client EXCEPT ![reader[w].run].told =
                    IF reader[w].gone THEN @ ELSE "closed"]

LocalPoll(w) ==
    LET rd == reader[w]
        to == PageEnd(w)
        some == to > rd.last
        closes == some /\ TerminalAt(rd.run, to)
    IN  /\ w \in Pollers /\ rd.pc = "poll" /\ KernelFree
        /\ IF row[rd.run] = "deleted" THEN Closes(w)
           ELSE /\ reader' = [reader EXCEPT ![w] =
                     [rd EXCEPT !.last = to, !.batch = to - rd.last,
                                !.fin = IF closes THEN "closed" ELSE "no",
                                !.pc = IF some THEN "write" ELSE "check"]]
                /\ UNCHANGED client
        /\ UNCHANGED <<kernelVars, opener, raised, unheeded, slots, serviceVars, plan>>

LocalPollFails(w) ==
    /\ w \in Pollers /\ reader[w].pc = "poll" /\ KernelFree
    /\ Upset /\ unheeded' = unheeded \cup {reader[w].run}
    /\ Closes(w)
    /\ UNCHANGED <<kernelVars, opener, raised, slots, serviceVars>>

(* Every event is emitted; after the terminal one the end-of-stream value. *)
Emit(w) ==
    /\ w \in Pollers /\ reader[w].pc = "write" /\ ~reader[w].gone
    /\ client' = Told(w)
    /\ reader' = [reader EXCEPT ![w] =
                    IF reader[w].fin # "no" THEN Free ELSE [@ EXCEPT !.pc = "check", !.batch = 0]]
    /\ UNCHANGED <<kernelVars, opener, raised, unheeded, slots, serviceVars, plan>>

(* The consumer is gone: cancel_once, and the poller ends either way.      *)
EmitFails(w) ==
    /\ w \in Pollers /\ reader[w].pc = "write" /\ reader[w].gone
    /\ IF reader[w].asked THEN UNCHANGED <<row, unheeded, plan>>
       ELSE KernelFree /\ CancelOnce(reader[w].run)
    /\ reader' = [reader EXCEPT ![w] = Free]
    /\ UNCHANGED <<size, purged, exec, opener, raised, slots, client, serviceVars>>

-----------------------------------------------------------------------------
(* The service: start, pair, revoke, stop.  A stop drains the workers      *)
(* within a budget and gives up on the rest; the adapter is forgotten      *)
(* either way.  A new adapter has a new pairing store and a new counter    *)
(* (and needs another port while abandoned workers hold the listener).     *)

StartRemote ==
    /\ adapter \in {"off", "abandoned"}
    /\ adapter' = "on"
    /\ cred' = [c \in Creds |-> IF cred[c] = "live" THEN "stale" ELSE cred[c]]
    /\ UNCHANGED <<kernelVars, opener, reader, raised, unheeded, slots, client, plan>>

Pair(c) ==
    /\ adapter = "on" /\ cred[c] = "unused"
    /\ c = CHOOSE d \in Creds : cred[d] = "unused"
    /\ cred' = [cred EXCEPT ![c] = "live"]
    /\ UNCHANGED <<kernelVars, opener, reader, raised, unheeded, slots, client, adapter, plan>>

Revoke(c) ==
    /\ adapter = "on" /\ cred[c] = "live"
    /\ cred' = [cred EXCEPT ![c] = "revoked"]
    /\ Upset
    /\ UNCHANGED <<kernelVars, opener, reader, raised, unheeded, slots, client, adapter>>

Serving(w) == w \in Workers /\ Busy(w) /\ ~reader[w].old

StopRemote ==
    /\ adapter = "on"
    /\ Upset /\ adapter' = "draining"
    /\ UNCHANGED <<kernelVars, opener, reader, raised, unheeded, slots, client, cred>>

Drained ==
    /\ adapter = "draining" /\ \A w \in Workers : ~Serving(w)
    /\ adapter' = "off"
    /\ UNCHANGED <<kernelVars, opener, reader, raised, unheeded, slots, client, cred, plan>>

DrainTimesOut ==
    /\ adapter = "draining" /\ \E w \in Workers : Serving(w)
    /\ adapter' = "abandoned"
    /\ reader' = [w \in Readers |->
                    IF Serving(w) THEN [reader[w] EXCEPT !.old = TRUE] ELSE reader[w]]
    /\ slots' = 0
    /\ UNCHANGED <<kernelVars, opener, raised, unheeded, client, cred, plan>>

-----------------------------------------------------------------------------

StreamStep(w) ==
    \/ Refuse(w) \/ TakeLock(w)
    \/ Recheck(w) \/ Poll(w) \/ Probe(w) \/ Write(w) \/ WriteFails(w)
    \/ LocalCheck(w) \/ LocalPoll(w) \/ LocalPollFails(w) \/ Emit(w) \/ EmitFails(w)

Started(w) == Launch(w) \/ LaunchRefused(w) \/ SpawnFails(w)

HostNext ==
    \/ CommitEvent \/ ExecutorEnds
    \/ \E r \in Runs : UserCancels(r) \/ UserDiscards(r) \/ UserDeletes(r) \/ Abort(r)
    \/ \E w \in Workers, r \in RemoteRuns, c \in Creds : OpenLive(w, r, c) \/ OpenResume(w, r, c)
    \/ \E w \in Pollers, r \in LocalRuns : OpenLocal(w, r)
    \/ \E w \in Readers : StreamStep(w) \/ Started(w) \/ ClientLeaves(w)
    \/ StartRemote \/ StopRemote \/ Drained \/ DrainTimesOut
    \/ \E c \in Creds : Pair(c) \/ Revoke(c)

HostSpec == HostInit /\ [][HostNext]_hostVars

-----------------------------------------------------------------------------
HasSlot(w) == Serving(w) /\ reader[w].pc # "over"

(* On every connection and across resumptions the consumer of a run gets   *)
(* its events in order and without a gap (SSE frames and IPC messages of   *)
(* poll_events, cursor last_sent; wire-contracts.md, SSE framing).         *)
NoGap ==
    \A r \in Runs : client[r].seen = 0..client[r].lastId

(* A started stream is told that it is complete only with the terminal     *)
(* event, the last of the log.  A resumed one may be told so too early:    *)
(* its run can commit that event between the poll and run_finished.        *)
LiveCloseIsWhole ==
    \A w \in Workers :
      reader[w].mode = "live" /\ reader[w].fin = "closed" =>
        /\ row[reader[w].run] \notin {"active", "cancelling"}
        /\ reader[w].last = size[reader[w].run] - 1

(* Shared.streams counts the streams of the adapter that are open, however *)
(* they end, and never lets more than max_streams of them be served.       *)
SlotsExact ==
    /\ slots = Cardinality({w \in Workers : Serving(w)})
    /\ Cardinality({w \in Workers : HasSlot(w)}) <= MaxStreams

(* Once its credential is revoked a stream writes at most one more batch.  *)
RevocationPrompt == \A w \in Workers : reader[w].late <= 1

(* A stop that succeeds leaves no worker behind.                           *)
CleanStopIsQuiet == adapter = "off" => \A w \in Workers : ~Serving(w)

HostStreamsSound ==
    NoGap /\ LiveCloseIsWhole /\ SlotsExact /\ RevocationPrompt /\ CleanStopIsQuiet

(* What a document says of resumption, and the code does not keep.         *)
(* generation-durability.md: "resume can only repeat, never lose or        *)
(* reorder"; run_finished: "the log holds no more events".  A client that  *)
(* is told its stream is closed has every event of the log.                *)
ClosedIsComplete ==
    \A r \in RemoteRuns :
      client[r].told = "closed" => Rows(r) \subseteq client[r].seen

(* A WebView stream leaves its run running only when the kernel failed it: *)
(* when the poller ends after it ran (poll_loop: "A consumer error or      *)
(* abort dispatches generation.cancel once"), the run has ended, is        *)
(* deleted or is being cancelled, or a cancel or a poll of this stream     *)
(* failed, whose errors poll_loop ignores.                                 *)
NeverAbandoned ==
    [][\A w \in Pollers :
         Busy(w) /\ reader[w].pc # "starting" /\ reader'[w] = Free =>
           row'[reader[w].run] # "active" \/ reader[w].run \in unheeded']_hostVars

(* Streams end: with a revoked credential, and with the terminal event in *)
(* the log; and a start is answered, the mutex given back.                 *)
Due(w) ==
    \/ reader[w].pc = "starting"
    \/ w \in Workers /\ Busy(w) /\ reader[w].cred # NoCred /\ cred[reader[w].cred] = "revoked"
    \/ reader[w].run # NoRun /\ Ended(reader[w].run) /\ reader[w].run \notin purged

DueStreamsEnd == (\E w \in Readers : Due(w)) ~> (\A w \in Readers : ~Due(w))

(* Streams end, and end well.                                              *)
StreamsLetGo == NeverAbandoned /\ DueStreamsEnd
=============================================================================
