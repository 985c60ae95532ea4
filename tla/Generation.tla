------------------------------ MODULE Generation ------------------------------
(***************************************************************************)
(* The durable generation workflow of the runtime kernel                   *)
(* (crates/runtime-kernel/src/generation.rs) on the kernel's writer thread *)
(* (crates/runtime-kernel/src/lib.rs).                                     *)
(*                                                                         *)
(* Clients call Kernel::dispatch / dispatch_stream, which put a command in *)
(* the writer's channel and block for the reply.  The writer thread owns   *)
(* the database.  It runs one generation at a time, inline, and between    *)
(* two provider steps it drains the channel: unary commands (cancel, keep, *)
(* discard, characters.delete) are executed there, stream commands wait    *)
(* in `pending`, a shutdown ends the run without a terminal event.         *)
(*                                                                         *)
(* One action is one database transaction together with the reads and the  *)
(* notices around it: no other process touches the database, and a crash   *)
(* between two transactions is the crash before the second.                *)
(***************************************************************************)
EXTENDS Integers, Sequences, FiniteSets

CONSTANTS
    RunIds,           \* ids that new_id() can return
    Chats,            \* chat ids; each chat has a character of its own
    Clients,          \* callers of the kernel handle
    None,             \* no run, no chat, no client
    CheckpointEvery,  \* a checkpoint follows every such delta; 4 in the code
    MaxDeltas,        \* bound: deltas one provider attempt emits
    MaxCommands,      \* bound: commands the clients dispatch
    MaxDrops,         \* bound: orderly shutdowns
    MaxCrashes,       \* bound: kills of the process
    MaxFaults         \* bound: transactions that fail

ASSUME NoneAssumption == None \notin RunIds \cup Chats \cup Clients
ASSUME BoundsAssumption ==
    /\ CheckpointEvery \in Nat \ {0}
    /\ MaxDeltas \in Nat
    /\ MaxCommands \in Nat
    /\ MaxDrops \in Nat
    /\ MaxCrashes \in Nat
    /\ MaxFaults \in Nat

VARIABLES
    chats,     \* durable: the chats that exist
    runs,      \* durable: generation_runs, one row per id
    events,    \* durable: generation_events, a set of events per run
    messages,  \* durable: messages, a set per chat
    mode,      \* "up" while the writer thread lives, else "down"
    dropped,   \* the last kernel handle is gone: Drop sent the shutdown
    queue,     \* the writer's command channel
    pending,   \* stream commands drained while a generation runs
    stop,      \* the writer loop's stop flag
    exec,      \* the inline executor: its position and its locals
    client,    \* whether a caller is blocked on its reply
    notices,   \* per run, what its notice channel has delivered
    issued, drops, crashes, faults  \* what the bounds have used up

durable == <<chats, runs, events, messages>>
volatile == <<mode, dropped, queue, pending, stop, exec, client, notices>>
budgets == <<issued, drops, crashes, faults>>
vars == <<chats, runs, events, messages, mode, dropped, queue, pending, stop,
          exec, client, notices, issued, drops, crashes, faults>>

-----------------------------------------------------------------------------
(* Statuses, rows, events.                                                 *)

Active == {"queued", "preparing", "streaming", "cancelling"}
Cancellable == {"queued", "preparing", "streaming"}
Terminal == {"completed", "failed", "cancelled", "interrupted"}
Recoverable == {"failed", "cancelled", "interrupted"}
\* Statuses whose commit appends a terminal event; recovery appends none.
Evented == {"completed", "failed", "cancelled"}

UnaryOps == {"cancel", "keep", "discard", "delete"}
StreamOps == {"start", "retry"}

\* A row that is not in the table: never inserted, or deleted with its chat.
AbsentRow == [status |-> "absent", chat |-> None, source |-> None,
              attempt |-> 0, revision |-> 0, cancelRequested |-> FALSE,
              lastSeq |-> -1, partial |-> 0, hasMessage |-> FALSE,
              lease |-> "null"]
DeletedRow == [AbsentRow EXCEPT !.status = "deleted"]

Exists(r) == runs[r].status \notin {"absent", "deleted"}
CancelPending_StatusOnly(row) == row.status = "cancelling"
CancelPending(row) == row.status = "cancelling" \/ row.cancelRequested

\* The columns each UPDATE of generation_runs sets; all take the revision
\* one further, and the executor's own refresh the lease.
CancelRequestedRow(row) ==
    [row EXCEPT !.status = "cancelling", !.cancelRequested = TRUE,
                !.revision = row.revision + 1]
KeptRow(row) ==
    [row EXCEPT !.hasMessage = TRUE, !.revision = row.revision + 1]
DiscardedRow(row) ==
    [row EXCEPT !.partial = 0, !.revision = row.revision + 1]
StatusRow(row, status) ==
    [row EXCEPT !.status = status, !.revision = row.revision + 1,
                !.lease = "live"]
DeltaRow(row, endSeq) ==
    [row EXCEPT !.lastSeq = endSeq, !.partial = row.partial + 1,
                !.revision = row.revision + 1, !.lease = "live"]
TerminalRow(row, status, seq) ==
    [row EXCEPT !.status = status, !.lastSeq = seq,
                !.hasMessage = row.hasMessage \/ status = "completed",
                !.revision = row.revision + 1, !.lease = "live"]
ReleasedRow(row) ==
    [row EXCEPT !.lease = "null", !.revision = row.revision + 1]
InterruptedRow(row) ==
    [row EXCEPT !.status = "interrupted", !.lease = "null",
                !.revision = row.revision + 1]
ExpiredRow(row) == [row EXCEPT !.lease = "expired"]

DeltaSeqs(log) == {e.seq : e \in {d \in log : d.type = "delta"}}

IdleExec == [pc |-> "idle", id |-> None, row |-> AbsentRow, emitted |-> 0]
NoNotice == [open |-> FALSE, through |-> -1, terminal |-> -1]

-----------------------------------------------------------------------------
(* Initial state: a fresh process over a data root with chats and no runs. *)

Init ==
    /\ chats = Chats
    /\ runs = [r \in RunIds |-> AbsentRow]
    /\ events = [r \in RunIds |-> {}]
    /\ messages = [c \in Chats |-> <<>>]
    /\ mode = "up"
    /\ dropped = FALSE
    /\ queue = <<>>
    /\ pending = <<>>
    /\ stop = FALSE
    /\ exec = IdleExec
    /\ client = [c \in Clients |-> "idle"]
    /\ notices = [r \in RunIds |-> NoNotice]
    /\ issued = 0
    /\ drops = 0
    /\ crashes = 0
    /\ faults = 0

-----------------------------------------------------------------------------
(* Callers.                                                                *)

\* A caller learns a run id from the stream that created it.  A stream
\* command is dispatched only while an id is left for its run.
IsStream(cmd) == cmd.op \in StreamOps
IdsLeft == Cardinality({r \in RunIds : runs[r].status = "absent"})
             > Len(SelectSeq(queue, IsStream)) + Len(pending)
Known == {r \in RunIds : runs[r].status # "absent"}
Targets(op) == IF op \in StreamOps /\ ~IdsLeft THEN {}
               ELSE IF op \in {"start", "delete"} THEN Chats ELSE Known

\* Kernel::dispatch and dispatch_stream: enqueue, then block on the reply.
Dispatch(c, op, target) ==
    /\ mode = "up" /\ ~dropped
    /\ client[c] = "idle"
    /\ issued < MaxCommands
    /\ queue' = Append(queue, [op |-> op, client |-> c, target |-> target])
    /\ client' = [client EXCEPT ![c] = "waiting"]
    /\ issued' = issued + 1
    /\ UNCHANGED <<durable, mode, dropped, pending, stop, exec, notices,
                   drops, crashes, faults>>

\* Drop for Kernel: a blocked caller still holds the handle, so none is.
DropKernel ==
    /\ mode = "up" /\ ~dropped
    /\ drops < MaxDrops
    /\ \A c \in Clients : client[c] = "idle"
    /\ queue' = Append(queue, [op |-> "shutdown", client |-> None,
                               target |-> None])
    /\ dropped' = TRUE
    /\ drops' = drops + 1
    /\ UNCHANGED <<durable, mode, pending, stop, exec, client, notices,
                   issued, crashes, faults>>

Reply(cmd) == client' = [client EXCEPT ![cmd.client] = "idle"]

-----------------------------------------------------------------------------
(* Unary operations on the database.                                       *)

CanCancel_AnyStatus(r) == Exists(r)
CanCancel(r) == runs[r].status \in Cancellable

GenerationCancel(r) ==
    /\ CanCancel(r)
    /\ runs' = [runs EXCEPT ![r] = CancelRequestedRow(runs[r])]
    /\ UNCHANGED <<chats, events, messages>>

CanKeep(r) == /\ runs[r].status \in Recoverable
              /\ ~runs[r].hasMessage
              /\ runs[r].partial > 0

\* The message sequence COALESCE(MAX(sequence), -1) + 1 is the position in
\* the chat: messages go only with their chat.
InsertMessage(r) ==
    messages' = [messages EXCEPT ![runs[r].chat] =
                   Append(@, [run |-> r, content |-> DeltaSeqs(events[r])])]

GenerationKeep(r) ==
    /\ CanKeep(r)
    /\ runs' = [runs EXCEPT ![r] = KeptRow(runs[r])]
    /\ InsertMessage(r)
    /\ UNCHANGED <<chats, events>>

CanDiscard_Completed(r) == runs[r].status \in Terminal
CanDiscard(r) == runs[r].status \in Recoverable

GenerationDiscard(r) ==
    /\ CanDiscard(r)
    /\ runs' = [runs EXCEPT ![r] = DiscardedRow(runs[r])]
    /\ events' = [events EXCEPT ![r] = {}]
    /\ UNCHANGED <<chats, messages>>

\* characters.delete: ON DELETE CASCADE takes the character's chat, its
\* messages, its runs and their events.
CharactersDelete(c) ==
    /\ c \in chats
    /\ chats' = chats \ {c}
    /\ messages' = [messages EXCEPT ![c] = <<>>]
    /\ runs' = [r \in RunIds |->
                  IF runs[r].chat = c THEN DeletedRow ELSE runs[r]]
    /\ events' = [r \in RunIds |->
                    IF runs[r].chat = c THEN {} ELSE events[r]]

\* Not found, wrong state, no partial output, or already done: no write.
UnaryRefused(cmd) ==
    /\ \/ cmd.op = "cancel" /\ ~CanCancel(cmd.target)
       \/ cmd.op = "keep" /\ ~CanKeep(cmd.target)
       \/ cmd.op = "discard" /\ ~CanDiscard(cmd.target)
       \/ cmd.op = "delete" /\ cmd.target \notin chats
    /\ UNCHANGED durable

HandleUnary(cmd) ==
    \/ cmd.op = "cancel" /\ GenerationCancel(cmd.target)
    \/ cmd.op = "keep" /\ GenerationKeep(cmd.target)
    \/ cmd.op = "discard" /\ GenerationDiscard(cmd.target)
    \/ cmd.op = "delete" /\ CharactersDelete(cmd.target)
    \/ UnaryRefused(cmd)

-----------------------------------------------------------------------------
(* The writer loop and drain_pending.                                      *)

Draining_AnyTime == exec.pc # "idle"
Draining == exec.pc \in {"boundary", "emit"}
Receiving == exec.pc = "idle" /\ ~stop /\ pending = <<>>
Serving == mode = "up" /\ queue # <<>> /\ (Draining \/ Receiving)

ServeUnary ==
    /\ Serving
    /\ Head(queue).op \in UnaryOps
    /\ HandleUnary(Head(queue))
    /\ queue' = Tail(queue)
    /\ Reply(Head(queue))
    /\ UNCHANGED <<mode, dropped, pending, stop, exec, notices, budgets>>

\* handle_unary finds the caller's own CancellationFlag set.
ServeUnaryCancelled ==
    /\ Serving
    /\ Head(queue).op \in UnaryOps
    /\ queue' = Tail(queue)
    /\ Reply(Head(queue))
    /\ UNCHANGED <<durable, mode, dropped, pending, stop, exec, notices,
                   budgets>>

\* A unary transaction that fails rolls back and the error is the reply.
ServeUnaryFault ==
    /\ Serving
    /\ Head(queue).op \in UnaryOps
    /\ faults < MaxFaults
    /\ faults' = faults + 1
    /\ queue' = Tail(queue)
    /\ Reply(Head(queue))
    /\ UNCHANGED <<durable, mode, dropped, pending, stop, exec, notices,
                   issued, drops, crashes>>

ServeShutdown ==
    /\ Serving
    /\ Head(queue).op = "shutdown"
    /\ queue' = Tail(queue)
    /\ stop' = TRUE
    /\ UNCHANGED <<durable, mode, dropped, pending, exec, client, notices,
                   budgets>>

DeferStream_AnyCommand ==
    /\ mode = "up" /\ Draining
    /\ queue # <<>>
    /\ pending' = Append(pending, Head(queue))
    /\ queue' = Tail(queue)
    /\ UNCHANGED <<durable, mode, dropped, stop, exec, client, notices,
                   budgets>>
DeferStream ==
    /\ mode = "up" /\ Draining
    /\ queue # <<>>
    /\ Head(queue).op \in StreamOps
    /\ pending' = Append(pending, Head(queue))
    /\ queue' = Tail(queue)
    /\ UNCHANGED <<durable, mode, dropped, stop, exec, client, notices,
                   budgets>>

\* while !stop { pending.first() or cmd_rx.recv() }, for a stream command.
StreamReady_WhileRunning == /\ mode = "up" /\ ~stop
                            /\ \/ pending # <<>>
                               \/ queue # <<>> /\ Head(queue).op \in StreamOps
StreamReady_ForgetsPending == /\ mode = "up" /\ exec.pc = "idle" /\ ~stop
                              /\ queue # <<>>
                              /\ Head(queue).op \in StreamOps
StreamReady == /\ mode = "up" /\ exec.pc = "idle" /\ ~stop
               /\ \/ pending # <<>>
                  \/ queue # <<>> /\ Head(queue).op \in StreamOps
StreamHead == IF pending # <<>> THEN Head(pending) ELSE Head(queue)
TakeStream == IF pending # <<>>
              THEN pending' = Tail(pending) /\ queue' = queue
              ELSE queue' = Tail(queue) /\ pending' = pending

CanLaunch(cmd) == \/ cmd.op = "start" /\ cmd.target \in chats
                  \/ cmd.op = "retry" /\ runs[cmd.target].status \in Recoverable

QueuedRow(cmd) ==
    LET retry == cmd.op = "retry" IN
    [status |-> "queued",
     chat |-> IF retry THEN runs[cmd.target].chat ELSE cmd.target,
     source |-> IF retry THEN cmd.target ELSE None,
     attempt |-> IF retry THEN runs[cmd.target].attempt + 1 ELSE 1,
     revision |-> 0, cancelRequested |-> FALSE, lastSeq |-> -1,
     partial |-> 0, hasMessage |-> FALSE, lease |-> "live"]

\* stream_start inserts the row, the caller gets the notice channel, and
\* execute_stream begins with its first drain.
StreamStart(r) ==
    /\ StreamReady
    /\ CanLaunch(StreamHead)
    /\ runs[r].status = "absent"
    /\ runs' = [runs EXCEPT ![r] = QueuedRow(StreamHead)]
    /\ exec' = [pc |-> "boundary", id |-> r, row |-> QueuedRow(StreamHead),
                emitted |-> 0]
    /\ notices' = [notices EXCEPT ![r].open = TRUE]
    /\ TakeStream
    /\ Reply(StreamHead)
    /\ UNCHANGED <<chats, events, messages, mode, dropped, stop, budgets>>

\* CHAT_NOT_FOUND, GENERATION_RUN_NOT_FOUND, GENERATION_RUN_STATE_CONFLICT.
StreamRefused ==
    /\ StreamReady
    /\ ~CanLaunch(StreamHead)
    /\ TakeStream
    /\ Reply(StreamHead)
    /\ UNCHANGED <<durable, mode, dropped, stop, exec, notices, budgets>>

\* The INSERT fails: the error is the reply and no run exists.
StreamFault ==
    /\ StreamReady
    /\ faults < MaxFaults
    /\ faults' = faults + 1
    /\ TakeStream
    /\ Reply(StreamHead)
    /\ UNCHANGED <<durable, mode, dropped, stop, exec, notices, issued, drops,
                   crashes>>

-----------------------------------------------------------------------------
(* The executor.  exec.row is its local `run`: the row as last reloaded.   *)
(* A compare-and-swap is lost when the row has moved past exec.row.        *)

Running(pc) == mode = "up" /\ exec.pc = pc
\* drain returned: try_recv found the channel empty.
Drained(pc) == Running(pc) /\ queue = <<>>
CasLost(run) == runs[exec.id].revision # run.revision

SendCommitted(r, seq) == notices' = [notices EXCEPT ![r].through = seq]
SendTerminal(r, seq) == notices' = [notices EXCEPT ![r].terminal = seq]

\* A terminal transaction: status, terminal event and, for `completed`, the
\* assistant message.  A lost CAS reloads: a cancelled run is committed
\* `cancelled`, a terminal one is left alone, any other is tried again.
TerminalCommit(local, status) ==
    LET r == exec.id
        run == IF CasLost(local) THEN runs[r] ELSE local
        final == IF CasLost(local) /\ CancelPending(run)
                 THEN "cancelled" ELSE status
        seq == run.lastSeq + 1
        settled == CasLost(local) /\ ~CancelPending(run)
                                  /\ run.status \in Terminal
    IN  /\ IF settled
           THEN /\ SendTerminal(r, run.lastSeq)
                /\ UNCHANGED <<runs, events, messages>>
           ELSE /\ runs' = [runs EXCEPT ![r] = TerminalRow(runs[r], final, seq)]
                /\ events' = [events EXCEPT ![r] =
                                @ \cup {[seq |-> seq, type |-> final]}]
                /\ IF final = "completed"
                   THEN InsertMessage(r)
                   ELSE messages' = messages
                /\ SendTerminal(r, seq)
        /\ exec' = IdleExec
        /\ UNCHANGED <<chats, mode, dropped, queue, pending, stop, client,
                       budgets>>

\* commit_shutdown_progress: clear the lease, ignore a lost CAS, no event.
CommitShutdownProgress ==
    /\ runs' = IF ~Exists(exec.id) \/ CasLost(exec.row)
               THEN runs
               ELSE [runs EXCEPT ![exec.id] = ReleasedRow(runs[exec.id])]
    /\ exec' = IdleExec
    /\ UNCHANGED <<chats, events, messages, mode, dropped, queue, pending,
                   stop, client, notices, budgets>>

\* cas_status: the new row is reloaded into the executor's local.
CasStatus(local, status, pc) ==
    IF CasLost(local) /\ CancelPending(runs[exec.id])
    THEN TerminalCommit(runs[exec.id], "cancelled")
    ELSE /\ IF CasLost(local) /\ runs[exec.id].status \in Terminal
            THEN UNCHANGED runs /\ exec' = IdleExec
            ELSE LET row == StatusRow(runs[exec.id], status) IN
                 /\ runs' = [runs EXCEPT ![exec.id] = row]
                 /\ exec' = [exec EXCEPT !.pc = pc, !.row = row]
         /\ UNCHANGED <<chats, events, messages, mode, dropped, queue,
                        pending, stop, client, notices, budgets>>

\* A shutdown arrived in the drain, at either kind of boundary.
ShutdownAtBoundary ==
    /\ Drained("boundary") \/ Drained("emit")
    /\ stop
    /\ CommitShutdownProgress

\* queued -> preparing, on the row reloaded after the first drain.
Prepare ==
    /\ Drained("boundary") /\ ~stop
    /\ Exists(exec.id)
    /\ CasStatus(runs[exec.id], "preparing", "preparing")

\* preparing -> streaming; then the adapter has control.
BeginStreaming ==
    /\ Running("preparing")
    /\ CasStatus(exec.row, "streaming", "provider")

\* The adapter calls emit with its next delta: emit first drains.
AdapterEmits ==
    /\ Running("provider")
    /\ exec.emitted < MaxDeltas
    /\ exec' = [exec EXCEPT !.pc = "emit"]
    /\ UNCHANGED <<durable, mode, dropped, queue, pending, stop, client,
                   notices, budgets>>

\* The 0-based index of a delta that a checkpoint follows, and the last
\* sequence such a commit takes.
IsCheckpoint(index) == index % CheckpointEvery = CheckpointEvery - 1
EndSeq_SharesDelta(index, deltaSeq) == deltaSeq
EndSeq(index, deltaSeq) == IF IsCheckpoint(index) THEN deltaSeq + 1 ELSE deltaSeq

\* emit after its drain: reload; a live run commits the delta.
CommitDelta ==
    LET r == exec.id
        run == runs[r]
        deltaSeq == run.lastSeq + 1
        endSeq == EndSeq(exec.emitted, deltaSeq)
        row == DeltaRow(run, endSeq)
    IN  /\ Drained("emit") /\ ~stop
        /\ Exists(r) /\ ~CancelPending(run) /\ run.status \notin Terminal
        /\ runs' = [runs EXCEPT ![r] = row]
        /\ events' = [events EXCEPT ![r] = @
              \cup {[seq |-> deltaSeq, type |-> "delta"]}
              \cup (IF IsCheckpoint(exec.emitted)
                    THEN {[seq |-> endSeq, type |-> "checkpoint"]} ELSE {})]
        /\ SendCommitted(r, endSeq)
        /\ exec' = [exec EXCEPT !.pc = "provider", !.row = row,
                                !.emitted = @ + 1]
        /\ UNCHANGED <<chats, messages, mode, dropped, queue, pending, stop,
                       client, budgets>>

\* emit after its drain: a cancelled or terminal row answers Stop, the
\* adapter returns Cancelled, and the attempt is committed `cancelled`.
StopEmitting_IgnoresCancel ==
    /\ Drained("emit") /\ ~stop
    /\ Exists(exec.id)
    /\ runs[exec.id].status \in Terminal
    /\ TerminalCommit(runs[exec.id], "cancelled")
StopEmitting ==
    /\ Drained("emit") /\ ~stop
    /\ Exists(exec.id)
    /\ CancelPending(runs[exec.id]) \/ runs[exec.id].status \in Terminal
    /\ TerminalCommit(runs[exec.id], "cancelled")

\* reload fails after a drain that deleted the run: the executor gives up.
RunVanished ==
    /\ Drained("boundary") \/ Drained("emit")
    /\ ~stop
    /\ ~Exists(exec.id)
    /\ exec' = IdleExec
    /\ UNCHANGED <<durable, mode, dropped, queue, pending, stop, client,
                   notices, budgets>>

\* The adapter returns: Ok, an error (an unknown provider too), or the
\* cancellation of the stream's CancellationFlag.
AdapterCompletes == Running("provider") /\ TerminalCommit(exec.row, "completed")
AdapterFails == Running("provider") /\ TerminalCommit(exec.row, "failed")
AdapterCancelled == Running("provider") /\ TerminalCommit(exec.row, "cancelled")

\* A transaction of the executor fails: the error is logged and the run
\* stays as it is, with its lease and without a terminal event.
ExecutorFault ==
    /\ mode = "up" /\ exec.pc # "idle"
    /\ Draining => queue = <<>>
    /\ faults < MaxFaults
    /\ faults' = faults + 1
    /\ exec' = IdleExec
    /\ UNCHANGED <<durable, mode, dropped, queue, pending, stop, client,
                   notices, issued, drops, crashes>>

-----------------------------------------------------------------------------
(* The process: exit, crash, time, reopening.                              *)

\* The writer leaves its loop; commands still queued lose their sender.
WriterExit ==
    /\ mode = "up" /\ exec.pc = "idle" /\ stop
    /\ mode' = "down"
    /\ queue' = <<>> /\ pending' = <<>> /\ stop' = FALSE /\ dropped' = FALSE
    /\ client' = [c \in Clients |-> "idle"]
    /\ UNCHANGED <<durable, exec, notices, budgets>>

Crash ==
    /\ mode = "up"
    /\ crashes < MaxCrashes
    /\ crashes' = crashes + 1
    /\ mode' = "down"
    /\ queue' = <<>> /\ pending' = <<>> /\ stop' = FALSE /\ dropped' = FALSE
    /\ exec' = IdleExec
    /\ client' = [c \in Clients |-> "idle"]
    /\ notices' = [r \in RunIds |-> NoNotice]
    /\ UNCHANGED <<durable, issued, drops, faults>>

\* Thirty seconds pass without a commit of the run's executor.
LeaseExpires(r) ==
    /\ runs[r].status \in Active
    /\ runs[r].lease = "live"
    /\ runs' = [runs EXCEPT ![r] = ExpiredRow(runs[r])]
    /\ UNCHANGED <<chats, events, messages, volatile, budgets>>

Recovered(row) ==
    IF row.status \in Active /\ row.lease \in {"null", "expired"}
    THEN InterruptedRow(row) ELSE row

\* Kernel::open, and the recovery that writer_main runs before any command.
Open ==
    /\ mode = "down"
    /\ mode' = "up"
    /\ runs' = [r \in RunIds |-> Recovered(runs[r])]
    /\ UNCHANGED <<chats, events, messages, dropped, queue, pending, stop,
                   exec, client, notices, budgets>>

\* A failed recovery is logged and the kernel serves all the same.
OpenRecoveryFault ==
    /\ mode = "down"
    /\ faults < MaxFaults
    /\ faults' = faults + 1
    /\ mode' = "up"
    /\ UNCHANGED <<durable, dropped, queue, pending, stop, exec, client,
                   notices, issued, drops, crashes>>

-----------------------------------------------------------------------------

\* What the writer thread does by itself: the steps the scheduler owes it.
Writer ==
    \/ ServeUnary \/ ServeUnaryCancelled \/ ServeShutdown \/ DeferStream
    \/ \E r \in RunIds : StreamStart(r)
    \/ StreamRefused
    \/ ShutdownAtBoundary \/ Prepare \/ BeginStreaming
    \/ AdapterEmits \/ CommitDelta \/ StopEmitting \/ RunVanished
    \/ AdapterFails \/ AdapterCompletes \/ AdapterCancelled
    \/ WriterExit

Caller ==
    \/ \E c \in Clients, op \in UnaryOps \cup StreamOps :
         \E target \in Targets(op) : Dispatch(c, op, target)
    \/ DropKernel

Failure ==
    \/ ServeUnaryFault \/ StreamFault \/ ExecutorFault \/ Crash
    \/ OpenRecoveryFault

Next ==
    \/ Caller
    \/ Writer
    \/ Failure
    \/ \E r \in RunIds : LeaseExpires(r)
    \/ Open

Spec == Init /\ [][Next]_vars

\* The operating system runs the writer thread, and every adapter returns:
\* it checks its deadline (RUN_TIMEOUT) between steps.
FairSpec == Spec /\ WF_vars(Writer)

\* Also a host that reopens the kernel, and time that passes.
HostFairSpec ==
    FairSpec /\ WF_vars(Open) /\ WF_vars(\E r \in RunIds : LeaseExpires(r))

-----------------------------------------------------------------------------
(* Types.                                                                  *)

Rows ==
    [status : Active \cup Terminal \cup {"absent", "deleted"},
     chat : Chats \cup {None}, source : RunIds \cup {None},
     attempt : Nat, revision : Nat, cancelRequested : BOOLEAN,
     lastSeq : Nat \cup {-1}, partial : Nat, hasMessage : BOOLEAN,
     lease : {"live", "expired", "null"}]
EventRecords == [seq : Nat, type : {"delta", "checkpoint"} \cup Evented]
MessageRecords == [run : RunIds, content : SUBSET Nat]
UnaryCommands ==
    [op : {"cancel", "keep", "discard"}, client : Clients, target : RunIds]
      \cup [op : {"delete"}, client : Clients, target : Chats]
StreamCommands ==
    [op : {"start"}, client : Clients, target : Chats]
      \cup [op : {"retry"}, client : Clients, target : RunIds]
ShutdownCommands == [op : {"shutdown"}, client : {None}, target : {None}]

\* Every variable has its type: rows, events and messages as migration 3
\* declares the tables, commands as the Command enum.
TypeOK ==
    /\ chats \subseteq Chats
    /\ runs \in [RunIds -> Rows]
    /\ events \in [RunIds -> SUBSET EventRecords]
    /\ messages \in [Chats -> Seq(MessageRecords)]
    /\ mode \in {"up", "down"}
    /\ dropped \in BOOLEAN
    /\ queue \in Seq(UnaryCommands \cup StreamCommands \cup ShutdownCommands)
    /\ pending \in Seq(StreamCommands)
    /\ stop \in BOOLEAN
    /\ exec \in [pc : {"idle", "boundary", "preparing", "provider", "emit"},
                 id : RunIds \cup {None}, row : Rows, emitted : Nat]
    /\ exec.pc # "idle" => exec.id \in RunIds
    /\ client \in [Clients -> {"idle", "waiting"}]
    /\ notices \in [RunIds -> [open : BOOLEAN, through : Nat \cup {-1},
                               terminal : Nat \cup {-1}]]
    /\ issued \in Nat /\ drops \in Nat /\ crashes \in Nat /\ faults \in Nat

-----------------------------------------------------------------------------
(* Safety.                                                                 *)

Seqs(log) == {e.seq : e \in log}
\* generation.discard purged the log of a run that had ended.
Purged(r) == /\ runs[r].status \in Recoverable
             /\ runs[r].partial = 0
             /\ events[r] = {}

\* commit_delta and the terminal commits: "the run's event sequence is
\* global, monotonous and gapless" (generation.rs:810).  The sequences of a
\* log are exactly 0..last_event_sequence, each carried by one event, so a
\* consumer that pages by sequence misses nothing.
EventLogGapless ==
    \A r \in RunIds : Exists(r) /\ ~Purged(r) =>
        /\ Seqs(events[r]) = 0 .. runs[r].lastSeq
        /\ \A d, e \in events[r] : d.seq = e.seq => d = e

\* The terminal commits: a log is closed by one terminal event, the one of
\* the run's status and at last_event_sequence; an active run, and one that
\* recovery interrupted, have none.
TerminalEventClosesLog ==
    \A r \in RunIds : Exists(r) /\ ~Purged(r) =>
        {e \in events[r] : e.type \in Evented} =
            IF runs[r].status \in Evented
            THEN {[seq |-> runs[r].lastSeq, type |-> runs[r].status]}
            ELSE {}

\* commit_delta: a checkpoint follows every CheckpointEvery-th delta and
\* nothing else does, so the layout of a log and partial_length are both
\* functions of how many deltas were committed.
CheckpointRhythm ==
    \A r \in RunIds : Exists(r) /\ ~Purged(r) =>
        LET n == runs[r].partial
            at(i) == i + i \div CheckpointEvery
        IN  /\ DeltaSeqs(events[r]) = {at(i) : i \in 0 .. n - 1}
            /\ {e.seq : e \in {c \in events[r] : c.type = "checkpoint"}}
                 = {at(i) - 1 : i \in {j \in 1 .. n : j % CheckpointEvery = 0}}

MessagesOf(r) ==
    {i \in DOMAIN messages[runs[r].chat] : messages[runs[r].chat][i].run = r}

\* terminal_completed and generation_keep: a run writes at most one message,
\* exactly when its message_id is set, a completed run has one, an active
\* run has none, and its content is every delta that was committed.
OneMessagePerRun ==
    \A r \in RunIds : Exists(r) =>
        /\ Cardinality(MessagesOf(r)) = IF runs[r].hasMessage THEN 1 ELSE 0
        /\ runs[r].status = "completed" => runs[r].hasMessage
        /\ runs[r].status \in Active => ~runs[r].hasMessage
        /\ ~Purged(r) => \A i \in MessagesOf(r) :
             messages[runs[r].chat][i].content = DeltaSeqs(events[r])

\* Outside a drain the executor's local row is the row of the table: no
\* compare-and-swap of cas_status, commit_delta or a terminal commit is lost,
\* and the reload-and-react code behind a lost one is never needed.
CasFresh ==
    exec.pc \in {"preparing", "provider"} =>
        /\ Exists(exec.id)
        /\ runs[exec.id].revision = exec.row.revision
        /\ runs[exec.id].lastSeq = exec.row.lastSeq

\* generation.retry: the source is a recoverable run of the same chat, one
\* attempt earlier (deletion takes the whole chain).
RetryChain ==
    \A r \in RunIds : Exists(r) /\ runs[r].source # None =>
        LET source == runs[runs[r].source] IN
        /\ source.status \in Recoverable
        /\ source.chat = runs[r].chat
        /\ runs[r].attempt = source.attempt + 1

\* Without a kill, a failed transaction or a shutdown, every run that has
\* not ended is the one the writer executes: runs are neither abandoned nor
\* executed side by side.
NoOrphan ==
    crashes = 0 /\ faults = 0 /\ drops = 0 =>
        \A r \in RunIds : runs[r].status \in Active =>
            exec.pc # "idle" /\ exec.id = r

\* send_committed and send_terminal: what a notice announces is durable, and
\* "a live consumer always receives" the terminal one (generation.rs:736).
NoticeMatchesLog ==
    \A r \in RunIds : Exists(r) /\ notices[r].open =>
        /\ notices[r].through <= runs[r].lastSeq
        /\ IF runs[r].status \in Evented
           THEN notices[r].terminal = runs[r].lastSeq
           ELSE notices[r].terminal = -1

\* A caller is blocked exactly while its one command waits: no reply is
\* lost, none is sent twice, and no command outlives its caller.
CommandsOf(c) ==
    {i \in DOMAIN queue : queue[i].client = c}
      \cup {-i : i \in {j \in DOMAIN pending : pending[j].client = c}}
OneReplyPerCommand ==
    \A c \in Clients :
        Cardinality(CommandsOf(c)) = IF client[c] = "waiting" THEN 1 ELSE 0

\* What a comment promises of a cancel, and the code does not keep.

\* generation_cancel (generation.rs:374): the executor "commits `cancelled`"
\* for a run whose cancel was acknowledged; nothing but recovery may end it
\* otherwise.
AckedCancelEndsCancelled ==
    \A r \in RunIds :
        runs[r].cancelRequested /\ runs[r].status \in Terminal =>
            runs[r].status \in {"cancelled", "interrupted"}

-----------------------------------------------------------------------------
(* Action properties.                                                      *)

\* is_terminal: "immutable for the attempt".  A status that has ended
\* changes only by deletion, and its log only by being emptied as a whole.
TerminalIsFinal ==
    [][\A r \in RunIds : runs[r].status \in Terminal =>
         \/ runs'[r].status = "deleted"
         \/ /\ runs'[r].status = runs[r].status
            /\ runs'[r].lastSeq = runs[r].lastSeq
            /\ events'[r] \in {events[r], {}}]_vars

\* "Late output after a cancel never reaches the chat" (generation.rs:1125), of
\* the log: once cancel_requested is durable no delta event is appended.  (A run
\* whose cancel was overwritten may still complete and insert its message.)
NoOutputAfterCancel ==
    [][\A r \in RunIds : runs[r].cancelRequested =>
         DeltaSeqs(events'[r]) \subseteq DeltaSeqs(events[r])]_vars

-----------------------------------------------------------------------------
(* Liveness.                                                               *)

\* dispatch and dispatch_stream return: a generation in progress delays a
\* command to its next step boundary, or a stream to its end, but not for
\* ever.
CallerAnswered ==
    \A c \in Clients : client[c] = "waiting" ~> client[c] = "idle"

\* execute_stream: a queued run reaches its end - completed, failed,
\* cancelled, or deleted under the executor - unless the kernel shuts down
\* first, is killed, or a transaction fails.
EveryRunEnds ==
    \A r \in RunIds :
        runs[r].status = "queued"
          ~> \/ runs[r].status \notin Active
             \/ mode = "down" \/ crashes > 0 \/ faults > 0

\* The state machine of generation.rs:8-9: a durable cancel ends in
\* `cancelled`, process death in `interrupted`; no run stays `cancelling`.
CancellingEnds ==
    \A r \in RunIds :
        runs[r].status = "cancelling" ~> runs[r].status # "cancelling"

-----------------------------------------------------------------------------
(* The ledger that this module implements.                                 *)

Phase(r) == CASE runs[r].status = "absent" -> "none"
              [] runs[r].status = "deleted" -> "gone"
              [] runs[r].status \in Active -> "open"
              [] OTHER -> "closed"

Entry(r) ==
    [phase |-> Phase(r),
     outcome |-> IF runs[r].status \in Terminal
                 THEN runs[r].status ELSE "none",
     cancel |-> runs[r].cancelRequested,
     output |-> DeltaSeqs(events[r]),
     delivered |-> IF ~Exists(r) THEN {}
                   ELSE UNION {messages[runs[r].chat][i].content :
                                 i \in MessagesOf(r)},
     message |-> runs[r].hasMessage]

\* A delta is identified by its sequence; checkpoints at most double them.
Ledger == INSTANCE GenerationLedger
            WITH Deltas <- 0 .. 2 * MaxDeltas,
                 ledger <- [r \in RunIds |-> Entry(r)]

\* Seen through Entry, every step of callers, writer, failures and recovery
\* is a step of the ledger or changes nothing in it: a run is closed once, a
\* cancelled run produces nothing more, and its chat gets the whole output
\* once or nothing.
ImplementsLedger == Ledger!Spec

\* The log as its readers see it: its end is marked once, checkpoints come at
\* their rhythm, and notices announce what is durable.
LogSound == TerminalEventClosesLog /\ CheckpointRhythm /\ NoticeMatchesLog

\* The life of runs and commands, in one: the log is sound, a run gives its
\* chat one message, a retry follows an attempt that ended, no open run lacks
\* an executor, and a caller waits for exactly one reply.
RunsSound ==
    LogSound /\ OneMessagePerRun /\ RetryChain /\ NoOrphan /\ OneReplyPerCommand
=============================================================================
