------------------------ MODULE GenerationRunsProofs ------------------------
(***************************************************************************)
(* The life of runs and commands (RunsSound), the silence after a cancel   *)
(* (NoOutputAfterCancel) and the refinement of GenerationLedger, for every *)
(* value of the constants of Generation.                                   *)
(*                                                                         *)
(* The argument: SafetyInv rules out every lost compare-and-swap, so a     *)
(* step is one of nine kinds (Kind), each of which says what it does to    *)
(* one run, its log, its notices and its chat, and what the executor holds *)
(* afterwards.  The invariants of a run (RunInv) and the steps of the      *)
(* ledger are then checked once per kind, and the invariants of the        *)
(* command channel (ChannelInv) once per way of moving a command.          *)
(***************************************************************************)
EXTENDS GenerationProofs, FiniteSetTheorems

-----------------------------------------------------------------------------
(* The kinds of steps.                                                     *)

\* All runs but t keep their row, their log and their notices.
Others(t) ==
    \A r \in RunIds \ {t} : /\ runs'[r] = runs[r] /\ events'[r] = events[r]
                            /\ notices'[r] = notices[r]

SameOrigin(row, row2) ==
    row2.chat = row.chat /\ row2.source = row.source /\ row2.attempt = row.attempt

\* An active row after a cancel request, a status change, a lease change or
\* the interruption by recovery.
Moved(row, row2) ==
    /\ SameOrigin(row, row2)
    /\ row.status \in Active /\ row2.status \in Active \cup {"interrupted"}
    /\ row2.lastSeq = row.lastSeq /\ row2.partial = row.partial
    /\ row2.hasMessage = row.hasMessage
    /\ \/ row2.cancelRequested = row.cancelRequested
       \/ row2.cancelRequested = TRUE /\ row2.status \in Active

MoveKind(t) ==
    /\ Others(t) /\ UNCHANGED <<chats, messages>>
    /\ Moved(runs[t], runs'[t]) /\ runs'[t].status \in Active
    /\ events'[t] = events[t] /\ notices'[t] = notices[t]

\* Rows that were kept or discarded: what else they record stays.
Settled(row, row2) ==
    /\ SameOrigin(row, row2)
    /\ row.status \in Recoverable /\ row2.status = row.status
    /\ row2.lastSeq = row.lastSeq /\ row2.cancelRequested = row.cancelRequested

KeepKind(t) ==
    /\ Others(t) /\ chats' = chats
    /\ Settled(runs[t], runs'[t])
    /\ ~runs[t].hasMessage /\ runs'[t].hasMessage
    /\ runs[t].partial > 0 /\ runs'[t].partial = runs[t].partial
    /\ events'[t] = events[t] /\ notices'[t] = notices[t]
    /\ InsertMessage(t)

DiscardKind(t) ==
    /\ Others(t) /\ UNCHANGED <<chats, messages>>
    /\ Settled(runs[t], runs'[t])
    /\ runs'[t].hasMessage = runs[t].hasMessage /\ runs'[t].partial = 0
    /\ events'[t] = {} /\ notices'[t] = notices[t]

DeleteKind(c) == c \in Chats /\ CharactersDelete(c) /\ notices' = notices

\* The row of a new run: of an existing chat, or of the chat of the ended
\* run that it retries.
Origin(row) ==
    \/ row.source = None /\ row.chat \in chats
    \/ /\ row.source \in RunIds
       /\ runs[row.source].status \in Recoverable
       /\ row.chat = runs[row.source].chat
       /\ row.attempt = runs[row.source].attempt + 1

LaunchKind(t) ==
    /\ Others(t) /\ UNCHANGED <<chats, messages>>
    /\ runs[t].status = "absent" /\ Origin(runs'[t])
    /\ runs'[t].status = "queued" /\ ~runs'[t].cancelRequested
    /\ runs'[t].lastSeq = -1 /\ runs'[t].partial = 0 /\ ~runs'[t].hasMessage
    /\ events'[t] = events[t]
    /\ notices'[t] = [notices[t] EXCEPT !.open = TRUE]
    /\ exec.pc = "idle" /\ exec'.pc = "boundary"
    /\ exec'.id = t /\ exec'.emitted = 0

DeltaEvents(index, seq) ==
    {[seq |-> seq, type |-> "delta"]}
      \cup (IF IsCheckpoint(index)
            THEN {[seq |-> EndSeq(index, seq), type |-> "checkpoint"]} ELSE {})

DeltaKind(t) ==
    LET seq == runs[t].lastSeq + 1 IN
    /\ Others(t) /\ UNCHANGED <<chats, messages>>
    /\ runs[t].status \in Active /\ ~CancelPending(runs[t])
    /\ SameOrigin(runs[t], runs'[t])
    /\ runs'[t].status = runs[t].status
    /\ runs'[t].cancelRequested = runs[t].cancelRequested
    /\ runs'[t].hasMessage = runs[t].hasMessage
    /\ runs'[t].partial = runs[t].partial + 1
    /\ runs'[t].lastSeq = EndSeq(exec.emitted, seq)
    /\ events'[t] = events[t] \cup DeltaEvents(exec.emitted, seq)
    /\ notices'[t] = [notices[t] EXCEPT !.through = runs'[t].lastSeq]
    /\ exec.pc = "emit" /\ exec.id = t
    /\ exec'.pc = "provider" /\ exec'.id = t
    /\ exec'.emitted = exec.emitted + 1

EndKind(t) ==
    LET seq == runs[t].lastSeq + 1
        status == runs'[t].status
    IN
    /\ Others(t) /\ chats' = chats
    /\ runs[t].status \in Active /\ status \in Evented
    /\ SameOrigin(runs[t], runs'[t])
    /\ runs'[t].cancelRequested = runs[t].cancelRequested
    /\ runs'[t].hasMessage = (runs[t].hasMessage \/ status = "completed")
    /\ runs'[t].partial = runs[t].partial
    /\ runs'[t].lastSeq = seq
    /\ events'[t] = events[t] \cup {[seq |-> seq, type |-> status]}
    /\ notices'[t] = [notices[t] EXCEPT !.terminal = seq]
    /\ IF status = "completed" THEN InsertMessage(t) ELSE messages' = messages

RecoverKind ==
    /\ UNCHANGED <<chats, messages, events, notices>>
    /\ \A r \in RunIds : \/ runs'[r] = runs[r]
                         \/ /\ Moved(runs[r], runs'[r])
                            /\ runs'[r].status = "interrupted"

QuietKind ==
    /\ UNCHANGED <<chats, runs, events, messages>>
    /\ notices' = notices \/ notices' = [r \in RunIds |-> NoNotice]

\* Kinds that launch nothing and commit no delta.
PlainKind ==
    \/ \E t \in RunIds : MoveKind(t) \/ KeepKind(t) \/ DiscardKind(t) \/ EndKind(t)
    \/ \E c \in Chats : DeleteKind(c)
    \/ RecoverKind \/ QuietKind

\* The executor in such a step: it goes on with its run, or lets go of one
\* that ended or was deleted, at a shutdown, a fault or a crash.
Calm == crashes = 0 /\ faults = 0 /\ drops = 0
ExecKept ==
    \/ /\ exec.pc # "idle" /\ exec'.pc # "idle"
       /\ exec'.id = exec.id /\ exec'.emitted = exec.emitted
       /\ exec'.pc = "emit" => exec.pc = "emit" \/ exec.emitted < MaxDeltas
    \/ /\ exec'.pc = "idle"
       /\ exec.pc = "idle" \/ runs'[exec.id].status \notin Active \/ stop \/ ~Calm'

Kind ==
    \/ PlainKind /\ ExecKept
    \/ \E t \in RunIds : LaunchKind(t) \/ DeltaKind(t)

-----------------------------------------------------------------------------
(* What the UPDATEs of a row leave alone.                                  *)

LEMMA UnaryRows ==
  ASSUME NEW row \in Rows
  PROVE  /\ row.status \in Active => Moved(row, CancelRequestedRow(row))
         /\ row.status \in Recoverable => Settled(row, KeptRow(row))
         /\ row.status \in Recoverable => Settled(row, DiscardedRow(row))
         /\ KeptRow(row).hasMessage /\ KeptRow(row).partial = row.partial
         /\ DiscardedRow(row).hasMessage = row.hasMessage
         /\ CancelRequestedRow(row).status \in Active
  BY DEF CancelRequestedRow, KeptRow, DiscardedRow, Rows, Moved, Settled,
         SameOrigin, Active

LEMMA LeaseRows ==
  ASSUME NEW row \in Rows, row.status \in Active,
         NEW status \in {"preparing", "streaming"}
  PROVE  /\ Moved(row, ReleasedRow(row)) /\ ReleasedRow(row).status \in Active
         /\ Moved(row, ExpiredRow(row)) /\ ExpiredRow(row).status \in Active
         /\ Moved(row, StatusRow(row, status))
         /\ StatusRow(row, status).status \in Active
         /\ Moved(row, InterruptedRow(row))
         /\ InterruptedRow(row).status = "interrupted"
  BY DEF ReleasedRow, ExpiredRow, StatusRow, InterruptedRow, Rows, Moved,
         SameOrigin, Active

LEMMA DeltaRows ==
  ASSUME NEW row \in Rows, NEW seq
  PROVE  /\ SameOrigin(row, DeltaRow(row, seq))
         /\ DeltaRow(row, seq).status = row.status
         /\ DeltaRow(row, seq).cancelRequested = row.cancelRequested
         /\ DeltaRow(row, seq).hasMessage = row.hasMessage
         /\ DeltaRow(row, seq).partial = row.partial + 1
  BY DEF DeltaRow, Rows, SameOrigin

LEMMA EndRows ==
  ASSUME NEW row \in Rows, NEW status, NEW seq
  PROVE  /\ SameOrigin(row, TerminalRow(row, status, seq))
         /\ TerminalRow(row, status, seq).cancelRequested = row.cancelRequested
         /\ TerminalRow(row, status, seq).partial = row.partial
         /\ TerminalRow(row, status, seq).hasMessage
              = (row.hasMessage \/ status = "completed")
  BY DEF TerminalRow, Rows, SameOrigin

-----------------------------------------------------------------------------
(* Every step has a kind.                                                  *)

LEMMA QuietIsKind ==
  ASSUME QuietKind, ExecKept PROVE Kind
  BY DEF Kind, PlainKind

LEMMA UnaryKind ==
  ASSUME TypeOK, NEW STATE cmd, cmd \in Commands, HandleUnary(cmd),
         notices' = notices
  PROVE  PlainKind
  <1> DEFINE t == cmd.target
  <1>0. runs \in [RunIds -> Rows] /\ events \in [RunIds -> SUBSET EventRecords]
    BY DEF TypeOK
  <1>1. CASE cmd.op = "cancel" /\ GenerationCancel(t)
    <2>1. t \in RunIds /\ runs[t] \in Rows
      BY <1>0, <1>1, CommandTargets
    <2>2. /\ runs[t].status \in Active
          /\ runs' = [runs EXCEPT ![t] = CancelRequestedRow(runs[t])]
          /\ UNCHANGED <<chats, events, messages>>
      BY <1>1 DEF GenerationCancel, CanCancel, Cancellable, Active
    <2>3. Others(t) /\ runs'[t] = CancelRequestedRow(runs[t])
      BY <1>0, <2>1, <2>2 DEF Others
    <2>4. MoveKind(t)
      BY <2>1, <2>2, <2>3, UnaryRows DEF MoveKind
    <2> QED
      BY <2>1, <2>4 DEF PlainKind
  <1>2. CASE cmd.op = "keep" /\ GenerationKeep(t)
    <2>1. t \in RunIds /\ runs[t] \in Rows
      BY <1>0, <1>2, CommandTargets
    <2>2. /\ runs[t].status \in Recoverable /\ ~runs[t].hasMessage
          /\ runs[t].partial > 0 /\ InsertMessage(t)
          /\ runs' = [runs EXCEPT ![t] = KeptRow(runs[t])]
          /\ UNCHANGED <<chats, events>>
      BY <1>2 DEF GenerationKeep, CanKeep
    <2>3. Others(t) /\ runs'[t] = KeptRow(runs[t])
      BY <1>0, <2>1, <2>2 DEF Others
    <2>4. KeepKind(t)
      BY <2>1, <2>2, <2>3, UnaryRows DEF KeepKind
    <2> QED
      BY <2>1, <2>4 DEF PlainKind
  <1>3. CASE cmd.op = "discard" /\ GenerationDiscard(t)
    <2>1. t \in RunIds /\ runs[t] \in Rows
      BY <1>0, <1>3, CommandTargets
    <2>2. /\ runs[t].status \in Recoverable
          /\ runs' = [runs EXCEPT ![t] = DiscardedRow(runs[t])]
          /\ events' = [events EXCEPT ![t] = {}]
          /\ UNCHANGED <<chats, messages>>
      BY <1>3 DEF GenerationDiscard, CanDiscard
    <2>3. Others(t) /\ runs'[t] = DiscardedRow(runs[t]) /\ events'[t] = {}
      BY <1>0, <2>1, <2>2 DEF Others
    <2>4. DiscardKind(t)
      BY <2>1, <2>2, <2>3, UnaryRows, UnaryFields DEF DiscardKind
    <2> QED
      BY <2>1, <2>4 DEF PlainKind
  <1>4. CASE cmd.op = "delete" /\ CharactersDelete(t)
    <2>1. t \in Chats
      BY <1>4 DEF TypeOK, CharactersDelete
    <2> QED
      BY <1>4, <2>1 DEF PlainKind, DeleteKind
  <1>5. CASE UnaryRefused(cmd)
    BY <1>5 DEF UnaryRefused, durable, PlainKind, QuietKind
  <1> QED
    BY <1>1, <1>2, <1>3, <1>4, <1>5 DEF HandleUnary

LEMMA ServeKind ==
  ASSUME TypeOK, ServeUnary
  PROVE  Kind
  <1>1. Head(queue) \in Commands /\ HandleUnary(Head(queue))
    BY HeadOfQueue DEF ServeUnary, Serving
  <1>2. UNCHANGED <<notices, exec>>
    BY DEF ServeUnary
  <1>3. PlainKind
    BY <1>1, <1>2, UnaryKind
  <1>4. ExecKept
    BY <1>2 DEF ExecKept
  <1> QED
    BY <1>3, <1>4 DEF Kind

LEMMA LaunchIsKind ==
  ASSUME TypeOK, NEW t \in RunIds, StreamStart(t)
  PROVE  LaunchKind(t)
  <1> DEFINE cmd == StreamHead
             row == QueuedRow(cmd)
  <1>1. /\ exec.pc = "idle" /\ runs[t].status = "absent" /\ CanLaunch(cmd)
        /\ runs' = [runs EXCEPT ![t] = row]
        /\ exec' = [pc |-> "boundary", id |-> t, row |-> row, emitted |-> 0]
        /\ notices' = [notices EXCEPT ![t].open = TRUE]
        /\ UNCHANGED <<chats, events, messages>>
    BY DEF StreamStart, StreamReady
  <1>2. cmd \in StreamCommands
    BY StreamHeadType DEF StreamStart
  <1> HIDE DEF cmd
  <1>3. /\ row.status = "queued" /\ ~row.cancelRequested /\ row.lastSeq = -1
        /\ row.partial = 0 /\ ~row.hasMessage
    BY DEF QueuedRow
  <1>4. Origin(row)
    <2>1. CASE cmd.op = "retry"
      BY <1>1, <1>2, <2>1 DEF QueuedRow, Origin, CanLaunch, StreamCommands
    <2>2. CASE cmd.op = "start"
      BY <1>1, <2>2 DEF QueuedRow, Origin, CanLaunch
    <2> QED
      BY <1>2, <2>1, <2>2 DEF StreamCommands
  <1> HIDE DEF row
  <1>5. runs'[t] = row
    BY <1>1 DEF TypeOK
  <1>6. notices'[t] = [notices[t] EXCEPT !.open = TRUE]
    BY <1>1 DEF TypeOK
  <1>7. Others(t)
    BY <1>1 DEF TypeOK, Others
  <1>8. exec'.pc = "boundary" /\ exec'.id = t /\ exec'.emitted = 0
    BY <1>1
  <1> QED
    BY <1>1, <1>3, <1>4, <1>5, <1>6, <1>7, <1>8 DEF LaunchKind

LEMMA DeltaIsKind ==
  ASSUME TypeOK, ExecInv, CommitDelta
  PROVE  exec.id \in RunIds /\ DeltaKind(exec.id)
  <1> DEFINE t == exec.id
             seq == runs[t].lastSeq + 1
             endSeq == EndSeq(exec.emitted, seq)
             row == DeltaRow(runs[t], endSeq)
             added == DeltaEvents(exec.emitted, seq)
  <1>1. /\ t \in RunIds /\ exec.pc = "emit" /\ runs[t].status \in Active
        /\ ~CancelPending(runs[t])
    BY DEF CommitDelta, Drained, Running, TypeOK, ExecInv, Exists
  <1>2. /\ runs \in [RunIds -> Rows] /\ runs[t] \in Rows
        /\ events \in [RunIds -> SUBSET EventRecords]
        /\ exec \in Execs
    BY <1>1 DEF TypeOK, Execs
  <1>3. /\ runs' = [runs EXCEPT ![t] = row]
        /\ events' = [events EXCEPT ![t] = @
              \cup {[seq |-> seq, type |-> "delta"]}
              \cup (IF IsCheckpoint(exec.emitted)
                    THEN {[seq |-> endSeq, type |-> "checkpoint"]} ELSE {})]
        /\ notices' = [notices EXCEPT ![t].through = endSeq]
        /\ exec' = [exec EXCEPT !.pc = "provider", !.row = row,
                                !.emitted = exec.emitted + 1]
        /\ UNCHANGED <<chats, messages>>
    BY Zenon DEF CommitDelta, SendCommitted
  <1>4. events'[t] = events[t] \cup added
    BY <1>1, <1>2, <1>3 DEF DeltaEvents
  <1>5. row.lastSeq = endSeq
    BY <1>2, ExecutorFields
  <1>6. /\ SameOrigin(runs[t], row) /\ row.status = runs[t].status
        /\ row.cancelRequested = runs[t].cancelRequested
        /\ row.hasMessage = runs[t].hasMessage
        /\ row.partial = runs[t].partial + 1
    BY <1>2, DeltaRows
  <1> HIDE DEF row, endSeq, added
  <1>7. runs'[t] = row
    BY <1>1, <1>2, <1>3
  <1>8. notices'[t] = [notices[t] EXCEPT !.through = endSeq]
    BY <1>1, <1>3 DEF TypeOK
  <1>9. Others(t)
    BY <1>1, <1>2, <1>3 DEF TypeOK, Others
  <1>10. exec'.pc = "provider" /\ exec'.id = t /\ exec'.emitted = exec.emitted + 1
    BY <1>2, <1>3, Zenon DEF Execs
  <1>11. /\ runs'[t].lastSeq = EndSeq(exec.emitted, seq)
         /\ events'[t] = events[t] \cup DeltaEvents(exec.emitted, seq)
    BY <1>4, <1>5, <1>7 DEF endSeq, added
  <1>12. notices'[t] = [notices[t] EXCEPT !.through = runs'[t].lastSeq]
    BY <1>5, <1>7, <1>8
  <1>13. /\ SameOrigin(runs[t], runs'[t]) /\ runs'[t].status = runs[t].status
         /\ runs'[t].cancelRequested = runs[t].cancelRequested
         /\ runs'[t].hasMessage = runs[t].hasMessage
         /\ runs'[t].partial = runs[t].partial + 1
    BY <1>6, <1>7
  <1> QED
    BY <1>1, <1>3, <1>9, <1>10, <1>11, <1>12, <1>13, Zenon DEF DeltaKind

\* A terminal commit whose compare-and-swap holds.
LEMMA EndIsKind ==
  ASSUME TypeOK, exec.id \in RunIds, NEW STATE local, local \in Rows,
         NEW CONSTANT status \in Evented,
         runs[exec.id].status \in Active,
         runs[exec.id].revision = local.revision,
         runs[exec.id].lastSeq = local.lastSeq,
         TerminalCommit(local, status)
  PROVE  Kind
  <1> DEFINE t == exec.id
             seq == runs[t].lastSeq + 1
             row == TerminalRow(runs[t], status, seq)
  <1>1. ~CasLost(local)
    BY DEF CasLost
  <1>2. /\ runs' = [runs EXCEPT ![t] = TerminalRow(runs[t], status, local.lastSeq + 1)]
        /\ events' = [events EXCEPT ![t] =
                        @ \cup {[seq |-> local.lastSeq + 1, type |-> status]}]
        /\ IF status = "completed" THEN InsertMessage(t) ELSE messages' = messages
        /\ notices' = [notices EXCEPT ![t].terminal = local.lastSeq + 1]
        /\ exec' = IdleExec /\ chats' = chats
    BY <1>1, Zenon DEF TerminalCommit, SendTerminal
  <1>3. /\ runs \in [RunIds -> Rows] /\ runs[t] \in Rows
        /\ events \in [RunIds -> SUBSET EventRecords]
    BY DEF TypeOK
  <1>4. /\ row.status = status /\ row.lastSeq = seq
        /\ SameOrigin(runs[t], row)
        /\ row.cancelRequested = runs[t].cancelRequested
        /\ row.hasMessage = (runs[t].hasMessage \/ status = "completed")
        /\ row.partial = runs[t].partial
    BY <1>3, EndRows, ExecutorFields
  <1>5. runs'[t] = row
    BY <1>2, <1>3
  <1> HIDE DEF row
  <1>6. events'[t] = events[t] \cup {[seq |-> seq, type |-> status]}
    BY <1>2, <1>3
  <1>7. notices'[t] = [notices[t] EXCEPT !.terminal = seq]
    BY <1>2 DEF TypeOK
  <1>8. Others(t)
    BY <1>2, <1>3 DEF TypeOK, Others
  <1>9. EndKind(t)
    BY <1>2, <1>4, <1>5, <1>6, <1>7, <1>8 DEF EndKind
  <1>10. runs'[exec.id].status \notin Active
    BY <1>4, <1>5 DEF Active, Evented
  <1>11. ExecKept
    BY <1>2, <1>10 DEF ExecKept, IdleExec
  <1> QED
    BY <1>9, <1>11 DEF Kind, PlainKind

LEMMA StatusIsKind ==
  ASSUME TypeOK, exec.pc # "idle", exec.id \in RunIds, NEW STATE local,
         NEW CONSTANT status \in {"preparing", "streaming"},
         NEW CONSTANT pc \in {"preparing", "provider"},
         runs[exec.id].status \in Active,
         runs[exec.id].revision = local.revision,
         CasStatus(local, status, pc)
  PROVE  Kind
  <1> DEFINE t == exec.id
             row == StatusRow(runs[t], status)
  <1>1. ~CasLost(local)
    BY DEF CasLost
  <1>2. /\ runs' = [runs EXCEPT ![t] = row]
        /\ exec' = [exec EXCEPT !.pc = pc, !.row = row]
        /\ UNCHANGED <<chats, messages, events, notices>>
    BY <1>1, Zenon DEF CasStatus
  <1>3. runs \in [RunIds -> Rows] /\ runs[t] \in Rows /\ exec \in Execs
    BY DEF TypeOK, Execs
  <1>4. Moved(runs[t], row) /\ row.status \in Active
    BY <1>3, LeaseRows
  <1> HIDE DEF row
  <1>5. runs'[t] = row /\ Others(t)
    BY <1>2, <1>3 DEF Others
  <1>6. MoveKind(t)
    BY <1>2, <1>4, <1>5 DEF MoveKind
  <1>7. exec'.pc = pc /\ exec'.id = exec.id /\ exec'.emitted = exec.emitted
    BY <1>2, <1>3, Zenon DEF Execs
  <1>8. ExecKept
    BY <1>7 DEF ExecKept
  <1> QED
    BY <1>6, <1>8 DEF Kind, PlainKind

LEMMA ExecutorKind ==
  ASSUME TypeOK, ExecInv,
         \/ ShutdownAtBoundary \/ Prepare \/ BeginStreaming \/ AdapterEmits
         \/ StopEmitting \/ RunVanished \/ AdapterCompletes \/ AdapterFails
         \/ AdapterCancelled \/ ExecutorFault
  PROVE  Kind
  <1>1. exec.id \in RunIds /\ exec.pc # "idle"
    BY DEF ShutdownAtBoundary, Prepare, BeginStreaming, AdapterEmits,
           StopEmitting, RunVanished, AdapterCompletes, AdapterFails,
           AdapterCancelled, ExecutorFault, Drained, Running, TypeOK
  <1>2. /\ runs \in [RunIds -> Rows] /\ runs[exec.id] \in Rows
        /\ exec \in Execs /\ exec.row \in Rows
    BY <1>1 DEF TypeOK, Execs
  <1>3. Exists(exec.id) => runs[exec.id].status \in Active
    BY <1>1 DEF ExecInv, Exists
  <1>4. CASE ShutdownAtBoundary
    <2>1. /\ stop /\ exec' = IdleExec
          /\ UNCHANGED <<chats, events, messages, notices>>
      BY <1>4 DEF ShutdownAtBoundary, CommitShutdownProgress
    <2>2. ExecKept
      BY <2>1 DEF ExecKept, IdleExec
    <2>3. CASE ~Exists(exec.id) \/ CasLost(exec.row)
      <3>1. runs' = runs
        BY <1>4, <2>3 DEF ShutdownAtBoundary, CommitShutdownProgress
      <3> QED
        BY <2>1, <2>2, <3>1, QuietIsKind DEF QuietKind
    <2>4. CASE ~(~Exists(exec.id) \/ CasLost(exec.row))
      <3>1. runs' = [runs EXCEPT ![exec.id] = ReleasedRow(runs[exec.id])]
        BY <1>4, <2>4 DEF ShutdownAtBoundary, CommitShutdownProgress
      <3>2. /\ Others(exec.id)
            /\ runs'[exec.id] = ReleasedRow(runs[exec.id])
        BY <1>1, <1>2, <2>1, <3>1 DEF Others
      <3>3. /\ Moved(runs[exec.id], runs'[exec.id])
            /\ runs'[exec.id].status \in Active
        BY <1>2, <1>3, <2>4, <3>2, LeaseRows
      <3>4. MoveKind(exec.id)
        BY <2>1, <3>2, <3>3 DEF MoveKind
      <3> QED
        BY <1>1, <2>2, <3>4 DEF Kind, PlainKind
    <2> QED
      BY <2>3, <2>4
  <1>5. CASE Prepare
    BY <1>1, <1>3, <1>5, StatusIsKind DEF Prepare
  <1>6. CASE BeginStreaming
    BY <1>1, <1>6, StatusIsKind DEF BeginStreaming, Running, ExecInv
  <1>7. CASE AdapterEmits
    <2>1. /\ exec' = [exec EXCEPT !.pc = "emit"] /\ exec.emitted < MaxDeltas
          /\ UNCHANGED <<chats, runs, events, messages, notices>>
      BY <1>7 DEF AdapterEmits, durable
    <2>2. exec'.pc = "emit" /\ exec'.id = exec.id /\ exec'.emitted = exec.emitted
      BY <1>2, <2>1, Zenon DEF Execs
    <2> QED
      BY <1>1, <2>1, <2>2, QuietIsKind DEF QuietKind, ExecKept
  <1>8. CASE StopEmitting
    BY <1>1, <1>2, <1>3, <1>8, EndIsKind DEF StopEmitting, Evented
  <1>9. CASE AdapterCompletes \/ AdapterFails \/ AdapterCancelled
    BY <1>1, <1>2, <1>9, EndIsKind
    DEF AdapterCompletes, AdapterFails, AdapterCancelled, Running, Evented,
        ExecInv
  <1>10. CASE RunVanished
    <2>1. /\ ~Exists(exec.id) /\ exec' = IdleExec
          /\ UNCHANGED <<chats, runs, events, messages, notices>>
      BY <1>10 DEF RunVanished, durable
    <2> QED
      BY <2>1, QuietIsKind DEF QuietKind, ExecKept, IdleExec, Exists, Active
  <1>11. CASE ExecutorFault
    <2>1. /\ faults' = faults + 1 /\ exec' = IdleExec
          /\ UNCHANGED <<chats, runs, events, messages, notices>>
      BY <1>11 DEF ExecutorFault, durable
    <2>2. ~Calm'
      BY <2>1 DEF Calm, TypeOK
    <2> QED
      BY <2>1, <2>2, QuietIsKind DEF QuietKind, ExecKept, IdleExec
  <1> QED
    BY <1>4, <1>5, <1>6, <1>7, <1>8, <1>9, <1>10, <1>11

LEMMA ProcessKind ==
  ASSUME TypeOK, ExecInv,
         \/ WriterExit \/ Crash \/ Open \/ OpenRecoveryFault
         \/ \E r \in RunIds : LeaseExpires(r)
  PROVE  Kind
  <1>0. runs \in [RunIds -> Rows]
    BY DEF TypeOK
  <1>1. CASE WriterExit \/ OpenRecoveryFault
    BY <1>1, QuietIsKind
    DEF WriterExit, OpenRecoveryFault, durable, QuietKind, ExecKept
  <1>2. CASE Crash
    <2>1. /\ crashes' = crashes + 1 /\ exec' = IdleExec
          /\ UNCHANGED <<chats, runs, events, messages>>
          /\ notices' = [r \in RunIds |-> NoNotice]
      BY <1>2 DEF Crash, durable
    <2>2. ~Calm'
      BY <2>1 DEF Calm, TypeOK
    <2> QED
      BY <2>1, <2>2, QuietIsKind DEF QuietKind, ExecKept, IdleExec
  <1>3. CASE Open
    <2>1. /\ UNCHANGED <<chats, events, messages, notices, exec>>
          /\ runs' = [r \in RunIds |-> Recovered(runs[r])]
      BY <1>3 DEF Open
    <2>2. \A r \in RunIds : \/ runs'[r] = runs[r]
                            \/ /\ Moved(runs[r], runs'[r])
                               /\ runs'[r].status = "interrupted"
      BY <1>0, <2>1, LeaseRows DEF Recovered
    <2>3. RecoverKind
      BY <2>1, <2>2 DEF RecoverKind
    <2>4. ExecKept
      BY <2>1 DEF ExecKept
    <2> QED
      BY <2>3, <2>4 DEF Kind, PlainKind
  <1>4. ASSUME NEW r \in RunIds, LeaseExpires(r) PROVE Kind
    <2>1. /\ runs[r].status \in Active
          /\ runs' = [runs EXCEPT ![r] = ExpiredRow(runs[r])]
          /\ UNCHANGED <<chats, events, messages, exec, notices>>
      BY <1>4 DEF LeaseExpires, volatile
    <2>2. Others(r) /\ runs'[r] = ExpiredRow(runs[r])
      BY <1>0, <2>1 DEF Others
    <2>3. Moved(runs[r], runs'[r]) /\ runs'[r].status \in Active
      BY <1>0, <2>1, <2>2, LeaseRows
    <2>4. MoveKind(r)
      BY <2>1, <2>2, <2>3 DEF MoveKind
    <2>5. ExecKept
      BY <2>1 DEF ExecKept
    <2> QED
      BY <2>4, <2>5 DEF Kind, PlainKind
  <1> QED
    BY <1>1, <1>2, <1>3, <1>4

LEMMA NextKind ==
  ASSUME TypeOK, ExecInv, [Next]_vars
  PROVE  Kind
  <1>0. ASSUME UNCHANGED <<durable, exec, notices>> PROVE Kind
    BY <1>0, QuietIsKind DEF durable, QuietKind, ExecKept
  <1>1. CASE Caller
    BY <1>0, <1>1 DEF Caller, Dispatch, DropKernel
  <1>2. CASE \/ ServeUnaryCancelled \/ ServeUnaryFault \/ ServeShutdown
             \/ DeferStream \/ StreamRefused \/ StreamFault
    BY <1>0, <1>2
    DEF ServeUnaryCancelled, ServeUnaryFault, ServeShutdown, DeferStream,
        StreamRefused, StreamFault
  <1>3. CASE \E r \in RunIds : StreamStart(r)
    BY <1>3, LaunchIsKind DEF Kind
  <1>4. CASE CommitDelta
    BY <1>4, DeltaIsKind DEF Kind
  <1>5. CASE Writer
    BY <1>2, <1>3, <1>4, <1>5, ServeKind, ExecutorKind, ProcessKind DEF Writer
  <1>6. CASE Failure
    BY <1>2, <1>6, ExecutorKind, ProcessKind DEF Failure
  <1>7. CASE Open \/ \E r \in RunIds : LeaseExpires(r)
    BY <1>7, ProcessKind
  <1>8. CASE UNCHANGED vars
    BY <1>0, <1>8 DEF vars, durable
  <1> QED
    BY <1>1, <1>5, <1>6, <1>7, <1>8 DEF Next

-----------------------------------------------------------------------------
(* No output after a cancel.                                               *)

\* What NoOutputAfterCancel says of one step.
SilentStep ==
    \A r \in RunIds : runs[r].cancelRequested =>
        DeltaSeqs(events'[r]) \subseteq DeltaSeqs(events[r])

\* The event of a terminal commit is no delta.
LEMMA EndAddsNoDelta ==
  ASSUME NEW log, NEW seq, NEW status \in Evented
  PROVE  DeltaSeqs(log \cup {[seq |-> seq, type |-> status]}) = DeltaSeqs(log)
  BY DEF DeltaSeqs, Evented

\* What a step of any kind does to one given run.
StillAt(r) ==
    /\ runs'[r] = runs[r] /\ events'[r] = events[r]
    /\ notices'[r] = notices[r] \/ notices'[r] = NoNotice
MovedAt(r) ==
    /\ Moved(runs[r], runs'[r]) /\ events'[r] = events[r]
    /\ notices'[r] = notices[r]
DeletedAt(r) ==
    /\ DeleteKind(runs[r].chat) /\ runs'[r] = DeletedRow /\ events'[r] = {}
    /\ notices'[r] = notices[r]

LEMMA KindAt ==
  ASSUME Kind, NEW r \in RunIds
  PROVE  \/ StillAt(r) \/ MovedAt(r) \/ KeepKind(r) \/ DiscardKind(r)
         \/ DeletedAt(r) \/ LaunchKind(r) \/ DeltaKind(r) \/ EndKind(r)
  <1>1. ASSUME NEW t \in RunIds, Others(t), t # r PROVE StillAt(r)
    BY <1>1 DEF Others, StillAt
  <1>2. ASSUME NEW t \in RunIds,
               \/ KeepKind(t) \/ DiscardKind(t) \/ EndKind(t)
               \/ LaunchKind(t) \/ DeltaKind(t)
        PROVE  \/ StillAt(r) \/ KeepKind(r) \/ DiscardKind(r) \/ EndKind(r)
               \/ LaunchKind(r) \/ DeltaKind(r)
    <2>1. Others(t)
      BY <1>2 DEF KeepKind, DiscardKind, EndKind, LaunchKind, DeltaKind
    <2> QED
      BY <1>1, <1>2, <2>1
  <1>3. ASSUME NEW t \in RunIds, MoveKind(t) PROVE StillAt(r) \/ MovedAt(r)
    BY <1>1, <1>3 DEF MoveKind, MovedAt
  <1>4. ASSUME NEW c \in Chats, DeleteKind(c) PROVE StillAt(r) \/ DeletedAt(r)
    BY <1>4 DEF DeleteKind, CharactersDelete, StillAt, DeletedAt
  <1>5. CASE RecoverKind
    BY <1>5 DEF RecoverKind, StillAt, MovedAt
  <1>6. CASE QuietKind
    BY <1>6 DEF QuietKind, StillAt
  <1> QED
    BY <1>2, <1>3, <1>4, <1>5, <1>6 DEF Kind, PlainKind

LEMMA KindIsSilent == Kind => SilentStep
  <1> SUFFICES ASSUME Kind, NEW r \in RunIds, runs[r].cancelRequested
               PROVE  DeltaSeqs(events'[r]) \subseteq DeltaSeqs(events[r])
    BY DEF SilentStep
  <1>1. CASE EndKind(r)
    <2>1. /\ runs'[r].status \in Evented
          /\ events'[r] = events[r] \cup {[seq |-> runs[r].lastSeq + 1,
                                           type |-> runs'[r].status]}
      BY <1>1 DEF EndKind
    <2> QED
      BY <2>1, EndAddsNoDelta, Zenon
  <1>2. CASE DiscardKind(r) \/ DeletedAt(r)
    BY <1>2 DEF DiscardKind, DeletedAt, DeltaSeqs
  <1>3. CASE StillAt(r) \/ MovedAt(r) \/ KeepKind(r) \/ LaunchKind(r)
    BY <1>3 DEF StillAt, MovedAt, KeepKind, LaunchKind
  <1>4. ~DeltaKind(r)
    BY DEF DeltaKind, CancelPending
  <1> QED
    BY <1>1, <1>2, <1>3, <1>4, KindAt

\* Once cancel_requested is durable, no delta of the run is committed any
\* more, whatever the executor, other commands, faults and recovery do.
THEOREM SilentAfterCancel == Spec => NoOutputAfterCancel
  <1>1. SafetyInv /\ [Next]_vars => [SilentStep]_vars
    BY NextKind, KindIsSilent DEF SafetyInv
  <1> QED
    BY <1>1, InitSafety, NextSafety, PTL
    DEF Spec, NoOutputAfterCancel, SilentStep

-----------------------------------------------------------------------------
(* The log of a run: its end mark, its rhythm, its notices.                *)

\* The sequence of the delta with index i: one for each delta before it and
\* one for each checkpoint.
At(i) == i + (i \div CheckpointEvery)
DeltaSlots(n) == {At(i) : i \in 0 .. n - 1}
CheckpointSlots(n) ==
    {At(i) - 1 : i \in {j \in 1 .. n : j % CheckpointEvery = 0}}
CheckpointSeqs(log) == {e.seq : e \in {c \in log : c.type = "checkpoint"}}
EndMarks(log) == {e \in log : e.type \in Evented}

PurgedLog(row, log) ==
    row.status \in Recoverable /\ row.partial = 0 /\ log = {}

\* The marks and the rhythm of a log that was not purged, and the notices.
Closed(row, log) ==
    EndMarks(log) = IF row.status \in Evented
                    THEN {[seq |-> row.lastSeq, type |-> row.status]} ELSE {}
Rhythmic(row, log) ==
    /\ DeltaSeqs(log) = DeltaSlots(row.partial)
    /\ CheckpointSeqs(log) = CheckpointSlots(row.partial)
Announced(row, notice) ==
    notice.open =>
        /\ notice.through <= row.lastSeq
        /\ IF row.status \in Evented
           THEN notice.terminal = row.lastSeq ELSE notice.terminal = -1

\* Rows that are not in the table are the initial and the deleted ones.
GoneInv ==
    \A r \in RunIds :
        /\ runs[r].status = "absent" => runs[r] = AbsentRow /\ notices[r] = NoNotice
        /\ runs[r].status = "deleted" => runs[r] = DeletedRow

LogShape ==
    \A r \in RunIds : runs[r].status \notin Gone =>
        /\ ~PurgedLog(runs[r], events[r]) =>
             Closed(runs[r], events[r]) /\ Rhythmic(runs[r], events[r])
        /\ Announced(runs[r], notices[r])

\* The executor counts the deltas of its run, and the run's last sequence is
\* the one that this many deltas and their checkpoints take.
CountInv ==
    /\ exec.pc # "idle" /\ runs[exec.id].status # "deleted" =>
         exec.emitted = runs[exec.id].partial
    /\ exec.pc = "emit" => exec.emitted < MaxDeltas
    /\ \A r \in RunIds : runs[r].status \in Active =>
         runs[r].lastSeq = At(runs[r].partial) - 1

-----------------------------------------------------------------------------
(* Division by CheckpointEvery.                                            *)

LEMMA DivMod ==
  \A k \in Nat \ {0}, n \in Nat :
    /\ n \div k \in Nat /\ n \div k <= n /\ n % k \in 0 .. k - 1
    /\ n = (k * (n \div k)) + (n % k)
  OBVIOUS

LEMMA DivModUnique ==
  \A k \in Nat \ {0}, q \in Nat : \A m \in 0 .. k - 1 :
    ((k * q) + m) \div k = q /\ ((k * q) + m) % k = m
  OBVIOUS

LEMMA NextQuotient ==
  ASSUME NEW k \in Nat \ {0}, NEW n \in Nat
  PROVE  IF n % k = k - 1
         THEN (n + 1) \div k = (n \div k) + 1 /\ (n + 1) % k = 0
         ELSE (n + 1) \div k = n \div k /\ (n + 1) % k # 0
  <1> DEFINE q == n \div k
             m == n % k
  <1>1. q \in Nat /\ m \in 0 .. k - 1 /\ n = (k * q) + m
    BY DivMod
  <1> HIDE DEF q, m
  <1>2. CASE m = k - 1
    <2>1. n + 1 = (k * (q + 1)) + 0
      BY <1>1, <1>2
    <2>2. (n + 1) \div k = q + 1 /\ (n + 1) % k = 0
      BY <1>1, <2>1, DivModUnique
    <2> QED
      BY <1>2, <2>2 DEF q, m
  <1>3. CASE m # k - 1
    <2>1. n + 1 = (k * q) + (m + 1) /\ m + 1 \in 0 .. k - 1
      BY <1>1, <1>3
    <2>2. (n + 1) \div k = q /\ (n + 1) % k = m + 1
      BY <1>1, <2>1, DivModUnique
    <2> QED
      BY <1>1, <1>3, <2>2 DEF q, m
  <1> QED
    BY <1>2, <1>3

\* Where delta number n and its checkpoint go, and where the next delta goes.
LEMMA AtNext ==
  ASSUME NEW n \in Nat
  PROVE  /\ At(n) \in Nat /\ At(n) <= 2 * n
         /\ EndSeq(n, At(n)) = At(n + 1) - 1
         /\ IF IsCheckpoint(n) THEN (n + 1) % CheckpointEvery = 0
                               ELSE (n + 1) % CheckpointEvery # 0
  <1>1. CheckpointEvery \in Nat \ {0}
    BY BoundsAssumption
  <1>2. n \div CheckpointEvery \in Nat /\ n \div CheckpointEvery <= n
    BY <1>1, DivMod
  <1>3. CASE IsCheckpoint(n)
    <2>1. /\ (n + 1) \div CheckpointEvery = (n \div CheckpointEvery) + 1
          /\ (n + 1) % CheckpointEvery = 0
      BY <1>1, <1>3, NextQuotient DEF IsCheckpoint
    <2> QED
      BY <1>2, <1>3, <2>1 DEF At, EndSeq
  <1>4. CASE ~IsCheckpoint(n)
    <2>1. /\ (n + 1) \div CheckpointEvery = n \div CheckpointEvery
          /\ (n + 1) % CheckpointEvery # 0
      BY <1>1, <1>4, NextQuotient DEF IsCheckpoint
    <2> QED
      BY <1>2, <1>4, <2>1 DEF At, EndSeq
  <1> QED
    BY <1>3, <1>4

-----------------------------------------------------------------------------
(* Each kind of step keeps the shape of the log.                           *)

LEMMA SlotsNext ==
  ASSUME NEW n \in Nat
  PROVE  /\ DeltaSlots(n + 1) = DeltaSlots(n) \cup {At(n)}
         /\ CheckpointSlots(n + 1) = CheckpointSlots(n) \cup
              (IF IsCheckpoint(n) THEN {EndSeq(n, At(n))} ELSE {})
  <1>1. 0 .. (n + 1) - 1 = (0 .. n - 1) \cup {n}
    OBVIOUS
  <1>2. 1 .. n + 1 = (1 .. n) \cup {n + 1}
    OBVIOUS
  <1>3. DeltaSlots(n + 1) = DeltaSlots(n) \cup {At(n)}
    BY <1>1 DEF DeltaSlots
  <1>4. CASE IsCheckpoint(n)
    <2>1. (n + 1) % CheckpointEvery = 0 /\ EndSeq(n, At(n)) = At(n + 1) - 1
      BY <1>4, AtNext
    <2>2. {j \in 1 .. n + 1 : j % CheckpointEvery = 0} =
            {j \in 1 .. n : j % CheckpointEvery = 0} \cup {n + 1}
      BY <1>2, <2>1
    <2> QED
      BY <1>3, <1>4, <2>1, <2>2 DEF CheckpointSlots, DeltaSlots
  <1>5. CASE ~IsCheckpoint(n)
    <2>1. (n + 1) % CheckpointEvery # 0
      BY <1>5, AtNext
    <2>2. {j \in 1 .. n + 1 : j % CheckpointEvery = 0} =
            {j \in 1 .. n : j % CheckpointEvery = 0}
      BY <1>2, <2>1
    <2> QED
      BY <1>3, <1>5, <2>2 DEF CheckpointSlots, DeltaSlots
  <1> QED
    BY <1>4, <1>5

LEMMA DeltaShape ==
  ASSUME NEW log, NEW n \in Nat, NEW seq, seq = At(n),
         DeltaSeqs(log) = DeltaSlots(n), CheckpointSeqs(log) = CheckpointSlots(n)
  PROVE  LET log2 == log \cup DeltaEvents(n, seq) IN
         /\ DeltaSeqs(log2) = DeltaSlots(n + 1)
         /\ CheckpointSeqs(log2) = CheckpointSlots(n + 1)
         /\ EndMarks(log2) = EndMarks(log)
  <1> DEFINE d == [seq |-> seq, type |-> "delta"]
             c == [seq |-> EndSeq(n, seq), type |-> "checkpoint"]
             log2 == log \cup DeltaEvents(n, seq)
  <1>1. d.type = "delta" /\ d.seq = seq
    OBVIOUS
  <1>2. c.type = "checkpoint" /\ c.seq = EndSeq(n, seq)
    OBVIOUS
  <1>3. log2 = IF IsCheckpoint(n) THEN log \cup {d, c} ELSE log \cup {d}
    BY DEF DeltaEvents
  <1> HIDE DEF d, c, log2
  <1>4. DeltaSeqs(log2) = DeltaSeqs(log) \cup {seq}
    BY <1>1, <1>2, <1>3 DEF DeltaSeqs
  <1>5. CheckpointSeqs(log2) = CheckpointSeqs(log) \cup
          (IF IsCheckpoint(n) THEN {EndSeq(n, seq)} ELSE {})
    BY <1>1, <1>2, <1>3 DEF CheckpointSeqs
  <1>6. EndMarks(log2) = EndMarks(log)
    BY <1>1, <1>2, <1>3 DEF EndMarks, Evented
  <1>7. /\ DeltaSeqs(log2) = DeltaSlots(n + 1)
        /\ CheckpointSeqs(log2) = CheckpointSlots(n + 1)
    BY <1>4, <1>5, SlotsNext
  <1> QED
    BY <1>6, <1>7 DEF log2

LEMMA EndShape ==
  ASSUME NEW log, NEW e, e.type \in Evented, NEW log2, log2 = log \cup {e}
  PROVE  /\ DeltaSeqs(log2) = DeltaSeqs(log)
         /\ CheckpointSeqs(log2) = CheckpointSeqs(log)
         /\ EndMarks(log2) = EndMarks(log) \cup {e}
  BY DEF DeltaSeqs, CheckpointSeqs, EndMarks, Evented

LEMMA EmptyShape ==
  /\ DeltaSeqs({}) = {} /\ CheckpointSeqs({}) = {} /\ EndMarks({}) = {}
  /\ DeltaSlots(0) = {} /\ CheckpointSlots(0) = {}
  BY DEF DeltaSeqs, CheckpointSeqs, EndMarks, DeltaSlots, CheckpointSlots

LEMMA GoneStep == TypeOK /\ GoneInv /\ Kind => GoneInv'
  <1> SUFFICES ASSUME TypeOK, GoneInv, Kind, NEW r \in RunIds
               PROVE  /\ runs'[r].status = "absent" =>
                           runs'[r] = AbsentRow /\ notices'[r] = NoNotice
                      /\ runs'[r].status = "deleted" => runs'[r] = DeletedRow
    BY DEF GoneInv
  <1>1. CASE StillAt(r)
    BY <1>1 DEF StillAt, GoneInv
  <1>2. CASE DeletedAt(r)
    BY <1>2, NewRowFields DEF DeletedAt
  <1>3. CASE MovedAt(r) \/ KeepKind(r) \/ DiscardKind(r) \/ LaunchKind(r)
    BY <1>3 DEF MovedAt, Moved, KeepKind, DiscardKind, Settled, LaunchKind,
                Active, Recoverable
  <1>4. CASE DeltaKind(r) \/ EndKind(r)
    BY <1>4 DEF DeltaKind, EndKind, Active, Evented
  <1> QED
    BY <1>1, <1>2, <1>3, <1>4, KindAt

LEMMA CountStep == SafetyInv /\ CountInv /\ Kind => CountInv'
  <1> SUFFICES ASSUME SafetyInv, CountInv, Kind PROVE CountInv'
    OBVIOUS
  <1>0. /\ TypeOK
        /\ exec.pc # "idle" => exec.id \in RunIds
        /\ exec.pc # "idle" => runs[exec.id].status \in Active \cup {"deleted"}
        /\ runs \in [RunIds -> Rows] /\ exec.emitted \in Nat
    BY DEF SafetyInv, TypeOK, ExecInv
  <1>1. ASSUME NEW r \in RunIds, ~LaunchKind(r), ~DeltaKind(r)
        PROVE  /\ runs'[r].status \in Active =>
                    /\ runs[r].status \in Active
                    /\ runs'[r].partial = runs[r].partial
                    /\ runs'[r].lastSeq = runs[r].lastSeq
               /\ runs[r].status = "deleted" => runs'[r].status = "deleted"
    <2>1. CASE StillAt(r) \/ MovedAt(r)
      BY <2>1 DEF StillAt, MovedAt, Moved, Active
    <2>2. CASE KeepKind(r) \/ DiscardKind(r)
      BY <2>2 DEF KeepKind, DiscardKind, Settled, Active, Recoverable
    <2>3. CASE DeletedAt(r) \/ EndKind(r)
      BY <2>3, NewRowFields DEF DeletedAt, EndKind, Active, Evented
    <2> QED
      BY <1>1, <2>1, <2>2, <2>3, KindAt
  <1>2. ASSUME NEW r \in RunIds, DeltaKind(r)
        PROVE  /\ exec.emitted = runs[r].partial /\ exec.id = r
               /\ runs'[r].partial = runs[r].partial + 1
               /\ exec'.emitted = runs'[r].partial
               /\ exec'.id = r /\ exec'.pc = "provider"
               /\ runs'[r].lastSeq = At(runs'[r].partial) - 1
    <2>1. /\ runs[r].status \in Active /\ exec.pc = "emit" /\ exec.id = r
          /\ runs'[r].partial = runs[r].partial + 1
          /\ runs'[r].lastSeq = EndSeq(exec.emitted, runs[r].lastSeq + 1)
          /\ exec'.emitted = exec.emitted + 1
          /\ exec'.id = r /\ exec'.pc = "provider"
      BY <1>2 DEF DeltaKind
    <2>2. /\ exec.emitted = runs[r].partial
          /\ runs[r].lastSeq = At(runs[r].partial) - 1
      BY <2>1 DEF CountInv, Active
    <2>3. At(exec.emitted) \in Nat /\ runs[r].lastSeq + 1 = At(exec.emitted)
      BY <1>0, <2>2, AtNext
    <2> QED
      BY <1>0, <2>1, <2>2, <2>3, AtNext
  <1>3. ASSUME NEW r \in RunIds, LaunchKind(r)
        PROVE  /\ runs'[r].partial = 0 /\ exec'.emitted = 0 /\ exec'.id = r
               /\ exec'.pc = "boundary"
               /\ runs'[r].lastSeq = At(runs'[r].partial) - 1
    <2>1. At(0) = 0
      BY BoundsAssumption DEF At
    <2> QED
      BY <1>3, <2>1 DEF LaunchKind
  <1>4. ASSUME NEW r \in RunIds, runs'[r].status \in Active
        PROVE  runs'[r].lastSeq = At(runs'[r].partial) - 1
    BY <1>1, <1>2, <1>3, <1>4 DEF CountInv
  <1>5. CASE \E t \in RunIds : LaunchKind(t) \/ DeltaKind(t)
    BY <1>2, <1>3, <1>4, <1>5 DEF CountInv
  <1>6. CASE PlainKind /\ ExecKept /\ ~\E t \in RunIds : LaunchKind(t) \/ DeltaKind(t)
    <2>1. CASE exec'.pc = "idle"
      BY <1>4, <2>1 DEF CountInv
    <2>2. CASE exec'.pc # "idle"
      <3>1. /\ exec.pc # "idle"
            /\ exec'.id = exec.id /\ exec'.emitted = exec.emitted
            /\ exec'.pc = "emit" => exec.pc = "emit" \/ exec.emitted < MaxDeltas
        BY <1>6, <2>2 DEF ExecKept
      <3>2. exec'.pc = "emit" => exec'.emitted < MaxDeltas
        BY <3>1 DEF CountInv
      <3>3. ASSUME runs'[exec'.id].status # "deleted"
            PROVE  exec'.emitted = runs'[exec'.id].partial
        <4>1. exec.id \in RunIds /\ runs[exec.id].status \in Active
          <5>1. exec.id \in RunIds
            BY <1>0, <3>1
          <5>2. ~LaunchKind(exec.id) /\ ~DeltaKind(exec.id)
            BY <1>6, <5>1
          <5>3. runs[exec.id].status # "deleted"
            BY <1>1, <3>1, <3>3, <5>1, <5>2
          <5> QED
            BY <1>0, <3>1, <5>1, <5>3
        <4>2. exec.emitted = runs[exec.id].partial
          BY <3>1, <4>1 DEF CountInv, Active
        <4>3. runs'[exec.id].partial = runs[exec.id].partial
          <5>1. CASE StillAt(exec.id) \/ MovedAt(exec.id)
            BY <5>1 DEF StillAt, MovedAt, Moved
          <5>2. CASE KeepKind(exec.id) \/ DiscardKind(exec.id)
            BY <4>1, <5>2 DEF KeepKind, DiscardKind, Settled, Active, Recoverable
          <5>3. CASE DeletedAt(exec.id) \/ EndKind(exec.id)
            BY <3>1, <3>3, <5>3, NewRowFields DEF DeletedAt, EndKind
          <5> QED
            BY <1>6, <4>1, <5>1, <5>2, <5>3, KindAt
        <4> QED
          BY <3>1, <4>2, <4>3
      <3> QED
        BY <1>4, <3>2, <3>3 DEF CountInv
    <2> QED
      BY <2>1, <2>2
  <1> QED
    BY <1>5, <1>6 DEF Kind

\* What LogShape says of one run.
ShapeOf(row, log, notice) ==
    row.status \notin Gone =>
        /\ ~PurgedLog(row, log) => Closed(row, log) /\ Rhythmic(row, log)
        /\ Announced(row, notice)

LEMMA NoticeFields ==
  ASSUME TypeOK, NEW r \in RunIds, NEW seq
  PROVE  /\ [notices[r] EXCEPT !.open = TRUE].through = notices[r].through
         /\ [notices[r] EXCEPT !.open = TRUE].terminal = notices[r].terminal
         /\ [notices[r] EXCEPT !.through = seq].open = notices[r].open
         /\ [notices[r] EXCEPT !.through = seq].through = seq
         /\ [notices[r] EXCEPT !.through = seq].terminal = notices[r].terminal
         /\ [notices[r] EXCEPT !.terminal = seq].open = notices[r].open
         /\ [notices[r] EXCEPT !.terminal = seq].through = notices[r].through
         /\ [notices[r] EXCEPT !.terminal = seq].terminal = seq
  BY DEF TypeOK

LEMMA ShapeStep ==
  ASSUME SafetyInv, CountInv, GoneInv, LogShape, Kind, NEW r \in RunIds
  PROVE  ShapeOf(runs'[r], events'[r], notices'[r])
  <1>0. /\ TypeOK /\ runs[r] \in Rows /\ LogOK(runs[r], events[r])
        /\ ShapeOf(runs[r], events[r], notices[r])
    BY DEF SafetyInv, TypeOK, LogInv, LogShape, ShapeOf
  <1>1. CASE StillAt(r)
    BY <1>0, <1>1 DEF StillAt, ShapeOf, Announced, NoNotice
  <1>2. CASE MovedAt(r)
    BY <1>0, <1>2 DEF MovedAt, Moved, ShapeOf, PurgedLog, Closed, Rhythmic,
       Announced, Gone, Active, Recoverable, Evented
  <1>3. CASE KeepKind(r)
    <2>1. /\ runs[r].status \in Recoverable /\ runs'[r].status = runs[r].status
          /\ runs'[r].lastSeq = runs[r].lastSeq
          /\ runs'[r].partial = runs[r].partial /\ runs[r].partial # 0
          /\ events'[r] = events[r] /\ notices'[r] = notices[r]
      BY <1>0, <1>3 DEF KeepKind, Settled
    <2> QED
      BY <1>0, <2>1 DEF ShapeOf, PurgedLog, Closed, Rhythmic, Announced, Gone,
         Recoverable
  <1>4. CASE DiscardKind(r)
    BY <1>0, <1>4 DEF DiscardKind, Settled, ShapeOf, PurgedLog, Announced, Gone,
       Recoverable
  <1>5. CASE DeletedAt(r)
    BY <1>5, NewRowFields DEF DeletedAt, ShapeOf, Gone
  <1>6. CASE LaunchKind(r)
    <2>1. /\ runs'[r].status = "queued" /\ runs'[r].partial = 0
          /\ runs'[r].lastSeq = -1 /\ events'[r] = {}
          /\ notices'[r].through = -1 /\ notices'[r].terminal = -1
      BY <1>0, <1>6, NoticeFields DEF LaunchKind, LogOK, Gone, GoneInv, NoNotice
    <2> QED
      BY <2>1, EmptyShape DEF ShapeOf, Closed, Rhythmic, Announced,
         Evented
  <1>7. CASE DeltaKind(r)
    <2> DEFINE n == runs[r].partial
    <2>1. /\ runs[r].status \in Active /\ runs'[r].status = runs[r].status
          /\ runs'[r].partial = n + 1
          /\ exec.pc = "emit" /\ exec.id = r
          /\ events'[r] = events[r] \cup DeltaEvents(exec.emitted, runs[r].lastSeq + 1)
          /\ runs'[r].lastSeq = EndSeq(exec.emitted, runs[r].lastSeq + 1)
          /\ notices'[r] = [notices[r] EXCEPT !.through = runs'[r].lastSeq]
      BY <1>7 DEF DeltaKind
    <2>2. exec.emitted = n /\ runs[r].lastSeq = At(n) - 1 /\ n \in Nat
      BY <1>0, <2>1 DEF CountInv, Active, Rows
    <2>3. At(n) \in Nat /\ At(n + 1) \in Nat /\ runs[r].lastSeq + 1 = At(n)
      BY <2>2, AtNext
    <2>4. runs'[r].lastSeq \in Nat \cup {-1} /\ runs[r].lastSeq \in Nat \cup {-1}
      BY <2>1, <2>2, <2>3, AtNext
    <2>5. Closed(runs[r], events[r]) /\ Rhythmic(runs[r], events[r])
      BY <1>0, <2>1 DEF ShapeOf, Gone, Active, PurgedLog, Recoverable
    <2>6. /\ DeltaSeqs(events'[r]) = DeltaSlots(n + 1)
          /\ CheckpointSeqs(events'[r]) = CheckpointSlots(n + 1)
          /\ EndMarks(events'[r]) = EndMarks(events[r])
      <3>1. DeltaSeqs(events[r]) = DeltaSlots(n)
            /\ CheckpointSeqs(events[r]) = CheckpointSlots(n)
        BY <2>5 DEF Rhythmic
      <3>2. events'[r] = events[r] \cup DeltaEvents(n, At(n))
        BY <2>1, <2>2, <2>3
      <3> HIDE DEF n
      <3> QED
        BY <2>2, <3>1, <3>2, DeltaShape
    <2>7. runs[r].status \notin Evented
      BY <2>1 DEF Active, Evented
    <2>8. Closed(runs'[r], events'[r]) /\ Rhythmic(runs'[r], events'[r])
      BY <2>1, <2>5, <2>6, <2>7 DEF Closed, Rhythmic
    <2>9. Announced(runs'[r], notices'[r])
      BY <1>0, <2>1, <2>4, <2>7, NoticeFields DEF ShapeOf, Announced, Gone, Active
    <2> QED
      BY <2>8, <2>9 DEF ShapeOf
  <1>8. CASE EndKind(r)
    <2> DEFINE seq == runs[r].lastSeq + 1
               status == runs'[r].status
    <2>1. /\ runs[r].status \in Active /\ status \in Evented
          /\ runs'[r].partial = runs[r].partial /\ runs'[r].lastSeq = seq
          /\ events'[r] = events[r] \cup {[seq |-> seq, type |-> status]}
          /\ notices'[r] = [notices[r] EXCEPT !.terminal = seq]
      BY <1>8 DEF EndKind
    <2>2. Closed(runs[r], events[r]) /\ Rhythmic(runs[r], events[r])
      BY <1>0, <2>1 DEF ShapeOf, Gone, Active, PurgedLog, Recoverable
    <2>3. EndMarks(events[r]) = {}
      BY <2>1, <2>2 DEF Closed, Active, Evented
    <2>4. /\ DeltaSeqs(events'[r]) = DeltaSeqs(events[r])
          /\ CheckpointSeqs(events'[r]) = CheckpointSeqs(events[r])
          /\ EndMarks(events'[r]) = {[seq |-> seq, type |-> status]}
      <3> DEFINE e == [seq |-> seq, type |-> status]
      <3>1. e.type \in Evented /\ events'[r] = events[r] \cup {e}
        BY <2>1
      <3> HIDE DEF e
      <3>2. /\ DeltaSeqs(events'[r]) = DeltaSeqs(events[r])
            /\ CheckpointSeqs(events'[r]) = CheckpointSeqs(events[r])
            /\ EndMarks(events'[r]) = EndMarks(events[r]) \cup {e}
        BY <3>1, EndShape
      <3> QED
        BY <2>3, <3>2 DEF e
    <2>5. Closed(runs'[r], events'[r]) /\ Rhythmic(runs'[r], events'[r])
      BY <2>1, <2>2, <2>4 DEF Closed, Rhythmic
    <2>6. seq \in Nat /\ runs[r].lastSeq <= seq /\ runs[r].lastSeq \in Int
      BY <1>0, LastSeqType
    <2>7. notices[r].through \in Int
      BY <1>0 DEF TypeOK
    <2>8. Announced(runs'[r], notices'[r])
      BY <1>0, <2>1, <2>6, <2>7, NoticeFields DEF ShapeOf, Announced, Gone, Active
    <2> QED
      BY <2>5, <2>8 DEF ShapeOf
  <1> QED
    BY <1>1, <1>2, <1>3, <1>4, <1>5, <1>6, <1>7, <1>8, KindAt

LEMMA LogShapeStep ==
  SafetyInv /\ CountInv /\ GoneInv /\ LogShape /\ Kind => LogShape'
  BY ShapeStep DEF LogShape, ShapeOf

LEMMA LogShapeImplies == LogShape => LogSound
  <1> SUFFICES ASSUME LogShape PROVE LogSound
    OBVIOUS
  <1>1. TerminalEventClosesLog
    BY DEF LogShape, TerminalEventClosesLog, Exists, Gone, Purged, PurgedLog,
           Closed, EndMarks
  <1>2. CheckpointRhythm
    BY DEF LogShape, CheckpointRhythm, Exists, Gone, Purged, PurgedLog,
           Rhythmic, DeltaSlots, CheckpointSlots, CheckpointSeqs, At
  <1>3. NoticeMatchesLog
    BY DEF LogShape, NoticeMatchesLog, Exists, Gone, Announced
  <1> QED
    BY <1>1, <1>2, <1>3 DEF LogSound

-----------------------------------------------------------------------------
(* Messages and retries.                                                   *)

\* A message m of the chat c, given the row and the log of its run.
Sent(row, log, c, m) ==
    /\ row.status \notin Gone /\ row.chat = c /\ row.hasMessage
    /\ ~PurgedLog(row, log) => m.content = DeltaSeqs(log)

\* Every message belongs to a run of its chat whose message_id is set and has
\* the run's output; no run has two, and a message_id is never dangling.
MessageInv ==
    /\ \A c \in Chats : \A i \in DOMAIN messages[c] :
         LET m == messages[c][i] IN Sent(runs[m.run], events[m.run], c, m)
    /\ \A c \in Chats : \A i, j \in DOMAIN messages[c] :
         messages[c][i].run = messages[c][j].run => i = j
    /\ \A r \in RunIds : runs[r].status \notin Gone /\ runs[r].hasMessage =>
         \E i \in DOMAIN messages[runs[r].chat] :
            messages[runs[r].chat][i].run = r
    /\ \A r \in RunIds : /\ runs[r].status = "completed" => runs[r].hasMessage
                         /\ runs[r].status \in Active => ~runs[r].hasMessage

\* Rows live in existing chats.
HomeInv == \A r \in RunIds : runs[r].status \notin Gone => runs[r].chat \in chats

\* A row that stays in the table keeps its chat, its source and its attempt.
LEMMA OriginKept ==
  ASSUME Kind, NEW r \in RunIds, runs[r].status \notin Gone,
         runs'[r].status \notin Gone
  PROVE  SameOrigin(runs[r], runs'[r])
  <1>1. CASE StillAt(r) \/ MovedAt(r)
    BY <1>1 DEF StillAt, MovedAt, Moved, SameOrigin
  <1>2. CASE KeepKind(r) \/ DiscardKind(r) \/ DeltaKind(r) \/ EndKind(r)
    BY <1>2 DEF KeepKind, DiscardKind, Settled, DeltaKind, EndKind
  <1>3. ~DeletedAt(r)
    BY NewRowFields DEF DeletedAt, Gone
  <1>4. ~LaunchKind(r)
    BY DEF LaunchKind, Gone
  <1> QED
    BY <1>1, <1>2, <1>3, <1>4, KindAt

\* A row that was deleted does not come back.
LEMMA GoneStays ==
  ASSUME Kind, NEW r \in RunIds, runs'[r].status \notin Gone,
         ~LaunchKind(r)
  PROVE  runs[r].status \notin Gone
  <1>1. CASE StillAt(r) \/ MovedAt(r)
    BY <1>1 DEF StillAt, MovedAt, Moved, Active, Gone
  <1>2. CASE KeepKind(r) \/ DiscardKind(r) \/ DeltaKind(r) \/ EndKind(r)
    BY <1>2 DEF KeepKind, DiscardKind, Settled, DeltaKind, EndKind, Active,
                Recoverable, Gone
  <1>3. ~DeletedAt(r)
    BY NewRowFields DEF DeletedAt, Gone
  <1> QED
    BY <1>1, <1>2, <1>3, KindAt

LEMMA HomeStep == TypeOK /\ HomeInv /\ Kind => HomeInv'
  <1> SUFFICES ASSUME TypeOK, HomeInv, Kind, NEW r \in RunIds,
                      runs'[r].status \notin Gone
               PROVE  runs'[r].chat \in chats'
    BY DEF HomeInv
  <1>1. CASE \E c \in Chats : DeleteKind(c)
    <2>1. PICK c \in Chats : DeleteKind(c)
      BY <1>1
    <2>2. /\ chats' = chats \ {c}
          /\ runs' = [q \in RunIds |-> IF runs[q].chat = c THEN DeletedRow
                                       ELSE runs[q]]
      BY <2>1 DEF DeleteKind, CharactersDelete
    <2> QED
      BY <2>2, NewRowFields DEF HomeInv, Gone
  <1>2. CASE ~\E c \in Chats : DeleteKind(c)
    <2>1. chats' = chats
      BY <1>2 DEF Kind, PlainKind, MoveKind, KeepKind, DiscardKind, EndKind,
         RecoverKind, QuietKind, LaunchKind, DeltaKind
    <2>2. CASE LaunchKind(r)
      BY <2>1, <2>2 DEF LaunchKind, Origin, HomeInv, Recoverable, Gone
    <2>3. CASE ~LaunchKind(r)
      BY <2>1, <2>3, GoneStays, OriginKept DEF SameOrigin, HomeInv
    <2> QED
      BY <2>2, <2>3
  <1> QED
    BY <1>1, <1>2

LEMMA SourceStep == TypeOK /\ TypeOK' /\ RetryChain /\ Kind => RetryChain'
  <1> SUFFICES ASSUME TypeOK, TypeOK', RetryChain, Kind, NEW r \in RunIds,
                      runs'[r].status \notin Gone, runs'[r].source # None
               PROVE  LET source == runs'[runs'[r].source] IN
                      /\ source.status \in Recoverable
                      /\ source.chat = runs'[r].chat
                      /\ runs'[r].attempt = source.attempt + 1
    BY DEF RetryChain, Exists, Gone
  <1> DEFINE s == runs'[r].source
  <1>0. s \in RunIds
    BY DEF TypeOK, Rows
  <1>1. CASE LaunchKind(r)
    <2>1. /\ runs[r].status = "absent" /\ runs[s].status \in Recoverable
          /\ runs'[r].chat = runs[s].chat
          /\ runs'[r].attempt = runs[s].attempt + 1
      BY <1>0, <1>1 DEF LaunchKind, Origin
    <2>2. runs'[s] = runs[s]
      BY <1>0, <1>1, <2>1 DEF LaunchKind, Others, Recoverable
    <2> QED
      BY <2>1, <2>2
  <1>2. CASE ~LaunchKind(r)
    <2>1. runs[r].status \notin Gone
      BY <1>2, GoneStays
    <2>2. /\ runs'[r].chat = runs[r].chat /\ runs[r].source = s
          /\ runs'[r].attempt = runs[r].attempt
      BY <2>1, OriginKept DEF SameOrigin
    <2> HIDE DEF s
    <2>3. /\ runs[s].status \in Recoverable /\ runs[s].chat = runs[r].chat
          /\ runs[r].attempt = runs[s].attempt + 1
      BY <2>1, <2>2 DEF RetryChain, Exists, Gone, s
    <2>4. runs'[s].status = runs[s].status /\ SameOrigin(runs[s], runs'[s])
      <3>1. CASE StillAt(s)
        BY <3>1 DEF StillAt, SameOrigin
      <3>2. CASE KeepKind(s) \/ DiscardKind(s)
        BY <3>2 DEF KeepKind, DiscardKind, Settled
      <3>3. ~DeletedAt(s)
        <4>1. DeletedAt(s) => runs'[r] = DeletedRow
          BY <2>3 DEF DeletedAt, DeleteKind, CharactersDelete
        <4> QED
          BY <4>1, NewRowFields DEF Gone
      <3>4. ~MovedAt(s) /\ ~LaunchKind(s) /\ ~DeltaKind(s) /\ ~EndKind(s)
        BY <2>3 DEF MovedAt, Moved, LaunchKind, DeltaKind, EndKind, Active,
                    Recoverable
      <3> QED
        BY <1>0, <3>1, <3>2, <3>3, <3>4, KindAt
    <2> QED
      BY <2>2, <2>3, <2>4 DEF SameOrigin, s
  <1> QED
    BY <1>1, <1>2

-----------------------------------------------------------------------------
(* The messages of a chat.                                                 *)

\* A step keeps the messages, adds the one of a run that had none, or
\* deletes those of a chat with its runs.
KeepsMessages ==
    /\ messages' = messages
    /\ \A r \in RunIds :
         /\ runs'[r].hasMessage => runs[r].hasMessage
         /\ runs[r].status \notin Gone => runs'[r].status \notin Gone
AddsMessage(t) ==
    /\ InsertMessage(t) /\ Others(t)
    /\ runs[t].status \notin Gone /\ runs'[t].status \notin Gone
    /\ ~runs[t].hasMessage /\ runs'[t].hasMessage
    /\ runs'[t].chat = runs[t].chat
    /\ DeltaSeqs(events'[t]) = DeltaSeqs(events[t])

LEMMA KindMessages ==
  ASSUME TypeOK, MessageInv, Kind
  PROVE  \/ KeepsMessages
         \/ \E t \in RunIds : AddsMessage(t)
         \/ \E c \in Chats : DeleteKind(c)
  <1>0. \A r \in RunIds : runs[r].hasMessage \in BOOLEAN
    BY DEF TypeOK, Rows
  <1>1. ASSUME NEW t \in RunIds, Others(t), messages' = messages,
               runs'[t].hasMessage => runs[t].hasMessage,
               runs[t].status \notin Gone => runs'[t].status \notin Gone
        PROVE  KeepsMessages
    BY <1>1 DEF Others, KeepsMessages
  <1>2. ASSUME NEW t \in RunIds, MoveKind(t) PROVE KeepsMessages
    BY <1>1, <1>2 DEF MoveKind, Moved, Active, Gone
  <1>3. ASSUME NEW t \in RunIds, DiscardKind(t) PROVE KeepsMessages
    BY <1>1, <1>3 DEF DiscardKind, Settled
  <1>4. ASSUME NEW t \in RunIds, LaunchKind(t) PROVE KeepsMessages
    BY <1>1, <1>4 DEF LaunchKind, Gone
  <1>5. ASSUME NEW t \in RunIds, DeltaKind(t) PROVE KeepsMessages
    BY <1>1, <1>5 DEF DeltaKind
  <1>6. ASSUME NEW t \in RunIds, KeepKind(t) PROVE AddsMessage(t)
    BY <1>6 DEF KeepKind, Settled, SameOrigin, AddsMessage, Gone, Recoverable
  <1>7. ASSUME NEW t \in RunIds, EndKind(t), runs'[t].status = "completed"
        PROVE  AddsMessage(t)
    <2>1. /\ runs[t].status \in Active /\ runs'[t].status \in Evented
          /\ runs'[t].hasMessage /\ runs'[t].chat = runs[t].chat
          /\ Others(t) /\ InsertMessage(t)
          /\ events'[t] = events[t] \cup {[seq |-> runs[t].lastSeq + 1,
                                           type |-> runs'[t].status]}
      BY <1>7 DEF EndKind, SameOrigin
    <2>2. DeltaSeqs(events'[t]) = DeltaSeqs(events[t])
      BY <2>1, EndAddsNoDelta, Zenon
    <2>3. ~runs[t].hasMessage
      BY <2>1 DEF MessageInv
    <2> QED
      BY <2>1, <2>2, <2>3 DEF AddsMessage, Active, Evented, Gone
  <1>8. ASSUME NEW t \in RunIds, EndKind(t), runs'[t].status # "completed"
        PROVE  KeepsMessages
    BY <1>0, <1>1, <1>8 DEF EndKind, Evented, Gone
  <1>9. CASE RecoverKind
    BY <1>9 DEF RecoverKind, Moved, KeepsMessages, Gone
  <1>10. CASE QuietKind
    BY <1>10 DEF QuietKind, KeepsMessages
  <1> QED
    BY <1>2, <1>3, <1>4, <1>5, <1>6, <1>7, <1>8, <1>9, <1>10
    DEF Kind, PlainKind

\* A message stays true to its run as long as the run is in the table.
LEMMA SentStays ==
  ASSUME TypeOK, MessageInv, Kind, NEW r \in RunIds, NEW c, NEW m,
         Sent(runs[r], events[r], c, m), runs'[r].status \notin Gone
  PROVE  Sent(runs'[r], events'[r], c, m)
  <1>1. runs[r].status \notin Active /\ runs[r].hasMessage
    BY DEF Sent, MessageInv
  <1>2. CASE StillAt(r)
    BY <1>2 DEF StillAt, Sent
  <1>3. CASE DiscardKind(r)
    BY <1>1, <1>3 DEF DiscardKind, Settled, SameOrigin, Sent, PurgedLog
  <1>4. ~MovedAt(r) /\ ~KeepKind(r) /\ ~DeltaKind(r) /\ ~EndKind(r)
    BY <1>1 DEF MovedAt, Moved, KeepKind, DeltaKind, EndKind
  <1>5. ~DeletedAt(r) /\ ~LaunchKind(r)
    BY NewRowFields DEF DeletedAt, LaunchKind, Sent, Gone
  <1> QED
    BY <1>2, <1>3, <1>4, <1>5, KindAt

\* What a message_id says of a row's status.
LEMMA HasMessageStep ==
  ASSUME TypeOK, MessageInv, Kind, NEW r \in RunIds
  PROVE  /\ runs'[r].status = "completed" => runs'[r].hasMessage
         /\ runs'[r].status \in Active => ~runs'[r].hasMessage
  <1>0. /\ runs[r].status = "completed" => runs[r].hasMessage
        /\ runs[r].status \in Active => ~runs[r].hasMessage
        /\ runs[r].hasMessage \in BOOLEAN
    BY DEF MessageInv, TypeOK, Rows
  <1>1. CASE StillAt(r) \/ MovedAt(r)
    BY <1>0, <1>1 DEF StillAt, MovedAt, Moved, Active
  <1>2. CASE KeepKind(r) \/ DiscardKind(r)
    BY <1>0, <1>2 DEF KeepKind, DiscardKind, Settled, Recoverable, Active
  <1>3. CASE DeltaKind(r)
    BY <1>0, <1>3 DEF DeltaKind, Active
  <1>4. CASE EndKind(r)
    BY <1>0, <1>4 DEF EndKind, Evented, Active
  <1>5. CASE LaunchKind(r)
    BY <1>5 DEF LaunchKind, Active
  <1>6. CASE DeletedAt(r)
    BY <1>6, NewRowFields DEF DeletedAt, Active
  <1> QED
    BY <1>1, <1>2, <1>3, <1>4, <1>5, <1>6, KindAt

LEMMA MessageStep ==
  ASSUME TypeOK, TypeOK', GoneInv, HomeInv, MessageInv, Kind
  PROVE  MessageInv'
  <1> DEFINE SentInv(c, i) ==
               LET m == messages'[c][i] IN
               Sent(runs'[m.run], events'[m.run], c, m)
             HasOne(r) ==
               runs'[r].status \notin Gone /\ runs'[r].hasMessage =>
                 \E i \in DOMAIN messages'[runs'[r].chat] :
                    messages'[runs'[r].chat][i].run = r
  <1>0. /\ messages \in [Chats -> Seq(MessageRecords)]
        /\ runs \in [RunIds -> Rows] /\ chats \subseteq Chats
        /\ \A c \in Chats : \A i \in DOMAIN messages[c] :
             messages[c][i].run \in RunIds
    <2>1. /\ messages \in [Chats -> Seq(MessageRecords)]
          /\ runs \in [RunIds -> Rows] /\ chats \subseteq Chats
      BY DEF TypeOK
    <2>2. ASSUME NEW c \in Chats, NEW i \in DOMAIN messages[c]
          PROVE  messages[c][i].run \in RunIds
      <3>1. messages[c] \in Seq(MessageRecords)
        BY <2>1
      <3>2. messages[c][i] \in MessageRecords
        BY <2>2, <3>1, ElementOfSeq
      <3> QED
        BY <3>2 DEF MessageRecords
    <2> QED
      BY <2>1, <2>2
  <1>1. ASSUME NEW r \in RunIds, runs[r].hasMessage
        PROVE  runs[r].status \notin Gone
    BY <1>1 DEF GoneInv, AbsentRow, DeletedRow, Gone
  <1>2. CASE KeepsMessages
    <2>1. ASSUME NEW c \in Chats, NEW i \in DOMAIN messages'[c]
          PROVE  SentInv(c, i)
      <3> DEFINE m == messages[c][i]
      <3>1. messages'[c][i] = m /\ i \in DOMAIN messages[c]
        BY <1>2 DEF KeepsMessages
      <3>2. m.run \in RunIds /\ Sent(runs[m.run], events[m.run], c, m)
        BY <1>0, <3>1 DEF MessageInv
      <3>3. runs'[m.run].status \notin Gone
        BY <1>2, <3>2 DEF KeepsMessages, Sent
      <3>4. Sent(runs'[m.run], events'[m.run], c, m)
        BY <3>2, <3>3, SentStays
      <3> QED
        BY <3>1, <3>4
    <2>2. ASSUME NEW r \in RunIds PROVE HasOne(r)
      <3> HAVE runs'[r].status \notin Gone /\ runs'[r].hasMessage
      <3>1. runs[r].hasMessage /\ runs[r].status \notin Gone
        BY <1>1, <1>2 DEF KeepsMessages
      <3>2. runs'[r].chat = runs[r].chat
        BY <3>1, OriginKept DEF SameOrigin
      <3> QED
        BY <1>2, <3>1, <3>2 DEF KeepsMessages, MessageInv
    <2>3. \A c \in Chats : \A i, j \in DOMAIN messages'[c] :
            messages'[c][i].run = messages'[c][j].run => i = j
      BY <1>2 DEF KeepsMessages, MessageInv
    <2> QED
      BY <2>1, <2>2, <2>3, HasMessageStep DEF MessageInv
  <1>3. ASSUME NEW t \in RunIds, AddsMessage(t) PROVE MessageInv'
    <2> DEFINE h == runs[t].chat
               n == Len(messages[h]) + 1
               new == [run |-> t, content |-> DeltaSeqs(events[t])]
    <2>1. h \in Chats
      BY <1>0, <1>3 DEF AddsMessage, HomeInv
    <2>2. messages' = [messages EXCEPT ![h] = Append(@, new)]
      BY <1>3 DEF AddsMessage, InsertMessage
    <2>3. new.run = t /\ new.content = DeltaSeqs(events[t])
      OBVIOUS
    <2> HIDE DEF new
    <2>4. /\ \A c \in Chats \ {h} : messages'[c] = messages[c]
          /\ messages'[h] = Append(messages[h], new)
      BY <1>0, <2>1, <2>2
    <2>5. /\ DOMAIN messages'[h] = DOMAIN messages[h] \cup {n}
          /\ \A i \in DOMAIN messages[h] : messages'[h][i] = messages[h][i]
          /\ messages'[h][n] = new /\ n \notin DOMAIN messages[h]
      BY <1>0, <2>1, <2>4
    <2> HIDE DEF n, h
    <2>6. \A i \in DOMAIN messages[h] : messages[h][i].run # t
      BY <1>3, <2>1 DEF MessageInv, Sent, AddsMessage
    <2>7. ASSUME NEW c \in Chats, NEW i \in DOMAIN messages[c]
          PROVE  LET m == messages[c][i] IN
                 Sent(runs'[m.run], events'[m.run], c, m)
      <3>1. messages[c][i].run # t
        <4>1. Sent(runs[messages[c][i].run], events[messages[c][i].run], c, messages[c][i])
          BY <2>7 DEF MessageInv
        <4> QED
          BY <1>3, <4>1 DEF AddsMessage, Sent
      <3>2. messages[c][i].run \in RunIds
        BY <1>0
      <3> QED
        BY <1>3, <3>1, <3>2 DEF AddsMessage, Others, MessageInv
    <2>8. Sent(runs'[t], events'[t], h, new)
      BY <1>3, <2>3 DEF AddsMessage, Sent, h
    <2>9. ASSUME NEW c \in Chats, NEW i \in DOMAIN messages'[c]
          PROVE  SentInv(c, i)
      BY <2>3, <2>4, <2>5, <2>7, <2>8
    <2>10. \A c \in Chats : \A i, j \in DOMAIN messages'[c] :
             messages'[c][i].run = messages'[c][j].run => i = j
      <3>1. \A c \in Chats : \A i, j \in DOMAIN messages[c] :
              messages[c][i].run = messages[c][j].run => i = j
        BY DEF MessageInv
      <3>2. ASSUME NEW i \in DOMAIN messages'[h], NEW j \in DOMAIN messages'[h],
                   messages'[h][i].run = messages'[h][j].run
            PROVE  i = j
        <4>1. CASE i = n \/ j = n
          BY <2>3, <2>5, <2>6, <3>2, <4>1
        <4>2. CASE i # n /\ j # n
          BY <2>1, <2>5, <3>1, <3>2, <4>2
        <4> QED
          BY <4>1, <4>2
      <3> QED
        BY <2>4, <3>1, <3>2
    <2>11. ASSUME NEW r \in RunIds PROVE HasOne(r)
      <3>1. CASE r = t
        BY <1>3, <2>3, <2>5, <3>1 DEF AddsMessage, h
      <3>2. CASE r # t
        <4> HAVE runs'[r].status \notin Gone /\ runs'[r].hasMessage
        <4>1. runs'[r] = runs[r]
          BY <1>3, <3>2 DEF AddsMessage, Others
        <4>2. runs[r].chat \in Chats
          BY <1>0, <4>1 DEF HomeInv
        <4>3. PICK i \in DOMAIN messages[runs[r].chat] :
                messages[runs[r].chat][i].run = r
          BY <4>1 DEF MessageInv
        <4>4. /\ i \in DOMAIN messages'[runs[r].chat]
              /\ messages'[runs[r].chat][i] = messages[runs[r].chat][i]
          BY <2>4, <2>5, <4>2
        <4> QED
          BY <4>1, <4>3, <4>4
      <3> QED
        BY <3>1, <3>2
    <2> QED
      BY <2>9, <2>10, <2>11, HasMessageStep DEF MessageInv
  <1>4. ASSUME NEW d \in Chats, DeleteKind(d) PROVE MessageInv'
    <2>1. /\ messages' = [messages EXCEPT ![d] = <<>>]
          /\ runs' = [r \in RunIds |-> IF runs[r].chat = d THEN DeletedRow
                                       ELSE runs[r]]
          /\ events' = [r \in RunIds |-> IF runs[r].chat = d THEN {}
                                         ELSE events[r]]
      BY <1>4 DEF DeleteKind, CharactersDelete
    <2>2. /\ DOMAIN messages'[d] = {}
          /\ \A c \in Chats \ {d} : messages'[c] = messages[c]
      BY <1>0, <2>1
    <2>3. \A r \in RunIds : runs'[r].status \notin Gone =>
            runs'[r] = runs[r] /\ runs[r].chat # d
      BY <2>1, NewRowFields DEF Gone
    <2>4. ASSUME NEW c \in Chats, NEW i \in DOMAIN messages'[c]
          PROVE  SentInv(c, i)
      <3> DEFINE m == messages[c][i]
      <3>1. c # d /\ messages'[c][i] = m /\ i \in DOMAIN messages[c]
        BY <2>2
      <3>2. m.run \in RunIds /\ Sent(runs[m.run], events[m.run], c, m)
        BY <1>0, <3>1 DEF MessageInv
      <3>3. runs'[m.run] = runs[m.run] /\ events'[m.run] = events[m.run]
        BY <2>1, <3>1, <3>2 DEF Sent
      <3> QED
        BY <3>1, <3>2, <3>3
    <2>5. \A c \in Chats : \A i, j \in DOMAIN messages'[c] :
            messages'[c][i].run = messages'[c][j].run => i = j
      BY <2>2 DEF MessageInv
    <2>6. ASSUME NEW r \in RunIds PROVE HasOne(r)
      <3> HAVE runs'[r].status \notin Gone /\ runs'[r].hasMessage
      <3>1. runs'[r] = runs[r] /\ runs[r].chat # d
        BY <2>3
      <3>2. runs[r].chat \in Chats
        BY <1>0, <3>1 DEF HomeInv
      <3> QED
        BY <2>2, <3>1, <3>2 DEF MessageInv
    <2> QED
      BY <2>4, <2>5, <2>6, HasMessageStep DEF MessageInv
  <1> QED
    BY <1>2, <1>3, <1>4, KindMessages

\* With at most one index per run, a message is counted once.
LEMMA MessageImplies == TypeOK /\ HomeInv /\ MessageInv => OneMessagePerRun
  <1> SUFFICES ASSUME TypeOK, HomeInv, MessageInv, NEW r \in RunIds,
                      runs[r].status \notin Gone
               PROVE  /\ Cardinality(MessagesOf(r)) =
                           IF runs[r].hasMessage THEN 1 ELSE 0
                      /\ ~Purged(r) => \A i \in MessagesOf(r) :
                           messages[runs[r].chat][i].content = DeltaSeqs(events[r])
    BY DEF OneMessagePerRun, Exists, Gone, MessageInv
  <1>1. runs[r].chat \in Chats
    BY DEF TypeOK, HomeInv
  <1>2. \A i \in MessagesOf(r) :
          /\ i \in DOMAIN messages[runs[r].chat]
          /\ messages[runs[r].chat][i].run = r
          /\ Sent(runs[r], events[r], runs[r].chat, messages[runs[r].chat][i])
    BY <1>1 DEF MessagesOf, MessageInv
  <1>3. CASE runs[r].hasMessage
    <2>1. PICK i \in DOMAIN messages[runs[r].chat] :
            messages[runs[r].chat][i].run = r
      BY <1>3 DEF MessageInv
    <2>2. MessagesOf(r) = {i}
      BY <1>1, <2>1 DEF MessagesOf, MessageInv
    <2> QED
      BY <1>2, <1>3, <2>2, FS_Singleton DEF Sent, Purged, PurgedLog
  <1>4. CASE ~runs[r].hasMessage
    <2>1. MessagesOf(r) = {}
      BY <1>2, <1>4 DEF Sent
    <2> QED
      BY <1>4, <2>1, FS_EmptySet
  <1> QED
    BY <1>3, <1>4

-----------------------------------------------------------------------------
(* The command channel.                                                    *)

Waits(q, c) == \E i \in DOMAIN q : q[i].client = c
Once(q) == \A i, j \in DOMAIN q :
    q[i].client = q[j].client /\ q[i].client \in Clients => i = j

\* A caller's command is in one place, once, exactly while it waits.
ChannelInv ==
    /\ Once(queue) /\ Once(pending)
    /\ \A c \in Clients : ~(Waits(queue, c) /\ Waits(pending, c))
    /\ \A c \in Clients :
         client[c] = "waiting" <=> Waits(queue, c) \/ Waits(pending, c)

\* Without a dropped handle no shutdown is under way.
StopInv ==
    drops = 0 => ~stop /\ \A i \in DOMAIN queue : queue[i].op # "shutdown"

\* The ways of moving a command.
Idles == UNCHANGED <<queue, pending, client, stop, drops>>
Arrives == \E cmd \in Commands :
    /\ cmd.client \in Clients /\ client[cmd.client] = "idle"
    /\ cmd.op # "shutdown"
    /\ queue' = Append(queue, cmd)
    /\ client' = [client EXCEPT ![cmd.client] = "waiting"]
    /\ UNCHANGED <<pending, stop, drops>>
Shuts == \E cmd \in ShutdownCommands :
    /\ queue' = Append(queue, cmd) /\ drops' = drops + 1
    /\ UNCHANGED <<pending, client, stop>>
Answered ==
    /\ queue # <<>> /\ Head(queue).client \in Clients
    /\ queue' = Tail(queue) /\ Reply(Head(queue))
    /\ UNCHANGED <<pending, stop, drops>>
AnsweredLate ==
    /\ pending # <<>> /\ pending' = Tail(pending) /\ Reply(Head(pending))
    /\ UNCHANGED <<queue, stop, drops>>
Stops ==
    /\ queue # <<>> /\ Head(queue).op = "shutdown"
    /\ queue' = Tail(queue) /\ stop' = TRUE
    /\ UNCHANGED <<pending, client, drops>>
Defers ==
    /\ queue # <<>> /\ Head(queue) \in StreamCommands
    /\ queue' = Tail(queue) /\ pending' = Append(pending, Head(queue))
    /\ UNCHANGED <<client, stop, drops>>
Clears ==
    /\ queue' = <<>> /\ pending' = <<>> /\ stop' = FALSE /\ drops' = drops
    /\ client' = [c \in Clients |-> "idle"]

ChannelKind ==
    \/ Idles \/ Arrives \/ Shuts \/ Answered \/ AnsweredLate \/ Stops
    \/ Defers \/ Clears

LEMMA StreamTaken ==
  ASSUME TypeOK, StreamReady, TakeStream, Reply(StreamHead),
         UNCHANGED <<stop, drops>>
  PROVE  ChannelKind
  <1>1. CASE pending # <<>>
    BY <1>1 DEF TakeStream, StreamHead, ChannelKind, AnsweredLate
  <1>2. CASE pending = <<>>
    <2>1. queue # <<>> /\ Head(queue) \in Commands /\ Head(queue).op \in StreamOps
      BY <1>2, HeadOfQueue DEF StreamReady
    <2>2. Head(queue).client \in Clients
      BY <2>1, CommandTargets DEF StreamOps
    <2> QED
      BY <1>2, <2>1, <2>2 DEF TakeStream, StreamHead, ChannelKind, Answered
  <1> QED
    BY <1>1, <1>2

LEMMA UnaryAnswered ==
  ASSUME TypeOK, queue # <<>>, Head(queue).op \in UnaryOps,
         queue' = Tail(queue), Reply(Head(queue)),
         UNCHANGED <<pending, stop, drops>>
  PROVE  ChannelKind
  <1>1. Head(queue).client \in Clients
    BY HeadOfQueue, CommandTargets DEF UnaryOps
  <1> QED
    BY <1>1 DEF ChannelKind, Answered

LEMMA TerminalChannel ==
  ASSUME NEW local, NEW status, TerminalCommit(local, status)
  PROVE  Idles /\ UNCHANGED <<crashes, faults>>
  BY DEF TerminalCommit, Idles, budgets

LEMMA ExecutorChannel ==
  ASSUME \/ ShutdownAtBoundary \/ Prepare \/ BeginStreaming \/ AdapterEmits
         \/ CommitDelta \/ StopEmitting \/ RunVanished \/ AdapterCompletes
         \/ AdapterFails \/ AdapterCancelled
  PROVE  Idles /\ UNCHANGED <<crashes, faults>>
  <1>1. CASE ShutdownAtBoundary \/ AdapterEmits \/ RunVanished
    BY <1>1 DEF ShutdownAtBoundary, CommitShutdownProgress, AdapterEmits,
       RunVanished, Idles, budgets
  <1>2. CASE CommitDelta
    BY <1>2 DEF CommitDelta, Idles, budgets
  <1>3. CASE StopEmitting \/ AdapterCompletes \/ AdapterFails \/ AdapterCancelled
    BY <1>3, TerminalChannel
    DEF StopEmitting, AdapterCompletes, AdapterFails, AdapterCancelled
  <1>4. CASE Prepare \/ BeginStreaming
    BY <1>4, TerminalChannel
    DEF Prepare, BeginStreaming, CasStatus, Idles, budgets
  <1> QED
    BY <1>1, <1>2, <1>3, <1>4

\* Every step moves commands in one of these ways, and no step forgets a
\* crash, a fault or a shutdown.
LEMMA NextChannel ==
  ASSUME TypeOK, [Next]_vars
  PROVE  ChannelKind /\ (Calm' => Calm)
  <1>0. crashes \in Nat /\ faults \in Nat /\ drops \in Nat
    BY DEF TypeOK
  <1>1. ASSUME NEW c \in Clients, NEW op \in UnaryOps \cup StreamOps,
               NEW target \in Targets(op), Dispatch(c, op, target)
        PROVE  ChannelKind /\ (Calm' => Calm)
    <2> DEFINE cmd == [op |-> op, client |-> c, target |-> target]
    <2>1. cmd \in Commands
      BY DEF Commands, UnaryCommands, StreamCommands, UnaryOps, StreamOps,
             Targets, Known
    <2>2. cmd.client = c /\ cmd.op # "shutdown"
      BY DEF UnaryOps, StreamOps
    <2>3. /\ client[c] = "idle" /\ queue' = Append(queue, cmd)
          /\ client' = [client EXCEPT ![c] = "waiting"]
          /\ UNCHANGED <<pending, stop, drops, crashes, faults>>
      BY <1>1 DEF Dispatch
    <2> HIDE DEF cmd
    <2>4. Arrives
      BY <2>1, <2>2, <2>3 DEF Arrives
    <2> QED
      BY <2>3, <2>4 DEF ChannelKind, Calm
  <1>2. CASE DropKernel
    BY <1>0, <1>2 DEF DropKernel, ChannelKind, Shuts, ShutdownCommands, Calm
  <1>3. CASE ServeUnary \/ ServeUnaryCancelled \/ ServeUnaryFault
    BY <1>0, <1>3, UnaryAnswered
    DEF ServeUnary, ServeUnaryCancelled, ServeUnaryFault, Serving, budgets, Calm
  <1>4. CASE ServeShutdown
    BY <1>4 DEF ServeShutdown, Serving, ChannelKind, Stops, budgets, Calm
  <1>5. CASE DeferStream
    <2>1. Head(queue) \in StreamCommands
      BY <1>5, HeadOfQueue, CommandTargets DEF DeferStream
    <2> QED
      BY <1>5, <2>1 DEF DeferStream, ChannelKind, Defers, budgets, Calm
  <1>6. CASE StreamRefused \/ StreamFault \/ \E r \in RunIds : StreamStart(r)
    BY <1>0, <1>6, StreamTaken
    DEF StreamRefused, StreamFault, StreamStart, budgets, Calm
  <1>7. CASE \/ ShutdownAtBoundary \/ Prepare \/ BeginStreaming \/ AdapterEmits
             \/ CommitDelta \/ StopEmitting \/ RunVanished \/ AdapterCompletes
             \/ AdapterFails \/ AdapterCancelled
    BY <1>7, ExecutorChannel DEF ChannelKind, Idles, Calm
  <1>8. CASE ExecutorFault \/ OpenRecoveryFault
    BY <1>0, <1>8 DEF ExecutorFault, OpenRecoveryFault, ChannelKind, Idles, Calm
  <1>9. CASE WriterExit \/ Crash
    BY <1>0, <1>9 DEF WriterExit, Crash, ChannelKind, Clears, budgets, Calm
  <1>10. CASE Open \/ \E r \in RunIds : LeaseExpires(r)
    BY <1>10 DEF Open, LeaseExpires, ChannelKind, Idles, volatile, budgets, Calm
  <1>11. CASE UNCHANGED vars
    BY <1>11 DEF vars, ChannelKind, Idles, Calm
  <1>12. CASE Caller
    BY <1>1, <1>2, <1>12 DEF Caller
  <1>13. CASE Writer
    BY <1>3, <1>4, <1>5, <1>6, <1>7, <1>9, <1>13 DEF Writer
  <1>14. CASE Failure
    BY <1>3, <1>6, <1>8, <1>9, <1>14 DEF Failure
  <1> QED
    BY <1>10, <1>11, <1>12, <1>13, <1>14 DEF Next

-----------------------------------------------------------------------------
(* Each way of moving a command keeps the channel sound.                   *)

LEMMA AppendWaits ==
  ASSUME NEW S, NEW q \in Seq(S), NEW x \in S
  PROVE  /\ \A c : Waits(Append(q, x), c) <=> Waits(q, c) \/ x.client = c
         /\ Once(q) /\ (x.client \in Clients => ~Waits(q, x.client))
              => Once(Append(q, x))
  <1> DEFINE n == Len(q) + 1
             p == Append(q, x)
  <1>1. /\ DOMAIN p = DOMAIN q \cup {n} /\ n \notin DOMAIN q
        /\ \A i \in DOMAIN q : p[i] = q[i]
        /\ p[n] = x
    OBVIOUS
  <1> HIDE DEF n, p
  <1>2. \A c : Waits(p, c) <=> Waits(q, c) \/ x.client = c
    BY <1>1 DEF Waits
  <1>3. ASSUME Once(q), x.client \in Clients => ~Waits(q, x.client)
        PROVE  Once(p)
    BY <1>1, <1>3 DEF Once, Waits
  <1> QED
    BY <1>2, <1>3 DEF p

LEMMA TailWaits ==
  ASSUME NEW S, NEW q \in Seq(S), q # <<>>, Once(q)
  PROVE  /\ \A c \in Clients :
              Waits(Tail(q), c) <=> Waits(q, c) /\ c # Head(q).client
         /\ Once(Tail(q))
  <1> DEFINE p == Tail(q)
  <1>1. /\ Len(q) \in Nat /\ Len(q) > 0 /\ DOMAIN q = 1 .. Len(q)
        /\ DOMAIN p = 1 .. Len(q) - 1 /\ Head(q) = q[1]
        /\ \A i \in DOMAIN p : p[i] = q[i + 1]
    OBVIOUS
  <1> HIDE DEF p
  <1>2. Once(p)
    BY <1>1 DEF Once
  <1>3. ASSUME NEW c \in Clients, Waits(p, c)
        PROVE  Waits(q, c) /\ c # Head(q).client
    <2>1. PICK i \in DOMAIN p : p[i].client = c
      BY <1>3 DEF Waits
    <2>2. i + 1 \in DOMAIN q /\ q[i + 1].client = c /\ 1 \in DOMAIN q /\ i + 1 # 1
      BY <1>1, <2>1
    <2> QED
      BY <1>1, <2>2 DEF Waits, Once
  <1>4. ASSUME NEW c \in Clients, Waits(q, c), c # Head(q).client
        PROVE  Waits(p, c)
    <2>1. PICK i \in DOMAIN q : q[i].client = c
      BY <1>4 DEF Waits
    <2>2. i - 1 \in DOMAIN p /\ (i - 1) + 1 = i
      BY <1>1, <1>4, <2>1
    <2>3. p[i - 1] = q[i]
      BY <1>1, <2>2
    <2> QED
      BY <2>1, <2>2, <2>3 DEF Waits
  <1> QED
    BY <1>2, <1>3, <1>4 DEF p

LEMMA EmptyWaits == Once(<<>>) /\ \A c : ~Waits(<<>>, c)
  BY DEF Once, Waits

LEMMA ChannelStep == TypeOK /\ ChannelInv /\ ChannelKind => ChannelInv'
  <1> SUFFICES ASSUME TypeOK, ChannelInv, ChannelKind PROVE ChannelInv'
    OBVIOUS
  <1>0. /\ queue \in Seq(Commands) /\ pending \in Seq(StreamCommands)
        /\ client \in [Clients -> {"idle", "waiting"}]
        /\ Once(queue) /\ Once(pending) /\ None \notin Clients
    BY NoneAssumption DEF TypeOK, ChannelInv, Commands
  <1>1. CASE Idles
    BY <1>1 DEF Idles, ChannelInv, Once, Waits
  <1>2. CASE Arrives
    <2>1. PICK cmd \in Commands :
            /\ cmd.client \in Clients /\ client[cmd.client] = "idle"
            /\ queue' = Append(queue, cmd) /\ pending' = pending
            /\ client' = [client EXCEPT ![cmd.client] = "waiting"]
      BY <1>2 DEF Arrives
    <2>2. ~Waits(queue, cmd.client) /\ ~Waits(pending, cmd.client)
      BY <2>1 DEF ChannelInv
    <2>3. /\ \A c : Waits(queue', c) <=> Waits(queue, c) \/ cmd.client = c
          /\ Once(queue')
      BY <1>0, <2>1, <2>2, AppendWaits
    <2>4. \A c \in Clients :
            client'[c] = "waiting" <=> client[c] = "waiting" \/ c = cmd.client
      BY <1>0, <2>1
    <2> QED
      BY <1>0, <2>1, <2>2, <2>3, <2>4 DEF ChannelInv
  <1>3. CASE Shuts
    <2>1. PICK cmd \in ShutdownCommands :
            queue' = Append(queue, cmd) /\ UNCHANGED <<pending, client>>
      BY <1>3 DEF Shuts
    <2>2. cmd \in Commands /\ cmd.client \notin Clients
      BY <1>0 DEF ShutdownCommands, Commands
    <2>3. /\ \A c : Waits(queue', c) <=> Waits(queue, c) \/ cmd.client = c
          /\ Once(queue')
      BY <1>0, <2>1, <2>2, AppendWaits
    <2> QED
      BY <1>0, <2>1, <2>2, <2>3 DEF ChannelInv
  <1>4. CASE Answered
    <2> DEFINE x == Head(queue).client
    <2>1. /\ queue # <<>> /\ queue' = Tail(queue) /\ pending' = pending
          /\ client' = [client EXCEPT ![x] = "idle"] /\ x \in Clients
      BY <1>4 DEF Answered, Reply
    <2>2. /\ \A c \in Clients : Waits(queue', c) <=> Waits(queue, c) /\ c # x
          /\ Once(queue')
      BY <1>0, <2>1, TailWaits
    <2>3. Waits(queue, x)
      BY <1>0, <2>1 DEF Waits
    <2> HIDE DEF x
    <2>4. \A c \in Clients :
            client'[c] = "waiting" <=> client[c] = "waiting" /\ c # x
      BY <1>0, <2>1
    <2> QED
      BY <1>0, <2>1, <2>2, <2>3, <2>4 DEF ChannelInv
  <1>5. CASE AnsweredLate
    <2> DEFINE x == Head(pending).client
    <2>1. /\ pending # <<>> /\ pending' = Tail(pending) /\ queue' = queue
          /\ client' = [client EXCEPT ![x] = "idle"]
      BY <1>5 DEF AnsweredLate, Reply
    <2>2. /\ \A c \in Clients : Waits(pending', c) <=> Waits(pending, c) /\ c # x
          /\ Once(pending')
      BY <1>0, <2>1, TailWaits
    <2>3. Waits(pending, x)
      BY <1>0, <2>1 DEF Waits
    <2> HIDE DEF x
    <2>4. \A c \in Clients :
            client'[c] = "waiting" <=> client[c] = "waiting" /\ c # x
      BY <1>0, <2>1
    <2> QED
      BY <1>0, <2>1, <2>2, <2>3, <2>4 DEF ChannelInv
  <1>6. CASE Stops
    <2>1. /\ queue # <<>> /\ queue' = Tail(queue) /\ UNCHANGED <<pending, client>>
          /\ Head(queue).client \notin Clients
      BY <1>0, <1>6, HeadOfQueue
      DEF Stops, Commands, UnaryCommands, StreamCommands, ShutdownCommands
    <2>2. /\ \A c \in Clients : Waits(queue', c) <=> Waits(queue, c)
          /\ Once(queue')
      BY <1>0, <2>1, TailWaits
    <2> QED
      BY <1>0, <2>1, <2>2 DEF ChannelInv
  <1>7. CASE Defers
    <2> DEFINE cmd == Head(queue)
               x == cmd.client
    <2>1. /\ queue # <<>> /\ queue' = Tail(queue) /\ client' = client
          /\ pending' = Append(pending, cmd) /\ cmd \in StreamCommands
          /\ x \in Clients
      BY <1>7 DEF Defers, StreamCommands
    <2>2. /\ \A c \in Clients : Waits(queue', c) <=> Waits(queue, c) /\ c # x
          /\ Once(queue')
      BY <1>0, <2>1, TailWaits
    <2>3. Waits(queue, x)
      BY <1>0, <2>1 DEF Waits
    <2> HIDE DEF cmd
    <2>4. ~Waits(pending, x)
      BY <2>1, <2>3 DEF ChannelInv
    <2>5. /\ \A c : Waits(pending', c) <=> Waits(pending, c) \/ x = c
          /\ Once(pending')
      BY <1>0, <2>1, <2>4, AppendWaits
    <2> QED
      BY <1>0, <2>1, <2>2, <2>3, <2>4, <2>5 DEF ChannelInv
  <1>8. CASE Clears
    BY <1>8, EmptyWaits DEF Clears, ChannelInv
  <1> QED
    BY <1>1, <1>2, <1>3, <1>4, <1>5, <1>6, <1>7, <1>8 DEF ChannelKind

LEMMA StopStep == TypeOK /\ StopInv /\ ChannelKind => StopInv'
  <1> SUFFICES ASSUME TypeOK, StopInv, ChannelKind, drops' = 0
               PROVE  ~stop' /\ \A i \in DOMAIN queue' : queue'[i].op # "shutdown"
    BY DEF StopInv
  <1>0. queue \in Seq(Commands) /\ drops \in Nat
    BY DEF TypeOK, Commands
  <1>1. drops = 0
    BY <1>0 DEF ChannelKind, Idles, Arrives, Shuts, Answered, AnsweredLate,
                Stops, Defers, Clears
  <1>2. ~stop /\ \A i \in DOMAIN queue : queue[i].op # "shutdown"
    BY <1>1 DEF StopInv
  <1>3. CASE Idles \/ AnsweredLate
    BY <1>2, <1>3 DEF Idles, AnsweredLate
  <1>4. CASE Arrives
    <2>1. PICK cmd \in Commands :
            queue' = Append(queue, cmd) /\ cmd.op # "shutdown" /\ stop' = stop
      BY <1>4 DEF Arrives
    <2> QED
      BY <1>0, <1>2, <2>1
  <1>5. CASE Shuts
    BY <1>0, <1>1, <1>5 DEF Shuts
  <1>6. CASE Stops
    BY <1>0, <1>2, <1>6 DEF Stops
  <1>7. CASE Answered \/ Defers
    <2>1. queue # <<>> /\ queue' = Tail(queue) /\ stop' = stop
      BY <1>7 DEF Answered, Defers
    <2> QED
      BY <1>0, <1>2, <2>1
  <1>8. CASE Clears
    BY <1>8 DEF Clears
  <1> QED
    BY <1>3, <1>4, <1>5, <1>6, <1>7, <1>8 DEF ChannelKind

LEMMA ChannelImplies == ChannelInv /\ TypeOK => OneReplyPerCommand
  <1> SUFFICES ASSUME ChannelInv, TypeOK, NEW c \in Clients
               PROVE  Cardinality(CommandsOf(c)) =
                        IF client[c] = "waiting" THEN 1 ELSE 0
    BY DEF OneReplyPerCommand
  <1>0. queue \in Seq(Commands) /\ pending \in Seq(StreamCommands)
    BY DEF TypeOK, Commands
  <1>1. CASE Waits(queue, c)
    <2>1. PICK i \in DOMAIN queue : queue[i].client = c
      BY <1>1 DEF Waits
    <2>2. CommandsOf(c) = {i}
      BY <1>1, <2>1 DEF CommandsOf, ChannelInv, Once, Waits
    <2> QED
      BY <1>1, <2>2, FS_Singleton DEF ChannelInv
  <1>2. CASE Waits(pending, c)
    <2>1. PICK i \in DOMAIN pending : pending[i].client = c
      BY <1>2 DEF Waits
    <2>2. {j \in DOMAIN pending : pending[j].client = c} = {i}
      BY <2>1 DEF ChannelInv, Once
    <2>3. {j \in DOMAIN queue : queue[j].client = c} = {}
      BY <1>2 DEF ChannelInv, Waits
    <2>4. CommandsOf(c) = {-i}
      BY <2>2, <2>3 DEF CommandsOf
    <2> QED
      BY <1>2, <2>4, FS_Singleton DEF ChannelInv
  <1>3. CASE ~Waits(queue, c) /\ ~Waits(pending, c)
    <2>1. CommandsOf(c) = {}
      BY <1>3 DEF CommandsOf, Waits
    <2> QED
      BY <1>3, <2>1, FS_EmptySet DEF ChannelInv
  <1> QED
    BY <1>1, <1>2, <1>3

-----------------------------------------------------------------------------
(* No open run without an executor.                                        *)

\* A run becomes active only by being launched.
LEMMA ActiveBefore ==
  ASSUME Kind, NEW r \in RunIds, runs'[r].status \in Active, ~LaunchKind(r)
  PROVE  runs[r].status \in Active
  <1>1. CASE StillAt(r) \/ MovedAt(r)
    BY <1>1 DEF StillAt, MovedAt, Moved
  <1>2. CASE DeltaKind(r) \/ EndKind(r)
    BY <1>2 DEF DeltaKind, EndKind
  <1>3. ~KeepKind(r) /\ ~DiscardKind(r) /\ ~DeletedAt(r)
    BY NewRowFields DEF KeepKind, DiscardKind, Settled, DeletedAt, Recoverable,
       Active
  <1> QED
    BY <1>1, <1>2, <1>3, KindAt

LEMMA OrphanStep ==
  ASSUME StopInv, NoOrphan, Kind, Calm' => Calm
  PROVE  NoOrphan'
  <1> SUFFICES ASSUME Calm', NEW r \in RunIds, runs'[r].status \in Active
               PROVE  exec'.pc # "idle" /\ exec'.id = r
    BY DEF NoOrphan, Calm
  <1>1. ~stop /\ \A q \in RunIds : runs[q].status \in Active =>
                   exec.pc # "idle" /\ exec.id = q
    BY DEF Calm, StopInv, NoOrphan
  <1>2. CASE LaunchKind(r)
    BY <1>2 DEF LaunchKind
  <1>3. CASE ~LaunchKind(r)
    <2>1. exec.pc # "idle" /\ exec.id = r
      BY <1>1, <1>3, ActiveBefore
    <2>2. ASSUME NEW t \in RunIds, LaunchKind(t) \/ DeltaKind(t)
          PROVE  exec'.pc # "idle" /\ exec'.id = r
      BY <2>1, <2>2 DEF LaunchKind, DeltaKind
    <2>3. CASE ExecKept
      BY <1>1, <2>1, <2>3 DEF ExecKept
    <2> QED
      BY <2>2, <2>3 DEF Kind
  <1> QED
    BY <1>2, <1>3

-----------------------------------------------------------------------------
(* The inductive invariant.                                                *)

RunInv ==
    /\ SafetyInv /\ GoneInv /\ CountInv /\ LogShape /\ HomeInv /\ RetryChain
    /\ MessageInv /\ ChannelInv /\ StopInv /\ NoOrphan

LEMMA InitRun == Init => RunInv
  <1> SUFFICES ASSUME Init PROVE RunInv
    OBVIOUS
  <1>1. \A r \in RunIds : runs[r] = AbsentRow /\ runs[r].status = "absent"
                          /\ notices[r] = NoNotice
    BY DEF Init, AbsentRow
  <1>2. GoneInv /\ LogShape /\ HomeInv /\ RetryChain
    BY <1>1 DEF GoneInv, LogShape, HomeInv, RetryChain, Exists, Gone
  <1>3. CountInv /\ NoOrphan
    BY <1>1 DEF CountInv, NoOrphan, Init, IdleExec, Active
  <1>4. MessageInv
    BY <1>1 DEF MessageInv, Init, Gone, Active
  <1>5. ChannelInv /\ StopInv
    BY EmptyWaits DEF ChannelInv, StopInv, Init
  <1> QED
    BY <1>2, <1>3, <1>4, <1>5, InitSafety DEF RunInv

LEMMA NextRun == RunInv /\ [Next]_vars => RunInv'
  <1> SUFFICES ASSUME RunInv, [Next]_vars PROVE RunInv'
    OBVIOUS
  <1>1. SafetyInv' /\ TypeOK /\ TypeOK' /\ ExecInv
    BY NextSafety DEF RunInv, SafetyInv
  <1>2. Kind /\ ChannelKind /\ (Calm' => Calm)
    BY <1>1, NextKind, NextChannel
  <1>3. GoneInv' /\ CountInv' /\ LogShape' /\ HomeInv' /\ RetryChain'
    BY <1>1, <1>2, GoneStep, CountStep, LogShapeStep, HomeStep, SourceStep
    DEF RunInv
  <1>4. MessageInv'
    BY <1>1, <1>2, MessageStep DEF RunInv
  <1>5. ChannelInv' /\ StopInv' /\ NoOrphan'
    BY <1>1, <1>2, ChannelStep, StopStep, OrphanStep DEF RunInv
  <1> QED
    BY <1>1, <1>3, <1>4, <1>5 DEF RunInv

LEMMA RunImplies == RunInv => RunsSound
  BY LogShapeImplies, MessageImplies, ChannelImplies
  DEF RunInv, RunsSound, SafetyInv

\* The life of runs and commands: end marks, checkpoint rhythm and notices of
\* every log, one message per run with all of its output, retries that follow
\* an ended attempt, no open run without an executor, one reply per command;
\* through every interleaving of callers, writer, faults, crashes and
\* recoveries.
THEOREM RunsAreSound == Spec => []RunsSound
  BY InitRun, NextRun, RunImplies, PTL DEF Spec

-----------------------------------------------------------------------------
(* The refinement of GenerationLedger.                                     *)

\* An entry of the ledger from its fields.
MakeEntry(phase, outcome, cancel, output, delivered, message) ==
    [phase |-> phase, outcome |-> outcome, cancel |-> cancel,
     output |-> output, delivered |-> delivered, message |-> message]
PhaseOf(status) == CASE status = "absent" -> "none"
                     [] status = "deleted" -> "gone"
                     [] status \in Active -> "open"
                     [] OTHER -> "closed"
OutcomeOf(status) == IF status \in Terminal THEN status ELSE "none"
\* What the chat has received of the run r.
Received(r) ==
    IF ~Exists(r) THEN {}
    ELSE UNION {messages[runs[r].chat][i].content : i \in MessagesOf(r)}

LEMMA EntryFields ==
  ASSUME NEW r \in RunIds
  PROVE  /\ Entry(r) = MakeEntry(PhaseOf(runs[r].status),
                         OutcomeOf(runs[r].status), runs[r].cancelRequested,
                         DeltaSeqs(events[r]), Received(r), runs[r].hasMessage)
         /\ Entry(r)' = MakeEntry(PhaseOf(runs'[r].status),
                         OutcomeOf(runs'[r].status), runs'[r].cancelRequested,
                         DeltaSeqs(events'[r]), Received(r)', runs'[r].hasMessage)
  BY DEF Entry, Phase, PhaseOf, OutcomeOf, Received, MakeEntry

LEMMA EntryReads ==
  ASSUME NEW r \in RunIds
  PROVE  /\ Entry(r).phase = PhaseOf(runs[r].status)
         /\ Entry(r).outcome = OutcomeOf(runs[r].status)
         /\ Entry(r).cancel = runs[r].cancelRequested
         /\ Entry(r).output = DeltaSeqs(events[r])
         /\ Entry(r).message = runs[r].hasMessage
  BY DEF Entry, Phase, PhaseOf, OutcomeOf

\* A step that changes the log of a run and nothing else that its entry shows.
LEMMA EntryOutput ==
  ASSUME NEW r \in RunIds, NEW u, DeltaSeqs(events'[r]) = u,
         runs'[r].status = runs[r].status, Received(r)' = Received(r),
         runs'[r].cancelRequested = runs[r].cancelRequested,
         runs'[r].hasMessage = runs[r].hasMessage
  PROVE  Entry(r)' = [Entry(r) EXCEPT !.output = u]
  <1> DEFINE p == PhaseOf(runs[r].status)
             o == OutcomeOf(runs[r].status)
             c == runs[r].cancelRequested
             d == Received(r)
             m == runs[r].hasMessage
             v == DeltaSeqs(events[r])
  <1>1. /\ Entry(r) = MakeEntry(p, o, c, v, d, m)
        /\ Entry(r)' = MakeEntry(p, o, c, u, d, m)
    BY EntryFields
  <1> HIDE DEF p, o, c, d, m, v
  <1>2. [MakeEntry(p, o, c, v, d, m) EXCEPT !.output = u] = MakeEntry(p, o, c, u, d, m)
    BY DEF MakeEntry
  <1> QED
    BY <1>1, <1>2, Zenon

LEMMA EntryDelivered ==
  ASSUME NEW p, NEW o, NEW c, NEW u, NEW d, NEW m
  PROVE  Ledger!Delivered(MakeEntry(p, o, c, u, d, m))
           = MakeEntry(p, o, c, u, u, TRUE)
  <1> DEFINE e == MakeEntry(p, o, c, u, d, m)
             yes == TRUE
  <1>1. e.output = u
    BY DEF MakeEntry
  <1> HIDE DEF yes
  <1>2. [e EXCEPT !.message = yes] = MakeEntry(p, o, c, u, d, yes)
    BY DEF MakeEntry
  <1>3. [MakeEntry(p, o, c, u, d, yes) EXCEPT !.delivered = u]
          = MakeEntry(p, o, c, u, u, yes)
    BY DEF MakeEntry
  <1>4. Ledger!Delivered(e) = [[e EXCEPT !.message = yes] EXCEPT !.delivered = e.output]
    BY Zenon DEF Ledger!Delivered, yes
  <1> QED
    BY <1>1, <1>2, <1>3, <1>4, Zenon DEF yes

LEMMA LedgerConstants ==
  /\ Ledger!Fresh = MakeEntry("none", "none", FALSE, {}, {}, FALSE)
  /\ Ledger!Opened = MakeEntry("open", "none", FALSE, {}, {}, FALSE)
  /\ Ledger!Gone = MakeEntry("gone", "none", FALSE, {}, {}, FALSE)
  <1> DEFINE none == "none"
             no == FALSE
             nil == {}
             open == "open"
             gone == "gone"
             fresh == MakeEntry(none, none, no, nil, nil, no)
  <1>1. Ledger!Fresh = fresh
    BY Zenon DEF Ledger!Fresh, MakeEntry
  <1> HIDE DEF none, no, nil, open, gone
  <1>2. [fresh EXCEPT !.phase = open] = MakeEntry(open, none, no, nil, nil, no)
    BY DEF MakeEntry
  <1>3. [fresh EXCEPT !.phase = gone] = MakeEntry(gone, none, no, nil, nil, no)
    BY DEF MakeEntry
  <1>4. Ledger!Opened = [fresh EXCEPT !.phase = open]
    BY <1>1, Zenon DEF Ledger!Opened, open
  <1>5. Ledger!Gone = [fresh EXCEPT !.phase = gone]
    BY <1>1, Zenon DEF Ledger!Gone, gone
  <1> QED
    BY <1>1, <1>2, <1>3, <1>4, <1>5 DEF none, no, nil, open, gone

LEMMA PhaseValues ==
  ASSUME NEW status
  PROVE  /\ status = "absent" => PhaseOf(status) = "none"
         /\ status = "deleted" => PhaseOf(status) = "gone"
         /\ status \in Active => PhaseOf(status) = "open" /\ OutcomeOf(status) = "none"
         /\ status \in Terminal => PhaseOf(status) = "closed" /\ OutcomeOf(status) = status
         /\ status \in Gone => OutcomeOf(status) = "none"
  BY DEF PhaseOf, OutcomeOf, Active, Terminal, Gone

\* Only a message of its own changes what a run has delivered.
LEMMA ReceivedKept ==
  ASSUME NEW r \in RunIds, runs[r].status \notin Gone,
         runs'[r].status \notin Gone, runs'[r].chat = runs[r].chat,
         messages'[runs[r].chat] = messages[runs[r].chat]
  PROVE  Received(r)' = Received(r)
  BY DEF Received, Exists, Gone, MessagesOf

\* A run without message_id has delivered nothing.
LEMMA NothingReceived ==
  ASSUME TypeOK, HomeInv, MessageInv, NEW r \in RunIds, ~runs[r].hasMessage
  PROVE  Received(r) = {}
  <1>1. CASE runs[r].status \in Gone
    BY <1>1 DEF Received, Exists, Gone
  <1>2. CASE runs[r].status \notin Gone
    <2>1. runs[r].chat \in Chats
      BY <1>2 DEF TypeOK, HomeInv
    <2>2. MessagesOf(r) = {}
      BY <2>1 DEF MessagesOf, MessageInv, Sent
    <2> QED
      BY <2>2 DEF Received
  <1> QED
    BY <1>1, <1>2

\* The message that a step adds is what its run has delivered afterwards, and
\* the other runs have delivered what they had.
LEMMA MessageReceived ==
  ASSUME TypeOK, HomeInv, MessageInv, NEW t \in RunIds, AddsMessage(t)
  PROVE  /\ Received(t)' = DeltaSeqs(events[t])
         /\ \A r \in RunIds \ {t} : Received(r)' = Received(r)
  <1> DEFINE h == runs[t].chat
             n == Len(messages[h]) + 1
             new == [run |-> t, content |-> DeltaSeqs(events[t])]
  <1>1. h \in Chats /\ messages \in [Chats -> Seq(MessageRecords)]
    BY DEF AddsMessage, HomeInv, TypeOK
  <1>2. messages' = [messages EXCEPT ![h] = Append(@, new)]
    BY DEF AddsMessage, InsertMessage
  <1>3. new.run = t /\ new.content = DeltaSeqs(events[t])
    OBVIOUS
  <1> HIDE DEF new
  <1>4. /\ \A c \in Chats \ {h} : messages'[c] = messages[c]
        /\ messages'[h] = Append(messages[h], new)
    BY <1>1, <1>2
  <1>5. /\ DOMAIN messages'[h] = DOMAIN messages[h] \cup {n}
        /\ \A i \in DOMAIN messages[h] : messages'[h][i] = messages[h][i]
        /\ messages'[h][n] = new /\ n \notin DOMAIN messages[h]
    BY <1>1, <1>4
  <1>6. /\ runs'[t].chat = h /\ runs'[t].status \notin Gone
        /\ runs[t].status \notin Gone /\ ~runs[t].hasMessage
        /\ \A r \in RunIds \ {t} : runs'[r] = runs[r]
    BY DEF AddsMessage, Others
  <1> HIDE DEF n, h
  <1>7. \A i \in DOMAIN messages[h] : messages[h][i].run # t
    BY <1>1, <1>6 DEF MessageInv, Sent
  <1>8. MessagesOf(t)' = {n}
    BY <1>3, <1>5, <1>6, <1>7 DEF MessagesOf
  <1>9. Received(t)' = DeltaSeqs(events[t])
    BY <1>3, <1>5, <1>6, <1>8 DEF Received, Exists, Gone
  <1>10. ASSUME NEW r \in RunIds \ {t} PROVE Received(r)' = Received(r)
    <2>1. CASE runs[r].status \in Gone
      BY <1>6, <2>1 DEF Received, Exists, Gone
    <2>2. CASE runs[r].status \notin Gone /\ runs[r].chat # h
      <3>1. runs[r].chat \in Chats
        BY <2>2 DEF TypeOK, HomeInv
      <3> QED
        BY <1>4, <1>6, <2>2, <3>1, ReceivedKept
    <2>3. CASE runs[r].status \notin Gone /\ runs[r].chat = h
      <3>1. MessagesOf(r)' = MessagesOf(r)
        BY <1>3, <1>5, <1>6, <2>3 DEF MessagesOf
      <3>2. \A i \in MessagesOf(r) : messages'[h][i] = messages[h][i]
        BY <1>5, <2>3 DEF MessagesOf
      <3> QED
        BY <1>6, <2>3, <3>1, <3>2 DEF Received, Exists, Gone
    <2> QED
      BY <2>1, <2>2, <2>3
  <1> QED
    BY <1>9, <1>10

\* A step on the entry of the run t alone.
OtherEntries(t) == \A r \in RunIds \ {t} : Entry(r)' = Entry(r)

LEMMA OneEntry ==
  ASSUME NEW t \in RunIds, OtherEntries(t)
  PROVE  [r \in RunIds |-> Entry(r)]' =
           [[r \in RunIds |-> Entry(r)] EXCEPT ![t] = Entry(t)']
  BY DEF OtherEntries

\* The other runs of a step that adds no message.
LEMMA OthersKeepEntries ==
  ASSUME TypeOK, NEW t \in RunIds, Others(t), messages' = messages
  PROVE  OtherEntries(t)
  <1> SUFFICES ASSUME NEW r \in RunIds \ {t} PROVE Entry(r)' = Entry(r)
    BY DEF OtherEntries
  <1>1. runs'[r] = runs[r] /\ events'[r] = events[r]
    BY DEF Others
  <1>2. Received(r)' = Received(r)
    BY <1>1 DEF Received, Exists, MessagesOf
  <1> QED
    BY <1>1, <1>2, EntryFields

\* A step of the ledger, or none.
LedgerStep ==
    \/ Ledger!Next
    \/ [r \in RunIds |-> Entry(r)]' = [r \in RunIds |-> Entry(r)]

LEMMA MoveLedger ==
  ASSUME RunInv, RunInv', NEW t \in RunIds, MoveKind(t)
  PROVE  LedgerStep
  <1>1. /\ Others(t) /\ messages' = messages /\ Moved(runs[t], runs'[t])
        /\ runs'[t].status \in Active /\ events'[t] = events[t]
    BY DEF MoveKind
  <1>2. OtherEntries(t)
    BY <1>1, OthersKeepEntries DEF RunInv, SafetyInv
  <1>3. Received(t)' = Received(t)
    BY <1>1, ReceivedKept DEF Moved, SameOrigin, Active, Gone
  <1>4. CASE runs'[t].cancelRequested = runs[t].cancelRequested
    <2>1. Entry(t)' = Entry(t)
      BY <1>1, <1>3, <1>4, EntryFields, PhaseValues DEF Moved
    <2>2. [r \in RunIds |-> Entry(r)]' = [r \in RunIds |-> Entry(r)]
      BY <1>2, <2>1 DEF OtherEntries
    <2> QED
      BY <2>2 DEF LedgerStep
  <1>5. CASE runs'[t].cancelRequested = TRUE
    <2>1. /\ Entry(t).phase = "open"
          /\ Entry(t)' = [Entry(t) EXCEPT !.cancel = TRUE]
      BY <1>1, <1>3, <1>5, EntryFields, PhaseValues DEF Moved, MakeEntry
    <2>2. Ledger!RequestCancel(t)
      BY <1>2, <2>1, OneEntry DEF Ledger!RequestCancel
    <2> QED
      BY <2>2 DEF LedgerStep, Ledger!Next
  <1> QED
    BY <1>1, <1>4, <1>5 DEF Moved

LEMMA KeepLedger ==
  ASSUME RunInv, NEW t \in RunIds, KeepKind(t)
  PROVE  LedgerStep
  <1>1. /\ Others(t) /\ InsertMessage(t) /\ runs[t].status \in Recoverable
        /\ runs'[t].status = runs[t].status /\ runs'[t].chat = runs[t].chat
        /\ runs'[t].cancelRequested = runs[t].cancelRequested
        /\ ~runs[t].hasMessage /\ runs'[t].hasMessage /\ runs[t].partial > 0
        /\ events'[t] = events[t]
    BY DEF KeepKind, Settled, SameOrigin
  <1>2. AddsMessage(t)
    BY <1>1 DEF AddsMessage, Recoverable, Gone
  <1>3. /\ Received(t)' = DeltaSeqs(events[t])
        /\ \A r \in RunIds \ {t} : Received(r)' = Received(r)
    BY <1>2, MessageReceived DEF RunInv, SafetyInv
  <1>4. OtherEntries(t)
    BY <1>1, <1>3, EntryFields DEF OtherEntries, Others
  <1>5. DeltaSeqs(events[t]) # {}
    <2>1. DeltaSeqs(events[t]) = DeltaSlots(runs[t].partial)
      BY <1>1 DEF RunInv, LogShape, Rhythmic, PurgedLog, Recoverable, Gone
    <2>2. 0 \in 0 .. runs[t].partial - 1
      BY <1>1 DEF RunInv, SafetyInv, TypeOK, Rows
    <2> QED
      BY <2>1, <2>2 DEF DeltaSlots
  <1>6. runs[t].hasMessage = FALSE /\ runs'[t].hasMessage = TRUE
    <2>1. runs[t].hasMessage \in BOOLEAN
      BY DEF RunInv, SafetyInv, TypeOK, Rows
    <2> QED
      BY <1>1, <2>1
  <1>7. /\ runs[t].status \in Terminal /\ runs[t].status # "completed"
    BY <1>1 DEF Recoverable, Terminal
  <1>8. /\ Entry(t) = MakeEntry("closed", runs[t].status, runs[t].cancelRequested,
                                DeltaSeqs(events[t]), Received(t), FALSE)
        /\ Entry(t)' = MakeEntry("closed", runs[t].status, runs[t].cancelRequested,
                                 DeltaSeqs(events[t]), DeltaSeqs(events[t]), TRUE)
    BY <1>1, <1>3, <1>6, <1>7, EntryFields, PhaseValues
  <1>9. /\ Entry(t).phase = "closed" /\ Entry(t).outcome # "completed"
        /\ ~Entry(t).message /\ Entry(t).output # {}
    BY <1>5, <1>6, <1>7, EntryReads, PhaseValues
  <1>10. Entry(t)' = Ledger!Delivered(Entry(t))
    BY <1>8, EntryDelivered, Zenon
  <1>11. Ledger!Keep(t)
    BY <1>4, <1>9, <1>10, OneEntry DEF Ledger!Keep, Ledger!Short
  <1> QED
    BY <1>11 DEF LedgerStep, Ledger!Next

LEMMA DiscardLedger ==
  ASSUME RunInv, NEW t \in RunIds, DiscardKind(t)
  PROVE  LedgerStep
  <1>1. /\ Others(t) /\ messages' = messages /\ runs[t].status \in Recoverable
        /\ runs'[t].status = runs[t].status /\ runs'[t].chat = runs[t].chat
        /\ runs'[t].cancelRequested = runs[t].cancelRequested
        /\ runs'[t].hasMessage = runs[t].hasMessage /\ events'[t] = {}
    BY DEF DiscardKind, Settled, SameOrigin
  <1>2. OtherEntries(t)
    BY <1>1, OthersKeepEntries DEF RunInv, SafetyInv
  <1>3. Received(t)' = Received(t)
    BY <1>1, ReceivedKept DEF Recoverable, Gone
  <1>4. Entry(t).phase = "closed" /\ Entry(t).outcome # "completed"
    BY <1>1, EntryReads, PhaseValues DEF Recoverable, Terminal
  <1>5. Entry(t)' = [Entry(t) EXCEPT !.output = {}]
    <2>1. DeltaSeqs(events'[t]) = {}
      BY <1>1, EmptyShape
    <2> QED
      BY <1>1, <1>3, <2>1, EntryOutput
  <1>6. Ledger!Discard(t)
    BY <1>2, <1>4, <1>5, OneEntry DEF Ledger!Discard, Ledger!Short
  <1> QED
    BY <1>6 DEF LedgerStep, Ledger!Next

LEMMA LaunchLedger ==
  ASSUME RunInv, RunInv', NEW t \in RunIds, LaunchKind(t)
  PROVE  LedgerStep
  <1>1. /\ Others(t) /\ messages' = messages /\ runs[t].status = "absent"
        /\ runs'[t].status = "queued" /\ ~runs'[t].cancelRequested
        /\ ~runs'[t].hasMessage /\ events'[t] = events[t]
    BY DEF LaunchKind
  <1>2. OtherEntries(t)
    BY <1>1, OthersKeepEntries DEF RunInv, SafetyInv
  <1>3. events'[t] = {}
    BY <1>1 DEF RunInv, SafetyInv, LogInv, LogOK, Gone
  <1>4. runs'[t].cancelRequested = FALSE /\ runs'[t].hasMessage = FALSE
    BY <1>1 DEF RunInv, SafetyInv, TypeOK, Rows
  <1>5. Received(t)' = {}
    <2>1. \A c \in Chats : \A i \in DOMAIN messages[c] : messages[c][i].run # t
      BY <1>1 DEF RunInv, MessageInv, Sent, Gone
    <2>2. runs'[t].chat \in Chats
      BY <1>1 DEF RunInv, SafetyInv, TypeOK, HomeInv, Gone
    <2>3. MessagesOf(t)' = {}
      BY <1>1, <2>1, <2>2 DEF MessagesOf
    <2> QED
      BY <2>3 DEF Received
  <1>6. Entry(t)' = MakeEntry("open", "none", FALSE, {}, {}, FALSE)
    BY <1>1, <1>3, <1>4, <1>5, EntryFields, EmptyShape, PhaseValues DEF Active
  <1>7. Entry(t).phase = "none"
    BY <1>1, EntryReads, PhaseValues
  <1>8. Ledger!Open(t)
    BY <1>2, <1>6, <1>7, OneEntry, LedgerConstants DEF Ledger!Open
  <1> QED
    BY <1>8 DEF LedgerStep, Ledger!Next

LEMMA DeltaLedger ==
  ASSUME RunInv, NEW t \in RunIds, DeltaKind(t)
  PROVE  LedgerStep
  <1> DEFINE n == runs[t].partial
             d == runs[t].lastSeq + 1
  <1>1. /\ Others(t) /\ messages' = messages
        /\ runs[t].status \in Active /\ ~CancelPending(runs[t])
        /\ runs'[t].status = runs[t].status /\ runs'[t].chat = runs[t].chat
        /\ runs'[t].cancelRequested = runs[t].cancelRequested
        /\ runs'[t].hasMessage = runs[t].hasMessage
        /\ events'[t] = events[t] \cup DeltaEvents(exec.emitted, d)
        /\ exec.pc = "emit" /\ exec.id = t
    BY DEF DeltaKind, SameOrigin
  <1>2. OtherEntries(t)
    BY <1>1, OthersKeepEntries DEF RunInv, SafetyInv
  <1>3. Received(t)' = Received(t)
    BY <1>1, ReceivedKept DEF Active, Gone
  <1>4. /\ exec.emitted = n /\ n \in Nat /\ n < MaxDeltas
        /\ runs[t].lastSeq = At(n) - 1
    BY <1>1 DEF RunInv, CountInv, Active, SafetyInv, TypeOK, Rows
  <1>5. d = At(n) /\ d \in 0 .. 2 * MaxDeltas
    <2>1. At(n) \in Nat /\ At(n) <= 2 * n
      BY <1>4, AtNext
    <2> QED
      BY <1>4, <2>1, BoundsAssumption
  <1>6. /\ DeltaSeqs(events[t]) = DeltaSlots(n)
        /\ CheckpointSeqs(events[t]) = CheckpointSlots(n)
    BY <1>1 DEF RunInv, LogShape, Rhythmic, PurgedLog, Recoverable, Gone, Active
  <1>7. d \notin DeltaSeqs(events[t])
    <2>1. Gapless(events[t], runs[t].lastSeq)
      BY <1>1 DEF RunInv, SafetyInv, LogInv, LogOK, Gone, Active, Recoverable
    <2>2. DeltaSeqs(events[t]) \subseteq 0 .. runs[t].lastSeq
      BY <2>1 DEF DeltaSeqs, Gapless, Seqs
    <2>3. d \notin 0 .. runs[t].lastSeq
      BY <1>4, <1>5
    <2> QED
      BY <2>2, <2>3
  <1>8. DeltaSeqs(events'[t]) = DeltaSeqs(events[t]) \cup {d}
    <2>1. events'[t] = events[t] \cup DeltaEvents(n, At(n))
      BY <1>1, <1>4, <1>5
    <2> HIDE DEF n
    <2>2. DeltaSeqs(events'[t]) = DeltaSlots(n + 1)
      BY <1>4, <1>6, <2>1, DeltaShape
    <2>3. DeltaSlots(n + 1) = DeltaSlots(n) \cup {At(n)}
      BY <1>4, SlotsNext
    <2> QED
      BY <1>5, <1>6, <2>2, <2>3
  <1> HIDE DEF d
  <1>9. /\ Entry(t).phase = "open" /\ ~Entry(t).cancel
        /\ Entry(t).output = DeltaSeqs(events[t])
    BY <1>1, EntryReads, PhaseValues DEF CancelPending
  <1>10. Entry(t)' = [Entry(t) EXCEPT !.output = DeltaSeqs(events[t]) \cup {d}]
    BY <1>1, <1>3, <1>8, EntryOutput
  <1>11. Ledger!Produce(t)
    <2>1. d \in (0 .. 2 * MaxDeltas) \ Entry(t).output
      BY <1>5, <1>7, <1>9
    <2>2. [r \in RunIds |-> Entry(r)]' = [[r \in RunIds |-> Entry(r)]
             EXCEPT ![t] = [Entry(t) EXCEPT !.output = Entry(t).output \cup {d}]]
      BY <1>2, <1>9, <1>10, OneEntry
    <2> QED
      BY <1>9, <2>1, <2>2 DEF Ledger!Produce
  <1> QED
    BY <1>11 DEF LedgerStep, Ledger!Next

\* A run that ends without a message of its own.
LEMMA EntryClosed ==
  ASSUME NEW r \in RunIds, runs[r].status \in Active, runs'[r].status \in Terminal,
         runs'[r].cancelRequested = runs[r].cancelRequested,
         runs'[r].hasMessage = runs[r].hasMessage,
         DeltaSeqs(events'[r]) = DeltaSeqs(events[r]), Received(r)' = Received(r)
  PROVE  Entry(r)' = [Entry(r) EXCEPT !.phase = "closed",
                                      !.outcome = runs'[r].status]
  <1> DEFINE e == Entry(r)
             p == "open"
             o == "none"
             x == "closed"
             y == runs'[r].status
             c == runs[r].cancelRequested
             u == DeltaSeqs(events[r])
             d == Received(r)
             m == runs[r].hasMessage
  <1>1. /\ e = MakeEntry(p, o, c, u, d, m)
        /\ Entry(r)' = MakeEntry(x, y, c, u, d, m)
    BY EntryFields, PhaseValues
  <1>2. [e EXCEPT !.phase = x, !.outcome = y]
          = [[e EXCEPT !.phase = x] EXCEPT !.outcome = y]
    BY Zenon
  <1> HIDE DEF e, p, o, x, y, c, u, d, m
  <1>3. [e EXCEPT !.phase = x] = MakeEntry(x, o, c, u, d, m)
    BY <1>1 DEF MakeEntry
  <1>4. [MakeEntry(x, o, c, u, d, m) EXCEPT !.outcome = y] = Entry(r)'
    BY <1>1 DEF MakeEntry
  <1> QED
    BY <1>2, <1>3, <1>4, Zenon DEF e, x, y

LEMMA TwoFields ==
  ASSUME NEW t \in RunIds, NEW f, f = [r \in RunIds |-> f[r]], NEW x, NEW y
  PROVE  [f EXCEPT ![t].phase = x, ![t].outcome = y]
           = [f EXCEPT ![t] = [f[t] EXCEPT !.phase = x, !.outcome = y]]
  <1> DEFINE e == [f[t] EXCEPT !.phase = x]
             g == [f EXCEPT ![t] = e]
  <1>1. [f[t] EXCEPT !.phase = x, !.outcome = y] = [e EXCEPT !.outcome = y]
    BY Zenon
  <1>2. [f EXCEPT ![t].phase = x, ![t].outcome = y]
          = [g EXCEPT ![t] = [g[t] EXCEPT !.outcome = y]]
    BY Zenon
  <1> HIDE DEF e
  <1>3. g[t] = e
    OBVIOUS
  <1> DEFINE v == [e EXCEPT !.outcome = y]
  <1> HIDE DEF v
  <1>4. [g EXCEPT ![t] = v] = [f EXCEPT ![t] = v]
    OBVIOUS
  <1> QED
    BY <1>1, <1>2, <1>3, <1>4, Zenon DEF v

LEMMA EndLedger ==
  ASSUME RunInv, NEW t \in RunIds, EndKind(t)
  PROVE  LedgerStep
  <1> DEFINE status == runs'[t].status
             c == runs[t].cancelRequested
             u == DeltaSeqs(events[t])
  <1>1. /\ Others(t) /\ runs[t].status \in Active /\ status \in Evented
        /\ runs'[t].chat = runs[t].chat
        /\ runs'[t].cancelRequested = c
        /\ runs'[t].hasMessage = (runs[t].hasMessage \/ status = "completed")
        /\ events'[t] = events[t] \cup {[seq |-> runs[t].lastSeq + 1,
                                         type |-> status]}
        /\ IF status = "completed" THEN InsertMessage(t) ELSE messages' = messages
    BY DEF EndKind, SameOrigin
  <1>2. DeltaSeqs(events'[t]) = u
    <2> DEFINE log == events[t]
               seq == runs[t].lastSeq + 1
    <2>1. status \in Evented /\ events'[t] = log \cup {[seq |-> seq, type |-> status]}
      BY <1>1
    <2> HIDE DEF status, log, seq
    <2>2. DeltaSeqs(log \cup {[seq |-> seq, type |-> status]}) = DeltaSeqs(log)
      BY <2>1, EndAddsNoDelta
    <2> QED
      BY <2>1, <2>2, Zenon DEF log
  <1>3. runs[t].hasMessage = FALSE
    BY <1>1 DEF RunInv, MessageInv, SafetyInv, TypeOK, Rows
  <1>4. Entry(t) = MakeEntry("open", "none", c, u, Received(t), FALSE)
    BY <1>1, <1>3, EntryFields, PhaseValues
  <1>5. Entry(t).phase = "open"
    BY <1>1, EntryReads, PhaseValues
  <1>6. status \in Terminal /\ status \notin Gone
    BY <1>1 DEF Evented, Terminal, Gone
  <1>7. CASE status = "completed"
    <2>1. runs'[t].hasMessage = TRUE
      BY <1>1, <1>7
    <2>2. AddsMessage(t)
      BY <1>1, <1>2, <1>3, <1>6, <1>7, <2>1 DEF AddsMessage, Active, Gone
    <2>3. /\ Received(t)' = u
          /\ \A r \in RunIds \ {t} : Received(r)' = Received(r)
      BY <2>2, MessageReceived DEF RunInv, SafetyInv
    <2>4. OtherEntries(t)
      BY <1>1, <2>3, EntryFields DEF OtherEntries, Others
    <2>5. Entry(t)' = MakeEntry("closed", "completed", c, u, u, TRUE)
      BY <1>1, <1>2, <1>6, <1>7, <2>1, <2>3, EntryFields, PhaseValues
    <2>6. Ledger!Delivered(Entry(t)) = MakeEntry("open", "none", c, u, u, TRUE)
      BY <1>4, EntryDelivered, Zenon
    <2>7. Entry(t)' = [Ledger!Delivered(Entry(t)) EXCEPT !.phase = "closed",
                                                  !.outcome = "completed"]
      <3> DEFINE e == Ledger!Delivered(Entry(t))
                 x == "closed"
                 y == "completed"
                 p == "open"
                 o == "none"
                 yes == TRUE
      <3>1. /\ e = MakeEntry(p, o, c, u, u, yes)
            /\ Entry(t)' = MakeEntry(x, y, c, u, u, yes)
        BY <2>5, <2>6
      <3>2. [e EXCEPT !.phase = x, !.outcome = y]
              = [[e EXCEPT !.phase = x] EXCEPT !.outcome = y]
        BY Zenon
      <3> HIDE DEF e, x, y, p, o, yes, c, u
      <3>3. [e EXCEPT !.phase = x] = MakeEntry(x, o, c, u, u, yes)
        BY <3>1 DEF MakeEntry
      <3>4. [MakeEntry(x, o, c, u, u, yes) EXCEPT !.outcome = y] = Entry(t)'
        BY <3>1 DEF MakeEntry
      <3> QED
        BY <3>2, <3>3, <3>4, Zenon DEF e, x, y
    <2>8. Ledger!Complete(t)
      BY <1>5, <2>4, <2>7, OneEntry DEF Ledger!Complete
    <2> QED
      BY <2>8 DEF LedgerStep, Ledger!Next
  <1>8. CASE status # "completed"
    <2>1. messages' = messages /\ runs'[t].hasMessage = FALSE
      BY <1>1, <1>3, <1>8
    <2>2. OtherEntries(t)
      BY <1>1, <2>1, OthersKeepEntries DEF RunInv, SafetyInv
    <2>3. Received(t)' = Received(t)
      BY <1>1, <1>6, <2>1, ReceivedKept DEF Active, Gone
    <2>5. Entry(t)' = [Entry(t) EXCEPT !.phase = "closed", !.outcome = status]
      BY <1>1, <1>2, <1>3, <1>6, <2>1, <2>3, EntryClosed
    <2>6. status \in {"failed", "cancelled"}
      BY <1>1, <1>8 DEF Evented
    <2> DEFINE L == [r \in RunIds |-> Entry(r)]
    <2>7. L' = [L EXCEPT ![t] = [L[t] EXCEPT !.phase = "closed", !.outcome = status]]
      BY <2>2, <2>5, OneEntry
    <2>8. L = [r \in RunIds |-> L[r]]
      OBVIOUS
    <2>9. L' = [L EXCEPT ![t].phase = "closed", ![t].outcome = status]
      <3> HIDE DEF L, status
      <3> QED
        BY <2>7, <2>8, TwoFields, Zenon
    <2>10. Ledger!CloseShort(t, status)
      BY <1>5, <2>9 DEF Ledger!CloseShort
    <2> QED
      BY <2>6, <2>10 DEF LedgerStep, Ledger!Next
  <1> QED
    BY <1>7, <1>8

LEMMA DeleteLedger ==
  ASSUME RunInv, NEW c \in Chats, DeleteKind(c)
  PROVE  LedgerStep
  <1> DEFINE S == {r \in RunIds : runs[r].chat = c}
             L == [r \in RunIds |-> Entry(r)]
  <1>1. /\ messages' = [messages EXCEPT ![c] = <<>>]
        /\ \A r \in S : runs'[r] = DeletedRow /\ events'[r] = {}
        /\ \A r \in RunIds \ S : runs'[r] = runs[r] /\ events'[r] = events[r]
    BY DEF DeleteKind, CharactersDelete
  <1>2. /\ DeletedRow.status = "deleted" /\ DeletedRow.cancelRequested = FALSE
        /\ DeletedRow.hasMessage = FALSE
    BY DEF DeletedRow, AbsentRow
  <1>3. ASSUME NEW r \in S PROVE runs[r].status \notin Gone
    <2>1. AbsentRow.chat = None /\ DeletedRow.chat = None /\ None # c
      BY NoneAssumption DEF AbsentRow, DeletedRow
    <2> QED
      BY <2>1 DEF RunInv, GoneInv, Gone
  <1>4. ASSUME NEW r \in S
        PROVE  /\ Entry(r).phase \in {"open", "closed"}
               /\ Entry(r)' = Ledger!Gone
    <2>1. PhaseOf(runs[r].status) \in {"open", "closed"}
      BY <1>3 DEF PhaseOf, Gone
    <2>2. Received(r)' = {}
      BY <1>1, <1>2 DEF Received, Exists
    <2>3. Entry(r)' = MakeEntry("gone", "none", FALSE, {}, {}, FALSE)
      BY <1>1, <1>2, <2>2, EntryFields, EmptyShape, PhaseValues DEF Gone
    <2> QED
      BY <2>1, <2>3, EntryReads, LedgerConstants
  <1>5. ASSUME NEW r \in RunIds \ S PROVE Entry(r)' = Entry(r)
    <2>1. runs'[r] = runs[r] /\ events'[r] = events[r] /\ runs[r].chat # c
      BY <1>1
    <2>2. CASE runs[r].status \in Gone
      <3>1. Received(r)' = {} /\ Received(r) = {}
        BY <2>1, <2>2 DEF Received, Exists, Gone
      <3> QED
        BY <2>1, <3>1, EntryFields
    <2>3. CASE runs[r].status \notin Gone
      <3>1. messages'[runs[r].chat] = messages[runs[r].chat]
        BY <1>1, <2>1, <2>3 DEF RunInv, HomeInv, SafetyInv, TypeOK
      <3>2. Received(r)' = Received(r)
        BY <2>1, <2>3, <3>1, ReceivedKept
      <3> QED
        BY <2>1, <3>2, EntryFields
    <2> QED
      BY <2>2, <2>3
  <1> HIDE DEF S
  <1>6. L' = [r \in RunIds |-> IF r \in S THEN Ledger!Gone ELSE L[r]]
    BY <1>4, <1>5
  <1>7. \A r \in S : L[r].phase \in {"open", "closed"}
    BY <1>4 DEF S
  <1>8. Ledger!Delete(S)
    BY <1>6, <1>7 DEF Ledger!Delete
  <1> QED
    BY <1>8 DEF LedgerStep, Ledger!Next, S

LEMMA RecoverLedger ==
  ASSUME RunInv, RecoverKind
  PROVE  LedgerStep
  <1> DEFINE S == {r \in RunIds : runs'[r] # runs[r]}
             L == [r \in RunIds |-> Entry(r)]
  <1>1. /\ messages' = messages /\ events' = events
        /\ \A r \in RunIds \ S : runs'[r] = runs[r]
        /\ \A r \in S : Moved(runs[r], runs'[r]) /\ runs'[r].status = "interrupted"
    BY DEF RecoverKind
  <1>2. ASSUME NEW r \in S
        PROVE  /\ Entry(r).phase = "open"
               /\ Entry(r)' = [Entry(r) EXCEPT !.phase = "closed",
                                               !.outcome = "interrupted"]
    <2>1. /\ runs[r].status \in Active /\ runs'[r].status = "interrupted"
          /\ runs'[r].cancelRequested = runs[r].cancelRequested
          /\ runs'[r].hasMessage = runs[r].hasMessage
          /\ runs'[r].chat = runs[r].chat
      BY <1>1 DEF Moved, SameOrigin, Active
    <2>2. Received(r)' = Received(r)
      BY <1>1, <2>1, ReceivedKept DEF Active, Gone
    <2>3. runs'[r].status \in Terminal /\ r \in RunIds
      BY <2>1 DEF Terminal
    <2>4. Entry(r)' = [Entry(r) EXCEPT !.phase = "closed",
                                       !.outcome = runs'[r].status]
      BY <1>1, <2>1, <2>2, <2>3, EntryClosed
    <2> QED
      BY <2>1, <2>4, EntryReads, PhaseValues
  <1>3. ASSUME NEW r \in RunIds \ S PROVE Entry(r)' = Entry(r)
    <2>1. runs'[r] = runs[r] /\ messages' = messages /\ events'[r] = events[r]
      BY <1>1
    <2>2. Received(r)' = Received(r)
      BY <2>1 DEF Received, Exists, MessagesOf
    <2> QED
      BY <2>1, <2>2, EntryFields
  <1>4. S \in SUBSET RunIds
    OBVIOUS
  <1> HIDE DEF S
  <1>5. L' = [r \in RunIds |->
                IF r \in S
                THEN [L[r] EXCEPT !.phase = "closed", !.outcome = "interrupted"]
                ELSE L[r]]
    BY <1>2, <1>3, <1>4
  <1>6. Ledger!Interrupt(S)
    BY <1>2, <1>4, <1>5 DEF Ledger!Interrupt
  <1> QED
    BY <1>4, <1>6 DEF LedgerStep, Ledger!Next

LEMMA QuietLedger ==
  ASSUME QuietKind
  PROVE  LedgerStep
  <1>1. ASSUME NEW r \in RunIds PROVE Entry(r)' = Entry(r)
    <2>1. Received(r)' = Received(r)
      BY DEF QuietKind, Received, Exists, MessagesOf
    <2> QED
      BY <2>1, EntryFields DEF QuietKind
  <1> QED
    BY <1>1 DEF LedgerStep

\* Every step of callers, writer, failures and recovery is a ledger step.
LEMMA KindLedger ==
  ASSUME RunInv, RunInv', Kind
  PROVE  LedgerStep
  BY MoveLedger, KeepLedger, DiscardLedger, LaunchLedger, DeltaLedger, EndLedger,
     DeleteLedger, RecoverLedger, QuietLedger
  DEF Kind, PlainKind

LEMMA InitLedger == RunInv /\ Init => Ledger!Init
  <1> SUFFICES ASSUME Init PROVE Ledger!Init
    OBVIOUS
  <1>1. ASSUME NEW r \in RunIds PROVE Entry(r) = Ledger!Fresh
    <2>1. /\ runs[r].status = "absent" /\ runs[r].cancelRequested = FALSE
          /\ runs[r].hasMessage = FALSE /\ events[r] = {}
      BY DEF Init, AbsentRow
    <2>2. Received(r) = {}
      BY <2>1 DEF Received, Exists
    <2>3. Entry(r) = MakeEntry("none", "none", FALSE, {}, {}, FALSE)
      BY <2>1, <2>2, EntryFields, EmptyShape, PhaseValues DEF Gone
    <2> QED
      BY <2>3, LedgerConstants
  <1> QED
    BY <1>1 DEF Ledger!Init

\* Every behaviour of the generation workflow, with its writer thread, its
\* cancel requests, crashes, write faults, dropped clients and recovery, is a
\* behaviour of GenerationLedger: a run is opened and closed once, produces
\* nothing after a cancel request, and the chat receives the whole of its
\* output in one message or nothing.
THEOREM RunsImplementLedger == Spec => ImplementsLedger
  <1>1. RunInv /\ RunInv' /\ [Next]_vars => [Ledger!Next]_([r \in RunIds |-> Entry(r)])
    BY NextKind, KindLedger DEF RunInv, SafetyInv, LedgerStep
  <1> QED
    BY InitRun, NextRun, InitLedger, <1>1, PTL DEF Spec, ImplementsLedger, Ledger!Spec
=============================================================================
