-------------------------- MODULE GenerationProofs --------------------------
(***************************************************************************)
(* Theorems about Generation, for every value of its constants: its types, *)
(* then the event log of a run without gaps, no lost compare-and-swap of   *)
(* the executor, and ends that stay as they ended.                         *)
(*                                                                         *)
(* The argument for the latter three: while the executor holds a run, that *)
(* run is active or was deleted, and outside a drain the executor's local  *)
(* row is current (ExecInv).  Then every step changes a run in one of      *)
(* seven ways (RunStep), and each keeps its log sound (LogOK).             *)
(***************************************************************************)
EXTENDS Generation, SequenceTheorems, TLAPS

Commands == UnaryCommands \cup StreamCommands \cup ShutdownCommands

-----------------------------------------------------------------------------
(* Facts about single operators.                                           *)

LEMMA AbsentRowType == AbsentRow \in Rows /\ DeletedRow \in Rows
  BY DEF AbsentRow, DeletedRow, Rows, Active, Terminal

LEMMA LastSeqType ==
  ASSUME NEW row \in Rows
  PROVE  row.lastSeq \in Nat \cup {-1} /\ row.lastSeq + 1 \in Nat
  BY DEF Rows

LEMMA CountersType ==
  ASSUME NEW row \in Rows
  PROVE  row.revision + 1 \in Nat /\ row.partial + 1 \in Nat
  BY DEF Rows

\* Every UPDATE of a row yields a row; k stands for the new revision.
LEMMA UnaryUpdates ==
  ASSUME NEW row \in Rows, NEW k \in Nat, NEW zero \in Nat
  PROVE  /\ [row EXCEPT !.status = "cancelling", !.cancelRequested = TRUE,
                        !.revision = k] \in Rows
         /\ [row EXCEPT !.hasMessage = TRUE, !.revision = k] \in Rows
         /\ [row EXCEPT !.partial = zero, !.revision = k] \in Rows
  BY Zenon DEF Rows, Active

LEMMA LeaseUpdates ==
  ASSUME NEW row \in Rows, NEW k \in Nat
  PROVE  /\ [row EXCEPT !.lease = "null", !.revision = k] \in Rows
         /\ [row EXCEPT !.status = "interrupted", !.lease = "null",
                        !.revision = k] \in Rows
         /\ [row EXCEPT !.lease = "expired"] \in Rows
  BY Zenon DEF Rows, Terminal

LEMMA ExecutorUpdates ==
  ASSUME NEW row \in Rows, NEW k \in Nat, NEW n \in Nat, NEW seq \in Nat,
         NEW s \in Active \cup Terminal, NEW b \in BOOLEAN
  PROVE  /\ [row EXCEPT !.status = s, !.revision = k, !.lease = "live"]
              \in Rows
         /\ [row EXCEPT !.lastSeq = seq, !.partial = n, !.revision = k,
                        !.lease = "live"] \in Rows
         /\ [row EXCEPT !.status = s, !.lastSeq = seq, !.hasMessage = b,
                        !.revision = k, !.lease = "live"] \in Rows
  BY Zenon DEF Rows

LEMMA RowUpdates ==
  ASSUME NEW row \in Rows
  PROVE  /\ CancelRequestedRow(row) \in Rows
         /\ KeptRow(row) \in Rows
         /\ DiscardedRow(row) \in Rows
         /\ ReleasedRow(row) \in Rows
         /\ Recovered(row) \in Rows
         /\ ExpiredRow(row) \in Rows
  <1>1. row.revision + 1 \in Nat /\ 0 \in Nat
    BY CountersType
  <1>2. CancelRequestedRow(row) \in Rows
    BY <1>1, UnaryUpdates, Zenon DEF CancelRequestedRow
  <1>3. KeptRow(row) \in Rows
    BY <1>1, UnaryUpdates, Zenon DEF KeptRow
  <1>4. DiscardedRow(row) \in Rows
    BY <1>1, UnaryUpdates, Zenon DEF DiscardedRow
  <1>5. ReleasedRow(row) \in Rows
    BY <1>1, LeaseUpdates, Zenon DEF ReleasedRow
  <1>6. Recovered(row) \in Rows
    BY <1>1, LeaseUpdates, Zenon DEF Recovered, InterruptedRow
  <1>7. ExpiredRow(row) \in Rows
    BY <1>1, LeaseUpdates, Zenon DEF ExpiredRow
  <1> QED
    BY <1>2, <1>3, <1>4, <1>5, <1>6, <1>7

LEMMA StatusRowType ==
  ASSUME NEW row \in Rows, NEW status \in Active
  PROVE  StatusRow(row, status) \in Rows
  <1>1. row.revision + 1 \in Nat /\ 0 \in Nat
    BY CountersType
  <1> QED
    BY <1>1, ExecutorUpdates, Zenon DEF StatusRow

LEMMA DeltaRowType ==
  ASSUME NEW row \in Rows, NEW endSeq \in Nat
  PROVE  DeltaRow(row, endSeq) \in Rows
  <1>1. row.revision + 1 \in Nat /\ row.partial + 1 \in Nat
    BY CountersType
  <1>2. "queued" \in Active /\ TRUE \in BOOLEAN
    BY DEF Active
  <1> QED
    BY <1>1, <1>2, ExecutorUpdates, Zenon DEF DeltaRow

LEMMA TerminalRowType ==
  ASSUME NEW row \in Rows, NEW status \in Evented, NEW seq \in Nat
  PROVE  TerminalRow(row, status, seq) \in Rows
  <1>1. (row.hasMessage \/ status = "completed") \in BOOLEAN
    OBVIOUS
  <1>2. status \in Active \cup Terminal
    BY DEF Evented, Terminal
  <1>3. row.revision + 1 \in Nat
    BY CountersType
  <1> QED
    BY <1>1, <1>2, <1>3, ExecutorUpdates, Zenon DEF TerminalRow

LEMMA DeltaSeqsType ==
  ASSUME NEW log \in SUBSET EventRecords
  PROVE  DeltaSeqs(log) \in SUBSET Nat
  BY DEF DeltaSeqs, EventRecords

LEMMA EndSeqType ==
  ASSUME NEW index \in Nat, NEW n \in Nat
  PROVE  EndSeq(index, n) \in {n, n + 1}
  BY DEF EndSeq

LEMMA HeadOfQueue ==
  ASSUME TypeOK, queue # <<>>
  PROVE  /\ Head(queue) \in Commands
         /\ Tail(queue) \in Seq(Commands)
  BY HeadTailProperties DEF TypeOK, Commands

LEMMA HeadOfPending ==
  ASSUME TypeOK, pending # <<>>
  PROVE  /\ Head(pending) \in StreamCommands
         /\ Tail(pending) \in Seq(StreamCommands)
  BY HeadTailProperties DEF TypeOK

\* The commands by their operation.
LEMMA CommandTargets ==
  ASSUME NEW cmd \in Commands
  PROVE  /\ cmd.op \in {"cancel", "keep", "discard", "retry"}
              => cmd.client \in Clients /\ cmd.target \in RunIds
         /\ cmd.op \in {"delete", "start"}
              => cmd.client \in Clients /\ cmd.target \in Chats
         /\ cmd.op \in StreamOps => cmd \in StreamCommands
  BY DEF Commands, UnaryCommands, StreamCommands, ShutdownCommands, StreamOps

LEMMA StreamHeadType ==
  ASSUME TypeOK, StreamReady
  PROVE  StreamHead \in StreamCommands
  BY HeadOfQueue, HeadOfPending, CommandTargets DEF StreamReady, StreamHead

LEMMA TakeStreamType ==
  ASSUME TypeOK, StreamReady, TakeStream
  PROVE  queue' \in Seq(Commands) /\ pending' \in Seq(StreamCommands)
  BY HeadOfQueue, HeadOfPending DEF StreamReady, TakeStream, TypeOK, Commands

LEMMA QueuedRowType ==
  ASSUME TypeOK, NEW STATE cmd, cmd \in StreamCommands
  PROVE  QueuedRow(cmd) \in Rows
  <1>1. CASE cmd.op = "retry"
    <2>1. cmd.target \in RunIds
      BY <1>1 DEF StreamCommands
    <2>2. runs[cmd.target] \in Rows
      BY <2>1 DEF TypeOK
    <2> QED
      BY <1>1, <2>1, <2>2 DEF QueuedRow, Rows, Active
  <1>2. CASE cmd.op # "retry"
    <2>1. cmd.target \in Chats
      BY <1>2 DEF StreamCommands
    <2> QED
      BY <1>2, <2>1 DEF QueuedRow, Rows, Active
  <1> QED
    BY <1>1, <1>2

LEMMA ReplyType ==
  ASSUME TypeOK, NEW STATE cmd, Reply(cmd)
  PROVE  client' \in [Clients -> {"idle", "waiting"}]
  BY DEF TypeOK, Reply

LEMMA InsertMessageType ==
  ASSUME TypeOK, NEW STATE r, r \in RunIds, InsertMessage(r)
  PROVE  messages' \in [Chats -> Seq(MessageRecords)]
  <1> DEFINE m == [run |-> r, content |-> DeltaSeqs(events[r])]
  <1>1. m \in MessageRecords
    BY DeltaSeqsType DEF TypeOK, MessageRecords
  <1>2. \A c \in Chats : Append(messages[c], m) \in Seq(MessageRecords)
    BY <1>1, AppendProperties DEF TypeOK
  <1> QED
    BY <1>2 DEF InsertMessage, TypeOK

-----------------------------------------------------------------------------
(* The steps that several actions share preserve the type invariant.       *)

Execs == [pc : {"idle", "boundary", "preparing", "provider", "emit"},
          id : RunIds \cup {None}, row : Rows, emitted : Nat]
NoticeRecords == [open : BOOLEAN, through : Nat \cup {-1},
                  terminal : Nat \cup {-1}]

LEMMA IdleExecType ==
  IdleExec \in Execs /\ (IdleExec.pc # "idle" => IdleExec.id \in RunIds)
  BY AbsentRowType DEF IdleExec, Execs

\* The executor moves to pc, with its row and its count of deltas.
LEMMA ExecMoves ==
  ASSUME NEW e \in Execs,
         NEW pc \in {"boundary", "preparing", "provider", "emit"}
  PROVE  [e EXCEPT !.pc = pc] \in Execs /\ [e EXCEPT !.pc = pc].id = e.id
  BY Zenon DEF Execs

LEMMA ExecReloads ==
  ASSUME NEW e \in Execs, NEW row \in Rows,
         NEW pc \in {"boundary", "preparing", "provider", "emit"}
  PROVE  /\ [e EXCEPT !.pc = pc, !.row = row] \in Execs
         /\ [e EXCEPT !.pc = pc, !.row = row].id = e.id
  BY Zenon DEF Execs

LEMMA NoticeUpdates ==
  ASSUME TypeOK, NEW STATE r, r \in RunIds, NEW STATE seq, seq \in Nat \cup {-1}
  PROVE  /\ SendTerminal(r, seq) => notices' \in [RunIds -> NoticeRecords]
         /\ SendCommitted(r, seq) => notices' \in [RunIds -> NoticeRecords]
         /\ [notices EXCEPT ![r].open = TRUE] \in [RunIds -> NoticeRecords]
  <1>1. notices \in [RunIds -> NoticeRecords] /\ notices[r] \in NoticeRecords
    BY DEF TypeOK, NoticeRecords
  <1>2. /\ [notices[r] EXCEPT !.terminal = seq] \in NoticeRecords
        /\ [notices[r] EXCEPT !.through = seq] \in NoticeRecords
        /\ [notices[r] EXCEPT !.open = TRUE] \in NoticeRecords
    BY <1>1, Zenon DEF NoticeRecords
  <1> QED
    BY <1>1, <1>2 DEF SendTerminal, SendCommitted

LEMMA TerminalCommitType ==
  ASSUME TypeOK, exec.id \in RunIds,
         NEW STATE local, local \in Rows, NEW CONSTANT status \in Evented,
         TerminalCommit(local, status)
  PROVE  TypeOK'
  <1> DEFINE r == exec.id
             run == IF CasLost(local) THEN runs[r] ELSE local
             final == IF CasLost(local) /\ CancelPending(run)
                      THEN "cancelled" ELSE status
             seq == run.lastSeq + 1
             settled == CasLost(local) /\ ~CancelPending(run)
                                       /\ run.status \in Terminal
  <1>1. r \in RunIds /\ runs[r] \in Rows
    BY DEF TypeOK
  <1>2. run \in Rows
    BY <1>1
  <1>3. run.lastSeq \in Nat \cup {-1} /\ seq \in Nat
    BY <1>2, LastSeqType
  <1>4. final \in Evented
    BY DEF Evented
  <1>5. IF settled
        THEN /\ SendTerminal(r, run.lastSeq)
             /\ UNCHANGED <<runs, events, messages>>
        ELSE /\ runs' = [runs EXCEPT ![r] = TerminalRow(runs[r], final, seq)]
             /\ events' = [events EXCEPT ![r] =
                             @ \cup {[seq |-> seq, type |-> final]}]
             /\ IF final = "completed"
                THEN InsertMessage(r) ELSE messages' = messages
             /\ SendTerminal(r, seq)
    BY Zenon DEF TerminalCommit
  <1>6. /\ exec' = IdleExec
        /\ UNCHANGED <<chats, mode, dropped, queue, pending, stop, client,
                       budgets>>
    BY Zenon DEF TerminalCommit
  <1> HIDE DEF r, run, final, seq, settled
  <1>7. notices' \in [RunIds -> NoticeRecords]
    BY <1>1, <1>3, <1>5, NoticeUpdates
  <1>8. /\ runs' \in [RunIds -> Rows]
        /\ events' \in [RunIds -> SUBSET EventRecords]
        /\ messages' \in [Chats -> Seq(MessageRecords)]
    <2>1. CASE settled
      BY <2>1, <1>5 DEF TypeOK
    <2>2. CASE ~settled
      <3>1. TerminalRow(runs[r], final, seq) \in Rows
        BY <1>1, <1>3, <1>4, TerminalRowType
      <3>2. [seq |-> seq, type |-> final] \in EventRecords
        BY <1>3, <1>4 DEF EventRecords
      <3>3. runs' \in [RunIds -> Rows]
        BY <1>1, <1>5, <2>2, <3>1 DEF TypeOK
      <3>4. events' \in [RunIds -> SUBSET EventRecords]
        BY <1>1, <1>5, <2>2, <3>2, SMTT(30) DEF TypeOK
      <3>5. messages' \in [Chats -> Seq(MessageRecords)]
        BY <1>1, <1>5, <2>2, InsertMessageType DEF TypeOK
      <3> QED
        BY <3>3, <3>4, <3>5
    <2> QED
      BY <2>1, <2>2
  <1> QED
    BY <1>6, <1>7, <1>8, IdleExecType
    DEF TypeOK, budgets, NoticeRecords, Execs

LEMMA CasStatusType ==
  ASSUME TypeOK, exec.id \in RunIds, NEW STATE local, local \in Rows,
         NEW CONSTANT status \in {"preparing", "streaming"},
         NEW CONSTANT pc \in {"preparing", "provider"},
         CasStatus(local, status, pc)
  PROVE  TypeOK'
  <1> DEFINE row == StatusRow(runs[exec.id], status)
  <1>1. runs[exec.id] \in Rows /\ exec \in Execs
    BY DEF TypeOK, Execs
  <1>2. row \in Rows
    BY <1>1, StatusRowType DEF Active
  <1>3. CASE CasLost(local) /\ CancelPending(runs[exec.id])
    BY <1>1, <1>3, TerminalCommitType DEF CasStatus, Evented
  <1>4. CASE ~(CasLost(local) /\ CancelPending(runs[exec.id]))
    <2>1. IF CasLost(local) /\ runs[exec.id].status \in Terminal
          THEN UNCHANGED runs /\ exec' = IdleExec
          ELSE /\ runs' = [runs EXCEPT ![exec.id] = row]
               /\ exec' = [exec EXCEPT !.pc = pc, !.row = row]
      BY <1>4, Zenon DEF CasStatus
    <2>2. UNCHANGED <<chats, events, messages, mode, dropped, queue,
                      pending, stop, client, notices, budgets>>
      BY <1>4, Zenon DEF CasStatus
    <2> HIDE DEF row
    <2>3. runs' \in [RunIds -> Rows]
      BY <1>2, <2>1 DEF TypeOK
    <2>4. exec' \in Execs /\ (exec'.pc # "idle" => exec'.id \in RunIds)
      <3>1. pc \in {"boundary", "preparing", "provider", "emit"}
        OBVIOUS
      <3>2. /\ [exec EXCEPT !.pc = pc, !.row = row] \in Execs
            /\ [exec EXCEPT !.pc = pc, !.row = row].id = exec.id
        BY <1>1, <1>2, <3>1, ExecReloads, Zenon
      <3> QED
        BY <2>1, <3>2, IdleExecType, Zenon
    <2> QED
      BY <2>2, <2>3, <2>4 DEF TypeOK, budgets, Execs
  <1> QED
    BY <1>3, <1>4

LEMMA HandleUnaryType ==
  ASSUME TypeOK, NEW STATE cmd, cmd \in Commands, HandleUnary(cmd)
  PROVE  /\ chats' \subseteq Chats
         /\ runs' \in [RunIds -> Rows]
         /\ events' \in [RunIds -> SUBSET EventRecords]
         /\ messages' \in [Chats -> Seq(MessageRecords)]
  <1> DEFINE r == cmd.target
  <1>0. /\ chats \subseteq Chats
        /\ runs \in [RunIds -> Rows]
        /\ events \in [RunIds -> SUBSET EventRecords]
        /\ messages \in [Chats -> Seq(MessageRecords)]
    BY DEF TypeOK
  <1>1. CASE cmd.op = "cancel" /\ GenerationCancel(r)
    BY <1>0, <1>1, CommandTargets, RowUpdates DEF GenerationCancel
  <1>2. CASE cmd.op = "keep" /\ GenerationKeep(r)
    <2>1. r \in RunIds
      BY <1>2, CommandTargets
    <2>2. /\ runs' = [runs EXCEPT ![r] = KeptRow(runs[r])]
          /\ InsertMessage(r)
          /\ UNCHANGED <<chats, events>>
      BY <1>2 DEF GenerationKeep
    <2>3. messages' \in [Chats -> Seq(MessageRecords)]
      BY <2>1, <2>2, InsertMessageType
    <2>4. runs' \in [RunIds -> Rows]
      BY <1>0, <2>1, <2>2, RowUpdates
    <2> QED
      BY <1>0, <2>2, <2>3, <2>4
  <1>3. CASE cmd.op = "discard" /\ GenerationDiscard(r)
    BY <1>0, <1>3, CommandTargets, RowUpdates DEF GenerationDiscard
  <1>4. CASE cmd.op = "delete" /\ CharactersDelete(r)
    BY <1>0, <1>4, AbsentRowType DEF CharactersDelete
  <1>5. CASE UnaryRefused(cmd)
    BY <1>0, <1>5 DEF UnaryRefused, durable
  <1> QED
    BY <1>1, <1>2, <1>3, <1>4, <1>5 DEF HandleUnary

-----------------------------------------------------------------------------
(* Type correctness.                                                       *)

LEMMA InitType == Init => TypeOK
  <1> SUFFICES ASSUME Init PROVE TypeOK
    OBVIOUS
  <1>1. <<>> \in Seq(MessageRecords) /\ <<>> \in Seq(Commands)
          /\ <<>> \in Seq(StreamCommands)
    BY EmptySeq
  <1>2. NoNotice \in NoticeRecords
    BY DEF NoNotice, NoticeRecords
  <1> QED
    BY <1>1, <1>2, AbsentRowType, IdleExecType
    DEF Init, TypeOK, Commands, NoticeRecords, Execs

\* The caller's command has the type of its operation.
LEMMA DispatchType ==
  ASSUME TypeOK, NEW c \in Clients, NEW op \in UnaryOps \cup StreamOps,
         NEW target \in Targets(op), Dispatch(c, op, target)
  PROVE  TypeOK'
  <1> DEFINE cmd == [op |-> op, client |-> c, target |-> target]
  <1>1. op \in {"start", "delete"} => target \in Chats
    BY DEF Targets
  <1>2. op \notin {"start", "delete"} => target \in RunIds
    BY DEF Targets, Known
  <1>3. cmd \in Commands
    BY <1>1, <1>2
    DEF Commands, UnaryCommands, StreamCommands, UnaryOps, StreamOps
  <1>4. Append(queue, cmd) \in Seq(Commands)
    BY <1>3, AppendProperties DEF TypeOK, Commands
  <1> QED
    BY <1>4 DEF Dispatch, TypeOK, Commands, durable

LEMMA DropKernelType ==
  ASSUME TypeOK, DropKernel
  PROVE  TypeOK'
  <1> DEFINE cmd == [op |-> "shutdown", client |-> None, target |-> None]
  <1>1. cmd \in Commands
    BY DEF Commands, ShutdownCommands
  <1>2. Append(queue, cmd) \in Seq(Commands)
    BY <1>1, AppendProperties DEF TypeOK, Commands
  <1> QED
    BY <1>2 DEF DropKernel, TypeOK, Commands, durable

LEMMA ServeType ==
  ASSUME TypeOK,
         \/ ServeUnary \/ ServeUnaryCancelled \/ ServeUnaryFault
         \/ ServeShutdown
  PROVE  TypeOK'
  <1>1. queue # <<>>
    BY DEF ServeUnary, ServeUnaryCancelled, ServeUnaryFault, ServeShutdown,
           Serving
  <1>2. Head(queue) \in Commands /\ Tail(queue) \in Seq(Commands)
    BY <1>1, HeadOfQueue
  <1>3. Reply(Head(queue)) => client' \in [Clients -> {"idle", "waiting"}]
    BY ReplyType
  <1>4. CASE ServeUnary
    <2>1. HandleUnary(Head(queue))
      BY <1>4 DEF ServeUnary
    <2>2. /\ chats' \subseteq Chats
          /\ runs' \in [RunIds -> Rows]
          /\ events' \in [RunIds -> SUBSET EventRecords]
          /\ messages' \in [Chats -> Seq(MessageRecords)]
      BY <1>2, <2>1, HandleUnaryType
    <2> QED
      BY <1>2, <1>3, <1>4, <2>2 DEF ServeUnary, TypeOK, Commands, budgets
  <1>5. CASE ServeUnaryCancelled
    BY <1>2, <1>3, <1>5
    DEF ServeUnaryCancelled, TypeOK, Commands, durable, budgets
  <1>6. CASE ServeUnaryFault
    BY <1>2, <1>3, <1>6 DEF ServeUnaryFault, TypeOK, Commands, durable
  <1>7. CASE ServeShutdown
    BY <1>2, <1>7 DEF ServeShutdown, TypeOK, Commands, durable, budgets
  <1> QED
    BY <1>4, <1>5, <1>6, <1>7

LEMMA StreamType ==
  ASSUME TypeOK,
         \/ DeferStream
         \/ \E r \in RunIds : StreamStart(r)
         \/ StreamRefused \/ StreamFault
  PROVE  TypeOK'
  <1>1. CASE DeferStream
    <2>1. Head(queue) \in Commands /\ Tail(queue) \in Seq(Commands)
      BY <1>1, HeadOfQueue DEF DeferStream
    <2>2. Head(queue) \in StreamCommands
      BY <1>1, <2>1, CommandTargets DEF DeferStream
    <2>3. Append(pending, Head(queue)) \in Seq(StreamCommands)
      BY <2>2, AppendProperties DEF TypeOK
    <2> QED
      BY <1>1, <2>1, <2>3 DEF DeferStream, TypeOK, Commands, durable, budgets
  <1>2. ASSUME NEW r \in RunIds, StreamStart(r) PROVE TypeOK'
    <2> DEFINE row == QueuedRow(StreamHead)
    <2>1. /\ StreamReady /\ TakeStream /\ Reply(StreamHead)
          /\ runs' = [runs EXCEPT ![r] = row]
          /\ exec' = [pc |-> "boundary", id |-> r, row |-> row, emitted |-> 0]
          /\ notices' = [notices EXCEPT ![r].open = TRUE]
          /\ UNCHANGED <<chats, events, messages, mode, dropped, stop, budgets>>
      BY <1>2 DEF StreamStart
    <2>2. row \in Rows
      BY <2>1, StreamHeadType, QueuedRowType
    <2> HIDE DEF row
    <2>3. runs' \in [RunIds -> Rows]
      BY <2>1, <2>2 DEF TypeOK
    <2>4. exec' \in Execs /\ exec'.id \in RunIds
      BY <2>1, <2>2 DEF Execs
    <2>5. notices' \in [RunIds -> NoticeRecords]
      <3>1. -1 \in Nat \cup {-1}
        OBVIOUS
      <3> QED
        BY <2>1, <3>1, NoticeUpdates
    <2>6. queue' \in Seq(Commands) /\ pending' \in Seq(StreamCommands)
      BY <2>1, TakeStreamType
    <2>7. client' \in [Clients -> {"idle", "waiting"}]
      BY <2>1, ReplyType
    <2> QED
      BY <2>1, <2>3, <2>4, <2>5, <2>6, <2>7
      DEF TypeOK, Commands, Execs, NoticeRecords, budgets
  <1>3. CASE StreamRefused
    BY <1>3, TakeStreamType, ReplyType
    DEF StreamRefused, TypeOK, Commands, durable, budgets
  <1>4. CASE StreamFault
    BY <1>4, TakeStreamType, ReplyType
    DEF StreamFault, TypeOK, Commands, durable
  <1> QED
    BY <1>1, <1>2, <1>3, <1>4

LEMMA CommitDeltaType ==
  ASSUME TypeOK, CommitDelta
  PROVE  TypeOK'
  <1> DEFINE r == exec.id
             deltaSeq == runs[r].lastSeq + 1
             endSeq == EndSeq(exec.emitted, deltaSeq)
             row == DeltaRow(runs[r], endSeq)
             delta == [seq |-> deltaSeq, type |-> "delta"]
             checkpoint == [seq |-> endSeq, type |-> "checkpoint"]
  <1>1. r \in RunIds
    BY DEF CommitDelta, Drained, Running, TypeOK
  <1>2. runs[r] \in Rows /\ exec \in Execs /\ exec.emitted \in Nat
    BY <1>1 DEF TypeOK, Execs
  <1>3. deltaSeq \in Nat
    BY <1>2, LastSeqType
  <1>4. endSeq \in Nat
    BY <1>2, <1>3, EndSeqType
  <1>5. row \in Rows
    BY <1>2, <1>4, DeltaRowType
  <1>6. delta \in EventRecords /\ checkpoint \in EventRecords
    BY <1>3, <1>4 DEF EventRecords
  <1>7. /\ runs' = [runs EXCEPT ![r] = row]
        /\ events' = [events EXCEPT ![r] = @ \cup {delta} \cup
                        (IF IsCheckpoint(exec.emitted)
                         THEN {checkpoint} ELSE {})]
        /\ SendCommitted(r, endSeq)
        /\ exec' = [exec EXCEPT !.pc = "provider", !.row = row,
                                !.emitted = exec.emitted + 1]
        /\ UNCHANGED <<chats, messages, mode, dropped, queue, pending, stop,
                       client, budgets>>
    BY Zenon DEF CommitDelta
  <1> HIDE DEF r, deltaSeq, endSeq, row, delta, checkpoint
  <1>8. runs' \in [RunIds -> Rows]
    BY <1>1, <1>5, <1>7 DEF TypeOK
  <1>9. events' \in [RunIds -> SUBSET EventRecords]
    BY <1>1, <1>6, <1>7 DEF TypeOK
  <1>10. notices' \in [RunIds -> NoticeRecords]
    BY <1>1, <1>4, <1>7, NoticeUpdates
  <1>11. exec' \in Execs /\ exec'.id \in RunIds
    <2> DEFINE n == exec.emitted + 1
    <2>1. n \in Nat
      BY <1>2
    <2> HIDE DEF n
    <2>2. /\ [exec EXCEPT !.pc = "provider", !.row = row, !.emitted = n]
               \in Execs
          /\ [exec EXCEPT !.pc = "provider", !.row = row, !.emitted = n].id
               = exec.id
      <3>1. exec \in Execs /\ row \in Rows
        BY <1>2, <1>5
      <3> QED
        BY <2>1, <3>1, Zenon DEF Execs
    <2> QED
      BY <1>1, <1>7, <2>2, Zenon DEF r, n
  <1> QED
    BY <1>7, <1>8, <1>9, <1>10, <1>11
    DEF TypeOK, Execs, NoticeRecords, budgets

LEMMA ExecutorType ==
  ASSUME TypeOK,
         \/ ShutdownAtBoundary \/ Prepare \/ BeginStreaming \/ AdapterEmits
         \/ StopEmitting \/ RunVanished \/ AdapterCompletes \/ AdapterFails
         \/ AdapterCancelled \/ ExecutorFault
  PROVE  TypeOK'
  <1>1. exec.id \in RunIds
    BY DEF ShutdownAtBoundary, Prepare, BeginStreaming, AdapterEmits,
           StopEmitting, RunVanished, AdapterCompletes, AdapterFails,
           AdapterCancelled, ExecutorFault, Drained, Running, TypeOK
  <1>2. runs[exec.id] \in Rows /\ exec \in Execs /\ exec.row \in Rows
    BY <1>1 DEF TypeOK, Execs
  <1>3. CASE ShutdownAtBoundary
    <2>1. CommitShutdownProgress
      BY <1>3 DEF ShutdownAtBoundary
    <2>2. runs' \in [RunIds -> Rows]
      BY <1>1, <1>2, <2>1, RowUpdates DEF CommitShutdownProgress, TypeOK
    <2> QED
      BY <2>1, <2>2, IdleExecType
      DEF CommitShutdownProgress, TypeOK, Execs, budgets
  <1>4. CASE Prepare
    BY <1>1, <1>2, <1>4, CasStatusType DEF Prepare
  <1>5. CASE BeginStreaming
    BY <1>1, <1>2, <1>5, CasStatusType DEF BeginStreaming
  <1>6. CASE AdapterEmits
    <2>1. exec' = [exec EXCEPT !.pc = "emit"]
      BY <1>6 DEF AdapterEmits
    <2>2. "emit" \in {"boundary", "preparing", "provider", "emit"}
      OBVIOUS
    <2>3. exec' \in Execs /\ exec'.id = exec.id
      BY <1>2, <2>1, <2>2, ExecMoves, Zenon
    <2> QED
      BY <1>1, <1>6, <2>3 DEF AdapterEmits, TypeOK, Execs, durable, budgets
  <1>7. CASE StopEmitting
    BY <1>1, <1>2, <1>7, TerminalCommitType DEF StopEmitting, Evented
  <1>8. CASE RunVanished
    BY <1>8, IdleExecType DEF RunVanished, TypeOK, Execs, durable, budgets
  <1>9. CASE AdapterCompletes
    BY <1>1, <1>2, <1>9, TerminalCommitType DEF AdapterCompletes, Evented
  <1>10. CASE AdapterFails
    BY <1>1, <1>2, <1>10, TerminalCommitType DEF AdapterFails, Evented
  <1>11. CASE AdapterCancelled
    BY <1>1, <1>2, <1>11, TerminalCommitType DEF AdapterCancelled, Evented
  <1>12. CASE ExecutorFault
    BY <1>12, IdleExecType DEF ExecutorFault, TypeOK, Execs, durable
  <1> QED
    BY <1>3, <1>4, <1>5, <1>6, <1>7, <1>8, <1>9, <1>10, <1>11, <1>12

LEMMA ProcessType ==
  ASSUME TypeOK,
         \/ WriterExit \/ Crash \/ Open \/ OpenRecoveryFault
         \/ \E r \in RunIds : LeaseExpires(r)
  PROVE  TypeOK'
  <1>1. <<>> \in Seq(Commands) /\ <<>> \in Seq(StreamCommands)
    BY EmptySeq
  <1>2. NoNotice \in NoticeRecords
    BY DEF NoNotice, NoticeRecords
  <1>3. CASE WriterExit
    BY <1>1, <1>3 DEF WriterExit, TypeOK, Commands, durable, budgets
  <1>4. CASE Crash
    <2>1. notices' \in [RunIds -> NoticeRecords]
      BY <1>2, <1>4 DEF Crash
    <2>2. client' \in [Clients -> {"idle", "waiting"}]
      BY <1>4 DEF Crash
    <2>3. exec' \in Execs /\ (exec'.pc # "idle" => exec'.id \in RunIds)
      BY <1>4, IdleExecType, Zenon DEF Crash
    <2>4. /\ queue' \in Seq(Commands) /\ pending' \in Seq(StreamCommands)
          /\ mode' = "down" /\ dropped' = FALSE /\ stop' = FALSE
          /\ crashes' = crashes + 1
          /\ UNCHANGED <<durable, issued, drops, faults>>
      BY <1>1, <1>4 DEF Crash
    <2>5. crashes' \in Nat
      BY <2>4 DEF TypeOK
    <2>6. dropped' \in BOOLEAN /\ stop' \in BOOLEAN /\ mode' \in {"up", "down"}
      BY <2>4
    <2>7. UNCHANGED <<chats, runs, events, messages>>
      BY <2>4 DEF durable
    <2> QED
      BY <2>1, <2>2, <2>3, <2>4, <2>5, <2>6, <2>7, Zenon
      DEF TypeOK, Commands, NoticeRecords, Execs
  <1>5. CASE Open
    <2>1. runs' \in [RunIds -> Rows]
      BY <1>5, RowUpdates DEF Open, TypeOK
    <2> QED
      BY <1>5, <2>1 DEF Open, TypeOK, budgets
  <1>6. CASE OpenRecoveryFault
    BY <1>6 DEF OpenRecoveryFault, TypeOK, durable
  <1>7. ASSUME NEW r \in RunIds, LeaseExpires(r) PROVE TypeOK'
    <2>1. runs' \in [RunIds -> Rows]
      BY <1>7, RowUpdates DEF LeaseExpires, TypeOK
    <2> QED
      BY <1>7, <2>1 DEF LeaseExpires, TypeOK, volatile, budgets
  <1> QED
    BY <1>3, <1>4, <1>5, <1>6, <1>7

LEMMA StutterType == TypeOK /\ UNCHANGED vars => TypeOK'
  BY DEF TypeOK, vars

LEMMA NextType == TypeOK /\ [Next]_vars => TypeOK'
  <1> SUFFICES ASSUME TypeOK, [Next]_vars PROVE TypeOK'
    OBVIOUS
  <1>1. CASE Caller
    BY <1>1, DispatchType, DropKernelType DEF Caller
  <1>2. CASE Writer
    BY <1>2, ServeType, StreamType, CommitDeltaType, ExecutorType, ProcessType
    DEF Writer
  <1>3. CASE Failure
    BY <1>3, ServeType, StreamType, ExecutorType, ProcessType DEF Failure
  <1>4. CASE Open \/ \E r \in RunIds : LeaseExpires(r)
    BY <1>4, ProcessType
  <1>5. CASE UNCHANGED vars
    BY <1>5, StutterType
  <1> QED
    BY <1>1, <1>2, <1>3, <1>4, <1>5 DEF Next

\* The rows, the log, the messages, the channel and the executor keep their
\* types whatever callers, writer, failures and recovery do.
THEOREM TypeCorrect == Spec => []TypeOK
  BY InitType, NextType, PTL DEF Spec

-----------------------------------------------------------------------------
(* The executor, the log and the ends.                                     *)

\* The run under the executor is active, or a drain has deleted it; between
\* drains it is active and the local row has its revision and its sequence.
ExecInv ==
    /\ mode = "down" => exec.pc = "idle"
    /\ exec.pc # "idle" => runs[exec.id].status \in Active \cup {"deleted"}
    /\ exec.pc \in {"preparing", "provider"} =>
         /\ runs[exec.id].status \in Active
         /\ runs[exec.id].revision = exec.row.revision
         /\ runs[exec.id].lastSeq = exec.row.lastSeq

Gone == {"absent", "deleted"}
Gapless(log, last) ==
    /\ Seqs(log) = 0 .. last
    /\ \A d, e \in log : d.seq = e.seq => d = e

\* A row and its log: no log without a row, and a gapless one otherwise,
\* unless the run ended and its log was purged.
LogOK(row, log) ==
    IF row.status \in Gone THEN log = {}
    ELSE \/ row.status \in Recoverable /\ row.partial = 0 /\ log = {}
         \/ Gapless(log, row.lastSeq)
LogInv == \A r \in RunIds : LogOK(runs[r], events[r])

-----------------------------------------------------------------------------
(* The ways in which a step changes a run and its log.                     *)

Same(row, log, row2, log2) == row2 = row /\ log2 = log
Touched(row, log, row2, log2) ==
    /\ row.status \in Active /\ row2.status \in Active \cup {"interrupted"}
    /\ row2.lastSeq = row.lastSeq /\ log2 = log
Kept(row, log, row2, log2) ==
    /\ row.status \in Recoverable /\ row.partial > 0
    /\ row2.status = row.status /\ row2.lastSeq = row.lastSeq /\ log2 = log
Discarded(row, log, row2, log2) ==
    /\ row.status \in Recoverable
    /\ row2.status = row.status /\ row2.lastSeq = row.lastSeq
    /\ row2.partial = 0 /\ log2 = {}
Deleted(row2, log2) == row2.status = "deleted" /\ log2 = {}
Started(row, log, row2, log2) ==
    /\ row.status = "absent" /\ row2.status = "queued" /\ row2.lastSeq = -1
    /\ log2 = log
Appended(row, log, row2, log2) ==
    /\ row.status \in Active /\ row2.status \in Active \cup Evented
    /\ \/ \E d \in EventRecords :
            /\ d.seq = row.lastSeq + 1 /\ row2.lastSeq = row.lastSeq + 1
            /\ log2 = log \cup {d}
       \/ \E d, e \in EventRecords :
            /\ d.seq = row.lastSeq + 1 /\ e.seq = row.lastSeq + 2
            /\ row2.lastSeq = row.lastSeq + 2
            /\ log2 = log \cup {d, e}

RunStep(row, log, row2, log2) ==
    \/ Same(row, log, row2, log2) \/ Touched(row, log, row2, log2)
    \/ Kept(row, log, row2, log2) \/ Discarded(row, log, row2, log2)
    \/ Deleted(row2, log2) \/ Started(row, log, row2, log2)
    \/ Appended(row, log, row2, log2)
RunsStep == \A r \in RunIds : RunStep(runs[r], events[r], runs'[r], events'[r])

-----------------------------------------------------------------------------
(* Logs.                                                                   *)

\* The next event in sequence keeps a log gapless.
LEMMA AppendGapless ==
  \A log \in SUBSET EventRecords, last \in Nat \cup {-1}, d \in EventRecords :
    Gapless(log, last) /\ d.seq = last + 1 => Gapless(log \cup {d}, last + 1)
  <1> SUFFICES ASSUME NEW log \in SUBSET EventRecords,
                      NEW last \in Nat \cup {-1}, NEW d \in EventRecords,
                      Gapless(log, last), d.seq = last + 1
               PROVE  Gapless(log \cup {d}, last + 1)
    OBVIOUS
  <1>1. Seqs(log) = 0 .. last
    BY DEF Gapless
  <1>2. Seqs(log \cup {d}) = Seqs(log) \cup {last + 1}
    BY DEF Seqs
  <1>3. (0 .. last) \cup {last + 1} = 0 .. (last + 1)
    OBVIOUS
  <1>4. \A e \in log : e.seq # last + 1
    BY <1>1 DEF Seqs
  <1> QED
    BY <1>1, <1>2, <1>3, <1>4 DEF Gapless

\* Each way of changing a run keeps its log sound.
LEMMA RunStepKeepsLog ==
  \A row, row2 \in Rows, log, log2 \in SUBSET EventRecords :
    LogOK(row, log) /\ RunStep(row, log, row2, log2) => LogOK(row2, log2)
  <1> SUFFICES ASSUME NEW row \in Rows, NEW row2 \in Rows,
                      NEW log \in SUBSET EventRecords,
                      NEW log2 \in SUBSET EventRecords,
                      LogOK(row, log), RunStep(row, log, row2, log2)
               PROVE  LogOK(row2, log2)
    OBVIOUS
  <1>1. CASE Same(row, log, row2, log2)
    BY <1>1 DEF Same
  <1>2. CASE Touched(row, log, row2, log2)
    BY <1>2 DEF Touched, LogOK, Gone, Active, Recoverable
  <1>3. CASE Kept(row, log, row2, log2)
    BY <1>3 DEF Kept, LogOK, Gone, Recoverable, Rows
  <1>4. CASE Discarded(row, log, row2, log2)
    BY <1>4 DEF Discarded, LogOK, Gone, Recoverable
  <1>5. CASE Deleted(row2, log2)
    BY <1>5 DEF Deleted, LogOK, Gone
  <1>6. CASE Started(row, log, row2, log2)
    <2>1. log2 = {} /\ row2.lastSeq = -1
      BY <1>6 DEF Started, LogOK, Gone
    <2>2. Gapless({}, -1)
      BY DEF Gapless, Seqs
    <2> QED
      BY <1>6, <2>1, <2>2 DEF Started, LogOK, Gone
  <1>7. CASE Appended(row, log, row2, log2)
    <2>1. row.lastSeq \in Nat \cup {-1} /\ row.lastSeq + 1 \in Nat \cup {-1}
      BY LastSeqType
    <2>2. Gapless(log, row.lastSeq)
      BY <1>7 DEF Appended, LogOK, Gone, Active, Recoverable
    <2>3. Gapless(log2, row2.lastSeq)
      <3>1. CASE \E d \in EventRecords :
                   /\ d.seq = row.lastSeq + 1 /\ row2.lastSeq = row.lastSeq + 1
                   /\ log2 = log \cup {d}
        BY <2>1, <2>2, <3>1, AppendGapless
      <3>2. ASSUME NEW d \in EventRecords, NEW e \in EventRecords,
                   d.seq = row.lastSeq + 1, e.seq = row.lastSeq + 2,
                   row2.lastSeq = row.lastSeq + 2, log2 = log \cup {d, e}
            PROVE  Gapless(log2, row2.lastSeq)
        <4>1. Gapless(log \cup {d}, row.lastSeq + 1)
          BY <2>1, <2>2, <3>2, AppendGapless
        <4>2. log \cup {d} \in SUBSET EventRecords
          OBVIOUS
        <4>3. e.seq = (row.lastSeq + 1) + 1
          BY <2>1, <3>2
        <4>4. Gapless((log \cup {d}) \cup {e}, (row.lastSeq + 1) + 1)
          BY <2>1, <4>1, <4>2, <4>3, AppendGapless
        <4>5. /\ (log \cup {d}) \cup {e} = log2
              /\ (row.lastSeq + 1) + 1 = row2.lastSeq
          BY <2>1, <3>2
        <4> QED
          BY <4>4, <4>5
      <3> QED
        BY <1>7, <3>1, <3>2 DEF Appended
    <2>4. row2.status \notin Gone
      BY <1>7 DEF Appended, Gone, Active, Evented
    <2> QED
      BY <2>3, <2>4 DEF LogOK
  <1> QED
    BY <1>1, <1>2, <1>3, <1>4, <1>5, <1>6, <1>7 DEF RunStep

-----------------------------------------------------------------------------
(* What the UPDATEs of a row leave alone.                                  *)

LEMMA UnaryFields ==
  ASSUME NEW row \in Rows
  PROVE  /\ CancelRequestedRow(row).status = "cancelling"
         /\ CancelRequestedRow(row).lastSeq = row.lastSeq
         /\ KeptRow(row).status = row.status
         /\ KeptRow(row).lastSeq = row.lastSeq
         /\ DiscardedRow(row).status = row.status
         /\ DiscardedRow(row).lastSeq = row.lastSeq
         /\ DiscardedRow(row).partial = 0
  BY DEF CancelRequestedRow, KeptRow, DiscardedRow, Rows

LEMMA LeaseFields ==
  ASSUME NEW row \in Rows
  PROVE  /\ ReleasedRow(row).status = row.status
         /\ ReleasedRow(row).lastSeq = row.lastSeq
         /\ InterruptedRow(row).status = "interrupted"
         /\ InterruptedRow(row).lastSeq = row.lastSeq
         /\ ExpiredRow(row).status = row.status
         /\ ExpiredRow(row).lastSeq = row.lastSeq
         /\ ExpiredRow(row).revision = row.revision
  BY DEF ReleasedRow, InterruptedRow, ExpiredRow, Rows

LEMMA ExecutorFields ==
  ASSUME NEW row \in Rows, NEW status, NEW seq
  PROVE  /\ StatusRow(row, status).status = status
         /\ StatusRow(row, status).lastSeq = row.lastSeq
         /\ DeltaRow(row, seq).status = row.status
         /\ DeltaRow(row, seq).lastSeq = seq
         /\ TerminalRow(row, status, seq).status = status
         /\ TerminalRow(row, status, seq).lastSeq = seq
  BY DEF StatusRow, DeltaRow, TerminalRow, Rows

LEMMA NewRowFields ==
  /\ DeletedRow.status = "deleted"
  /\ \A cmd : QueuedRow(cmd).status = "queued" /\ QueuedRow(cmd).lastSeq = -1
  BY DEF DeletedRow, AbsentRow, QueuedRow

-----------------------------------------------------------------------------
(* Every step changes every run in one of the seven ways.                  *)

\* What a drain may do to a run that has not ended: not end it.
StaysActive == \A r \in RunIds :
    runs[r].status \in Active \cup {"deleted"} =>
        runs'[r].status \in Active \cup {"deleted"}

LEMMA SameRuns ==
  ASSUME UNCHANGED <<runs, events>> PROVE RunsStep /\ StaysActive
  BY DEF RunsStep, RunStep, Same, StaysActive

\* A step on the run t alone.
Elsewhere(t) ==
    \A r \in RunIds \ {t} : runs'[r] = runs[r] /\ events'[r] = events[r]

LEMMA OneRun ==
  ASSUME NEW STATE t, t \in RunIds, Elsewhere(t),
         RunStep(runs[t], events[t], runs'[t], events'[t])
  PROVE  /\ RunsStep
         /\ runs'[t].status \in {runs[t].status} \cup Active => StaysActive
  <1>1. \A r \in RunIds \ {t} : Same(runs[r], events[r], runs'[r], events'[r])
    BY DEF Elsewhere, Same
  <1>2. RunsStep
    BY <1>1 DEF RunsStep, RunStep
  <1>3. ASSUME runs'[t].status \in {runs[t].status} \cup Active
        PROVE  StaysActive
    BY <1>3 DEF StaysActive, Elsewhere
  <1> QED
    BY <1>2, <1>3

LEMMA UnarySteps ==
  ASSUME TypeOK, NEW STATE cmd, cmd \in Commands, HandleUnary(cmd)
  PROVE  RunsStep /\ StaysActive
  <1> DEFINE t == cmd.target
  <1>0. runs \in [RunIds -> Rows] /\ events \in [RunIds -> SUBSET EventRecords]
    BY DEF TypeOK
  <1>1. CASE cmd.op = "cancel" /\ GenerationCancel(t)
    <2>1. t \in RunIds /\ runs[t] \in Rows
      BY <1>0, <1>1, CommandTargets
    <2>2. /\ runs[t].status \in Active
          /\ runs' = [runs EXCEPT ![t] = CancelRequestedRow(runs[t])]
          /\ events' = events
      BY <1>1 DEF GenerationCancel, CanCancel, Cancellable, Active
    <2>3. "cancelling" \in Active
      BY DEF Active
    <2>4. /\ Touched(runs[t], events[t], runs'[t], events'[t])
          /\ runs'[t].status \in Active
      BY <1>0, <2>1, <2>2, <2>3, UnaryFields DEF Touched
    <2>5. Elsewhere(t)
      BY <1>0, <2>2 DEF Elsewhere
    <2> QED
      BY <2>1, <2>4, <2>5, OneRun DEF RunStep
  <1>2. CASE cmd.op = "keep" /\ GenerationKeep(t)
    <2>1. t \in RunIds /\ runs[t] \in Rows
      BY <1>0, <1>2, CommandTargets
    <2>2. /\ runs[t].status \in Recoverable /\ runs[t].partial > 0
          /\ runs' = [runs EXCEPT ![t] = KeptRow(runs[t])]
          /\ events' = events
      BY <1>2 DEF GenerationKeep, CanKeep
    <2>3. Kept(runs[t], events[t], runs'[t], events'[t])
      BY <1>0, <2>1, <2>2, UnaryFields DEF Kept
    <2>4. Elsewhere(t)
      BY <1>0, <2>2 DEF Elsewhere
    <2>5. runs'[t].status = runs[t].status
      BY <2>3 DEF Kept
    <2> QED
      BY <2>1, <2>3, <2>4, <2>5, OneRun DEF RunStep
  <1>3. CASE cmd.op = "discard" /\ GenerationDiscard(t)
    <2>1. t \in RunIds /\ runs[t] \in Rows
      BY <1>0, <1>3, CommandTargets
    <2>2. /\ runs[t].status \in Recoverable
          /\ runs' = [runs EXCEPT ![t] = DiscardedRow(runs[t])]
          /\ events' = [events EXCEPT ![t] = {}]
      BY <1>3 DEF GenerationDiscard, CanDiscard
    <2>3. Discarded(runs[t], events[t], runs'[t], events'[t])
      BY <1>0, <2>1, <2>2, UnaryFields DEF Discarded
    <2>4. Elsewhere(t)
      BY <1>0, <2>2 DEF Elsewhere
    <2>5. runs'[t].status = runs[t].status
      BY <2>3 DEF Discarded
    <2> QED
      BY <2>1, <2>3, <2>4, <2>5, OneRun DEF RunStep
  <1>4. CASE cmd.op = "delete" /\ CharactersDelete(t)
    <2>1. \A r \in RunIds :
            \/ Deleted(runs'[r], events'[r])
            \/ Same(runs[r], events[r], runs'[r], events'[r])
      BY <1>4, NewRowFields DEF CharactersDelete, Deleted, Same
    <2> QED
      BY <2>1 DEF RunsStep, RunStep, StaysActive, Deleted, Same
  <1>5. CASE UnaryRefused(cmd)
    BY <1>5, SameRuns DEF UnaryRefused, durable
  <1> QED
    BY <1>1, <1>2, <1>3, <1>4, <1>5 DEF HandleUnary

\* Between drains no compare-and-swap is lost, so a terminal commit and a
\* status change have only their first outcome.
LEMMA TerminalSteps ==
  ASSUME TypeOK, exec.id \in RunIds, NEW STATE local, local \in Rows,
         NEW CONSTANT status \in Evented,
         runs[exec.id].status \in Active,
         runs[exec.id].revision = local.revision,
         runs[exec.id].lastSeq = local.lastSeq,
         TerminalCommit(local, status)
  PROVE  RunsStep /\ exec' = IdleExec /\ mode' = mode
  <1> DEFINE r == exec.id
             seq == local.lastSeq + 1
             event == [seq |-> seq, type |-> status]
  <1>1. ~CasLost(local)
    BY DEF CasLost
  <1>2. /\ runs' = [runs EXCEPT ![r] = TerminalRow(runs[r], status, seq)]
        /\ events' = [events EXCEPT ![r] = @ \cup {event}]
        /\ exec' = IdleExec /\ mode' = mode
    BY <1>1, Zenon DEF TerminalCommit
  <1>3. seq \in Nat /\ event \in EventRecords /\ event.seq = seq
    BY LastSeqType DEF EventRecords
  <1>4. /\ runs \in [RunIds -> Rows] /\ runs[r] \in Rows
        /\ events \in [RunIds -> SUBSET EventRecords]
    BY DEF TypeOK
  <1> HIDE DEF event
  <1>5. /\ runs'[r].status = status /\ runs'[r].lastSeq = seq
        /\ events'[r] = events[r] \cup {event}
    BY <1>2, <1>4, ExecutorFields
  <1>6. Appended(runs[r], events[r], runs'[r], events'[r])
    BY <1>3, <1>5 DEF Appended
  <1>7. Elsewhere(r)
    BY <1>2, <1>4 DEF Elsewhere
  <1> QED
    BY <1>2, <1>6, <1>7, OneRun DEF RunStep

LEMMA StatusSteps ==
  ASSUME TypeOK, mode = "up", exec.id \in RunIds, NEW STATE local,
         NEW CONSTANT status \in {"preparing", "streaming"},
         NEW CONSTANT pc \in {"preparing", "provider"},
         runs[exec.id].status \in Active,
         runs[exec.id].revision = local.revision,
         CasStatus(local, status, pc)
  PROVE  RunsStep /\ ExecInv'
  <1> DEFINE r == exec.id
             row == StatusRow(runs[r], status)
  <1>1. ~CasLost(local)
    BY DEF CasLost
  <1>2. /\ runs' = [runs EXCEPT ![r] = row]
        /\ exec' = [exec EXCEPT !.pc = pc, !.row = row]
        /\ UNCHANGED <<events, mode>>
    BY <1>1, Zenon DEF CasStatus
  <1>3. /\ runs \in [RunIds -> Rows] /\ runs[r] \in Rows /\ exec \in Execs
    BY DEF TypeOK, Execs
  <1>4. row.status = status /\ row.lastSeq = runs[r].lastSeq
    BY <1>3, ExecutorFields
  <1> HIDE DEF row
  <1>5. runs'[r] = row /\ row.status \in Active
    BY <1>2, <1>3, <1>4 DEF Active
  <1>6. Touched(runs[r], events[r], runs'[r], events'[r])
    BY <1>2, <1>4, <1>5 DEF Touched
  <1>7. Elsewhere(r)
    BY <1>2, <1>3 DEF Elsewhere
  <1>8. exec'.id = r /\ exec'.row = row /\ exec'.pc = pc
    BY <1>2, <1>3, Zenon DEF Execs
  <1>9. ExecInv'
    BY <1>2, <1>5, <1>8 DEF ExecInv
  <1> QED
    BY <1>6, <1>7, <1>9, OneRun DEF RunStep

LEMMA IdleKeepsExecInv ==
  ASSUME exec' = IdleExec PROVE ExecInv'
  BY DEF ExecInv, IdleExec

LEMMA QuietSteps ==
  ASSUME ExecInv, UNCHANGED <<runs, events, exec>>,
         mode' = mode \/ mode' = "up" \/ exec.pc = "idle"
  PROVE  RunsStep /\ ExecInv'
  BY SameRuns DEF ExecInv

LEMMA ServeSteps ==
  ASSUME TypeOK, ExecInv, ServeUnary
  PROVE  RunsStep /\ ExecInv'
  <1>1. Head(queue) \in Commands /\ HandleUnary(Head(queue))
    BY HeadOfQueue DEF ServeUnary, Serving
  <1>2. RunsStep /\ StaysActive
    BY <1>1, UnarySteps
  <1>3. exec.pc \notin {"preparing", "provider"} /\ UNCHANGED <<exec, mode>>
    BY DEF ServeUnary, Serving, Draining, Receiving
  <1>4. exec.pc # "idle" => exec.id \in RunIds
    BY DEF TypeOK
  <1>5. ExecInv'
    BY <1>2, <1>3, <1>4 DEF ExecInv, StaysActive
  <1> QED
    BY <1>2, <1>5

LEMMA StartSteps ==
  ASSUME TypeOK, NEW r \in RunIds, StreamStart(r)
  PROVE  RunsStep /\ ExecInv'
  <1> DEFINE row == QueuedRow(StreamHead)
  <1>1. /\ mode = "up" /\ runs[r].status = "absent"
        /\ runs' = [runs EXCEPT ![r] = row]
        /\ exec' = [pc |-> "boundary", id |-> r, row |-> row, emitted |-> 0]
        /\ UNCHANGED <<events, mode>>
    BY DEF StreamStart, StreamReady
  <1>2. row.status = "queued" /\ row.lastSeq = -1
    BY NewRowFields
  <1> HIDE DEF row
  <1>3. runs'[r] = row /\ Elsewhere(r)
    BY <1>1 DEF TypeOK, Elsewhere
  <1>4. Started(runs[r], events[r], runs'[r], events'[r])
    BY <1>1, <1>2, <1>3 DEF Started
  <1>5. ExecInv'
    BY <1>1, <1>2, <1>3 DEF ExecInv, Active
  <1> QED
    BY <1>3, <1>4, <1>5, OneRun DEF RunStep

LEMMA CommitDeltaSteps ==
  ASSUME TypeOK, ExecInv, CommitDelta
  PROVE  RunsStep /\ ExecInv'
  <1> DEFINE r == exec.id
             deltaSeq == runs[r].lastSeq + 1
             endSeq == EndSeq(exec.emitted, deltaSeq)
             row == DeltaRow(runs[r], endSeq)
             delta == [seq |-> deltaSeq, type |-> "delta"]
             checkpoint == [seq |-> endSeq, type |-> "checkpoint"]
  <1>1. /\ r \in RunIds /\ runs[r].status \in Active /\ mode = "up"
    BY DEF CommitDelta, Drained, Running, TypeOK, ExecInv, Exists
  <1>2. /\ runs \in [RunIds -> Rows] /\ runs[r] \in Rows
        /\ events \in [RunIds -> SUBSET EventRecords]
        /\ exec \in Execs /\ exec.emitted \in Nat
    BY <1>1 DEF TypeOK, Execs
  <1>3. /\ deltaSeq \in Nat
        /\ IF IsCheckpoint(exec.emitted)
           THEN endSeq = runs[r].lastSeq + 2 ELSE endSeq = deltaSeq
    BY <1>2, LastSeqType DEF EndSeq
  <1>4. /\ delta \in EventRecords /\ delta.seq = deltaSeq
        /\ checkpoint \in EventRecords /\ checkpoint.seq = endSeq
    BY <1>2, <1>3, LastSeqType DEF EventRecords
  <1>5. row.status = runs[r].status /\ row.lastSeq = endSeq
    BY <1>2, ExecutorFields
  <1>6. /\ runs' = [runs EXCEPT ![r] = row]
        /\ events' = [events EXCEPT ![r] = @ \cup {delta} \cup
                        (IF IsCheckpoint(exec.emitted)
                         THEN {checkpoint} ELSE {})]
        /\ exec' = [exec EXCEPT !.pc = "provider", !.row = row,
                                !.emitted = exec.emitted + 1]
        /\ mode' = mode
    BY Zenon DEF CommitDelta
  <1> HIDE DEF row, delta, checkpoint, endSeq
  <1>7. runs'[r] = row /\ Elsewhere(r)
    BY <1>1, <1>2, <1>6 DEF Elsewhere
  <1>8. Appended(runs[r], events[r], runs'[r], events'[r])
    <2>1. CASE IsCheckpoint(exec.emitted)
      <3>1. events'[r] = events[r] \cup {delta, checkpoint}
        BY <1>1, <1>2, <1>6, <2>1
      <3>2. checkpoint.seq = runs[r].lastSeq + 2
        BY <1>3, <1>4, <2>1
      <3>3. row.lastSeq = runs[r].lastSeq + 2
        BY <1>3, <1>5, <2>1
      <3> QED
        BY <1>1, <1>4, <1>5, <1>7, <3>1, <3>2, <3>3 DEF Appended
    <2>2. CASE ~IsCheckpoint(exec.emitted)
      <3>1. events'[r] = events[r] \cup {delta}
        BY <1>1, <1>2, <1>6, <2>2
      <3> QED
        BY <1>1, <1>3, <1>4, <1>5, <1>7, <2>2, <3>1 DEF Appended
    <2> QED
      BY <2>1, <2>2
  <1>9. exec'.id = r /\ exec'.row = row /\ exec'.pc = "provider"
    BY <1>2, <1>6, Zenon DEF Execs
  <1>10. ExecInv'
    BY <1>1, <1>5, <1>6, <1>7, <1>9 DEF ExecInv
  <1> QED
    BY <1>1, <1>7, <1>8, <1>10, OneRun DEF RunStep

LEMMA ExecutorSteps ==
  ASSUME TypeOK, ExecInv,
         \/ ShutdownAtBoundary \/ Prepare \/ BeginStreaming \/ AdapterEmits
         \/ StopEmitting \/ RunVanished \/ AdapterCompletes \/ AdapterFails
         \/ AdapterCancelled \/ ExecutorFault
  PROVE  RunsStep /\ ExecInv'
  <1>1. exec.id \in RunIds /\ mode = "up"
    BY DEF ShutdownAtBoundary, Prepare, BeginStreaming, AdapterEmits,
           StopEmitting, RunVanished, AdapterCompletes, AdapterFails,
           AdapterCancelled, ExecutorFault, Drained, Running, TypeOK
  <1>2. /\ runs \in [RunIds -> Rows] /\ runs[exec.id] \in Rows
        /\ exec \in Execs /\ exec.row \in Rows
    BY <1>1 DEF TypeOK, Execs
  <1>3. Exists(exec.id) /\ exec.pc # "idle" => runs[exec.id].status \in Active
    BY DEF ExecInv, Exists
  <1>4. CASE ShutdownAtBoundary
    <2>1. exec.pc # "idle" /\ CommitShutdownProgress
      BY <1>4 DEF ShutdownAtBoundary, Drained, Running
    <2>2. exec' = IdleExec /\ UNCHANGED <<events, mode>>
      BY <2>1 DEF CommitShutdownProgress
    <2>3. CASE ~Exists(exec.id) \/ CasLost(exec.row)
      BY <2>1, <2>2, <2>3, SameRuns, IdleKeepsExecInv
      DEF CommitShutdownProgress
    <2>4. CASE ~(~Exists(exec.id) \/ CasLost(exec.row))
      <3>1. runs' = [runs EXCEPT ![exec.id] = ReleasedRow(runs[exec.id])]
        BY <2>1, <2>4 DEF CommitShutdownProgress
      <3>2. Touched(runs[exec.id], events[exec.id],
                    runs'[exec.id], events'[exec.id])
        BY <1>1, <1>2, <1>3, <2>1, <2>2, <2>4, <3>1, LeaseFields DEF Touched
      <3>3. Elsewhere(exec.id)
        BY <1>2, <2>2, <3>1 DEF Elsewhere
      <3> QED
        BY <1>1, <2>2, <3>2, <3>3, OneRun, IdleKeepsExecInv DEF RunStep
    <2> QED
      BY <2>3, <2>4
  <1>5. CASE Prepare
    BY <1>1, <1>3, <1>5, StatusSteps DEF Prepare, Drained, Running
  <1>6. CASE BeginStreaming
    BY <1>1, <1>6, StatusSteps DEF BeginStreaming, Running, ExecInv
  <1>7. CASE AdapterEmits
    <2>1. /\ exec' = [exec EXCEPT !.pc = "emit"]
          /\ exec.pc = "provider" /\ UNCHANGED <<runs, events, mode>>
      BY <1>7 DEF AdapterEmits, Running, durable
    <2>2. exec'.pc = "emit" /\ exec'.id = exec.id
      BY <1>2, <2>1, Zenon DEF Execs
    <2>3. runs[exec.id].status \in Active
      BY <2>1 DEF ExecInv
    <2>4. ExecInv'
      BY <1>1, <2>1, <2>2, <2>3 DEF ExecInv
    <2> QED
      BY <2>1, <2>4, SameRuns
  <1>8. CASE StopEmitting
    BY <1>1, <1>2, <1>3, <1>8, TerminalSteps, IdleKeepsExecInv
    DEF StopEmitting, Drained, Running, Evented
  <1>9. CASE AdapterCompletes \/ AdapterFails \/ AdapterCancelled
    BY <1>1, <1>2, <1>9, TerminalSteps, IdleKeepsExecInv
    DEF AdapterCompletes, AdapterFails, AdapterCancelled, Running, Evented,
        ExecInv
  <1>10. CASE RunVanished \/ ExecutorFault
    BY <1>10, SameRuns, IdleKeepsExecInv DEF RunVanished, ExecutorFault, durable
  <1> QED
    BY <1>4, <1>5, <1>6, <1>7, <1>8, <1>9, <1>10

LEMMA ProcessSteps ==
  ASSUME TypeOK, ExecInv,
         \/ WriterExit \/ Crash \/ Open \/ OpenRecoveryFault
         \/ \E r \in RunIds : LeaseExpires(r)
  PROVE  RunsStep /\ ExecInv'
  <1>0. runs \in [RunIds -> Rows]
    BY DEF TypeOK
  <1>1. CASE WriterExit
    BY <1>1, QuietSteps DEF WriterExit, durable
  <1>2. CASE Crash
    BY <1>2, SameRuns, IdleKeepsExecInv DEF Crash, durable
  <1>3. CASE Open
    <2>1. /\ exec.pc = "idle" /\ UNCHANGED <<events, exec>>
          /\ runs' = [r \in RunIds |-> Recovered(runs[r])]
      BY <1>3 DEF Open, ExecInv
    <2>2. ASSUME NEW r \in RunIds
          PROVE  RunStep(runs[r], events[r], runs'[r], events'[r])
      <3>1. CASE runs[r].status \in Active /\ runs'[r] = InterruptedRow(runs[r])
        BY <1>0, <2>1, <3>1, LeaseFields DEF RunStep, Touched
      <3>2. CASE runs'[r] = runs[r]
        BY <2>1, <3>2 DEF RunStep, Same
      <3> QED
        BY <2>1, <3>1, <3>2 DEF Recovered
    <2> QED
      BY <2>1, <2>2 DEF RunsStep, ExecInv
  <1>4. CASE OpenRecoveryFault
    BY <1>4, QuietSteps DEF OpenRecoveryFault, durable
  <1>5. ASSUME NEW r \in RunIds, LeaseExpires(r) PROVE RunsStep /\ ExecInv'
    <2>1. /\ runs[r].status \in Active
          /\ runs' = [runs EXCEPT ![r] = ExpiredRow(runs[r])]
          /\ UNCHANGED <<events, exec, mode>>
      BY <1>5 DEF LeaseExpires, volatile
    <2>2. /\ runs'[r].status = runs[r].status
          /\ runs'[r].lastSeq = runs[r].lastSeq
          /\ runs'[r].revision = runs[r].revision
      BY <1>0, <2>1, LeaseFields
    <2>3. Touched(runs[r], events[r], runs'[r], events'[r]) /\ Elsewhere(r)
      BY <1>0, <2>1, <2>2 DEF Touched, Elsewhere
    <2>4. \A t \in RunIds : /\ runs'[t].status = runs[t].status
                            /\ runs'[t].lastSeq = runs[t].lastSeq
                            /\ runs'[t].revision = runs[t].revision
      BY <2>2, <2>3 DEF Elsewhere
    <2>5. ExecInv'
      BY <2>1, <2>4 DEF ExecInv, TypeOK
    <2> QED
      BY <2>3, <2>5, OneRun DEF RunStep
  <1> QED
    BY <1>1, <1>2, <1>3, <1>4, <1>5

LEMMA NextSteps ==
  ASSUME TypeOK, ExecInv, [Next]_vars
  PROVE  RunsStep /\ ExecInv'
  <1>1. CASE Caller
    BY <1>1, QuietSteps DEF Caller, Dispatch, DropKernel, durable
  <1>2. CASE \/ ServeUnaryCancelled \/ ServeUnaryFault \/ ServeShutdown
             \/ DeferStream \/ StreamRefused \/ StreamFault
    BY <1>2, QuietSteps
    DEF ServeUnaryCancelled, ServeUnaryFault, ServeShutdown, DeferStream,
        StreamRefused, StreamFault, durable
  <1>3. CASE Writer
    BY <1>2, <1>3, ServeSteps, StartSteps, CommitDeltaSteps, ExecutorSteps,
       ProcessSteps DEF Writer
  <1>4. CASE Failure
    BY <1>2, <1>4, ExecutorSteps, ProcessSteps DEF Failure
  <1>5. CASE Open \/ \E r \in RunIds : LeaseExpires(r)
    BY <1>5, ProcessSteps
  <1>6. CASE UNCHANGED vars
    BY <1>6, QuietSteps DEF vars
  <1> QED
    BY <1>1, <1>3, <1>4, <1>5, <1>6 DEF Next

-----------------------------------------------------------------------------
(* The inductive invariant and the theorems.                               *)

SafetyInv == TypeOK /\ ExecInv /\ LogInv

LEMMA InitSafety == Init => SafetyInv
  <1> SUFFICES ASSUME Init PROVE SafetyInv
    OBVIOUS
  <1>1. ExecInv
    BY DEF Init, ExecInv, IdleExec
  <1>2. LogInv
    BY DEF Init, LogInv, LogOK, Gone, AbsentRow
  <1> QED
    BY <1>1, <1>2, InitType DEF SafetyInv

LEMMA NextSafety == SafetyInv /\ [Next]_vars => SafetyInv' /\ RunsStep
  <1> SUFFICES ASSUME SafetyInv, [Next]_vars PROVE SafetyInv' /\ RunsStep
    OBVIOUS
  <1>1. TypeOK /\ ExecInv /\ LogInv
    BY DEF SafetyInv
  <1>2. TypeOK'
    BY <1>1, NextType
  <1>3. RunsStep /\ ExecInv'
    BY <1>1, NextSteps
  <1>4. ASSUME NEW r \in RunIds PROVE LogOK(runs'[r], events'[r])
    <2>1. /\ runs[r] \in Rows /\ runs'[r] \in Rows
          /\ events[r] \in SUBSET EventRecords
          /\ events'[r] \in SUBSET EventRecords
      BY <1>1, <1>2 DEF TypeOK
    <2>2. LogOK(runs[r], events[r])
      BY <1>1 DEF LogInv
    <2>3. RunStep(runs[r], events[r], runs'[r], events'[r])
      BY <1>3 DEF RunsStep
    <2> QED
      BY <2>1, <2>2, <2>3, RunStepKeepsLog
  <1>5. LogInv'
    BY <1>4 DEF LogInv
  <1> QED
    BY <1>2, <1>3, <1>5 DEF SafetyInv

LEMMA SafetyImplies == SafetyInv => EventLogGapless /\ CasFresh
  <1> SUFFICES ASSUME SafetyInv PROVE EventLogGapless /\ CasFresh
    OBVIOUS
  <1>1. EventLogGapless
    BY DEF SafetyInv, LogInv, LogOK, Gone, Gapless, EventLogGapless, Exists,
           Purged
  <1>2. CasFresh
    BY DEF SafetyInv, ExecInv, CasFresh, Exists, Active
  <1> QED
    BY <1>1, <1>2

\* What TerminalIsFinal says of one step.
EndStays ==
    \A r \in RunIds : runs[r].status \in Terminal =>
        \/ runs'[r].status = "deleted"
        \/ /\ runs'[r].status = runs[r].status
           /\ runs'[r].lastSeq = runs[r].lastSeq
           /\ events'[r] \in {events[r], {}}

LEMMA RunsStepEndStays == RunsStep => EndStays
  BY DEF RunsStep, RunStep, Same, Touched, Kept, Discarded, Deleted, Started,
         Appended, EndStays, Active, Terminal

\* The sequences of a run's log are exactly 0..last_event_sequence, one event
\* each, through every interleaving of commands, commits, faults, crashes and
\* recoveries, for any checkpoint distance.
THEOREM LogGapless == Spec => []EventLogGapless
  BY InitSafety, NextSafety, SafetyImplies, PTL DEF Spec

\* The executor never loses a compare-and-swap: commands change its row only
\* inside a drain, and it reloads after every drain.
THEOREM NoCasLost == Spec => []CasFresh
  BY InitSafety, NextSafety, SafetyImplies, PTL DEF Spec

\* A run that ended keeps its status and its last sequence until it is
\* deleted; its log is kept or purged as a whole.
THEOREM EndIsFinal == Spec => TerminalIsFinal
  <1>1. SafetyInv /\ [Next]_vars => [EndStays]_vars
    BY NextSafety, RunsStepEndStays
  <1> QED
    BY <1>1, InitSafety, NextSafety, PTL
    DEF Spec, TerminalIsFinal, EndStays
=============================================================================
