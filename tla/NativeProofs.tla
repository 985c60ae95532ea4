---------------------------- MODULE NativeProofs ----------------------------
(***************************************************************************)
(* Proofs about the native crates, for every value of the constants: the   *)
(* streams of the hosts (HostStreamsSound, NeverAbandoned), opening and     *)
(* restoring a data root (RestoreSafety, and what the opens of a careful   *)
(* host serve), and the asset store (RegisteredIntact).                    *)
(***************************************************************************)
EXTENDS HostStreams, Restore, Assets, FiniteSetTheorems, TLAPS

-----------------------------------------------------------------------------
(* The inductive invariant of the streams.                                 *)

Statuses == {"absent", "active", "cancelling", "completed", "recoverable", "deleted"}
PCs == {"free", "over", "lock", "starting", "check", "poll", "probe", "write"}
Fins == {"no", "closed", "error"}
ReaderRecords ==
    [pc : PCs,
     mode : {"none", "live", "resume", "local"}, run : Runs \cup {NoRun},
     last : Int, batch : Int, fin : Fins,
     cred : Creds \cup {NoCred}, old : BOOLEAN, gone : BOOLEAN,
     asked : BOOLEAN, late : Nat]
ClientRecords ==
    [seen : SUBSET Int, lastId : Int, told : {"open", "closed", "error"}]

HostTypeOK ==
    /\ row \in [Runs -> Statuses] /\ size \in [Runs -> Nat]
    /\ exec \in Runs \cup {NoRun}
    /\ opener \in Readers \cup {NoReader}
    /\ reader \in [Readers -> ReaderRecords]
    /\ slots \in Int
    /\ cred \in [Creds -> {"unused", "live", "stale", "revoked"}]
    /\ client \in [Runs -> ClientRecords]

\* A run whose row exists, and one that commits no more.
Settled(r) == row[r] \notin {"active", "cancelling"}
Unborn(w) == reader[w].pc \in {"lock", "starting"}
Attached(w) == reader[w].pc \notin {"free", "over"}
OwnRuns(w) == IF w \in Workers THEN RemoteRuns ELSE LocalRuns

\* The run of a thread and its row; a start is what holds the mutex.
Bound(w) ==
    /\ Attached(w) => /\ reader[w].run \in OwnRuns(w)
                      /\ w \in Workers => reader[w].cred \in Creds
    /\ ~Attached(w) => reader[w].run = NoRun
    /\ reader[w].pc = "over" => w \in Workers
    /\ Unborn(w) => row[reader[w].run] = "absent" /\ reader[w].last = -1
    /\ Attached(w) /\ ~Unborn(w) => row[reader[w].run] # "absent"
    /\ opener = w <=> reader[w].pc = "starting"
    /\ reader[w].batch >= 0 /\ (reader[w].pc # "write" => reader[w].batch = 0)

\* The write after a revocation, and the recheck that follows it.
Prompt(w) ==
    reader[w].late > 0 =>
      /\ reader[w].late = 1 /\ w \in Workers
      /\ cred[reader[w].cred] = "revoked"
      /\ \/ reader[w].pc = "check"
         \/ reader[w].pc = "write" /\ reader[w].fin = "error"

\* The run is not running, or a call of the kernel about it failed.
Heeded(r) == row[r] # "active" \/ r \in unheeded
IsHeeded(r) == row'[r] # "active" \/ r \in unheeded'

\* A stream that started its run closes with the last event; a poller that
\* has asked for a cancel finds its run cancelled, unless the call failed.
Whole(w) ==
    /\ reader[w].fin = "closed" => Attached(w) /\ ~Unborn(w)
    /\ reader[w].fin = "closed" /\ reader[w].mode \in {"live", "local"} =>
         Settled(reader[w].run) /\ reader[w].last = size[reader[w].run] - 1
    /\ reader[w].pc = "probe" => reader[w].mode = "resume"
    /\ w \in Pollers => /\ reader[w].fin # "error"
                        /\ Attached(w) => reader[w].mode = "local"
    /\ reader[w].asked => Attached(w) /\ ~Unborn(w) /\ Heeded(reader[w].run)

Good(w) == Bound(w) /\ Prompt(w) /\ Whole(w)

\* Two threads share a run only when all but one have lost their consumer,
\* and none shares a run that is being started.
Alone ==
    \A v, w \in Readers :
      /\ reader[v].run = reader[w].run /\ reader[v].run # NoRun
      /\ Unborn(w) \/ (~reader[v].gone /\ ~reader[w].gone)
      => v = w

\* A consumer has a prefix of the log, up to the cursor of its thread.
Prefix(r) ==
    /\ client[r].lastId >= -1 /\ client[r].seen = 0 .. client[r].lastId
    /\ row[r] = "absent" => client[r].lastId = -1
Cursor(w) ==
    Attached(w) /\ ~reader[w].gone =>
      client[reader[w].run].lastId = reader[w].last - reader[w].batch

HostInv ==
    /\ HostTypeOK
    /\ \A w \in Readers : Good(w) /\ Cursor(w)
    /\ \A r \in Runs : Prefix(r)
    /\ Alone /\ SlotsExact /\ CleanStopIsQuiet

-----------------------------------------------------------------------------
(* What a step leaves alone.                                               *)

\* A row that moves on: it is not created, and does not start again.
RowMoves(r) ==
    /\ row[r] = "absent" <=> row'[r] = "absent"
    /\ row[r] # "active" => row'[r] # "active"
    /\ Settled(r) => Settled(r)' /\ size'[r] = size[r]
    /\ r \in unheeded => r \in unheeded'

CredMoves == \A c \in Creds : cred[c] = "revoked" => cred'[c] = "revoked"

Same(w) == \A v \in Readers \ {w} : reader'[v] = reader[v]

LEMMA GoodKept ==
  ASSUME HostTypeOK, NEW v \in Readers, Good(v), reader'[v] = reader[v],
         opener' = v <=> opener = v, CredMoves,
         reader[v].run # NoRun => RowMoves(reader[v].run)
  PROVE  Good(v)'
  <1>1. /\ Attached(v)' <=> Attached(v)
        /\ Unborn(v)' <=> Unborn(v)
        /\ Unborn(v) => Attached(v)
    BY DEF Attached, Unborn
  <1>2. Attached(v) => reader[v].run \in Runs /\ RowMoves(reader[v].run)
    BY HostStreamsAssumption DEF Good, Bound, OwnRuns, Runs
  <1>3. Bound(v)'
    BY <1>1, <1>2 DEF Good, Bound, RowMoves, OwnRuns
  <1>4. Prompt(v)'
    <2>1. ASSUME reader[v].late > 0 PROVE reader[v].cred \in Creds
      BY <2>1 DEF Good, Prompt, Bound, Attached
    <2> QED
      BY <2>1 DEF Good, Prompt, CredMoves
  <1>5. Whole(v)'
    BY <1>1, <1>2 DEF Good, Whole, Heeded, RowMoves
  <1> QED
    BY <1>3, <1>4, <1>5 DEF Good

\* A step that changes no thread.
LEMMA QuietStep ==
  ASSUME HostInv, HostTypeOK', UNCHANGED <<opener, reader, slots, client>>,
         \A r \in Runs : RowMoves(r), CredMoves,
         adapter' = "off" => adapter = "off" \/ \A w \in Workers : ~Serving(w)
  PROVE  HostInv'
  <1>1. ASSUME NEW v \in Readers PROVE Good(v)' /\ Cursor(v)'
    <2>1. reader[v].run # NoRun => reader[v].run \in Runs
      BY DEF HostInv, HostTypeOK, ReaderRecords
    <2>2. Good(v)'
      BY <2>1, GoodKept DEF HostInv
    <2> QED
      BY <2>2 DEF HostInv, Cursor, Attached
  <1>2. \A r \in Runs : Prefix(r)'
    BY DEF HostInv, Prefix, RowMoves
  <1>3. Alone'
    BY DEF HostInv, Alone, Unborn
  <1>4. /\ \A w \in Workers : Serving(w)' <=> Serving(w)
        /\ \A w \in Workers : HasSlot(w)' <=> HasSlot(w)
    BY DEF Serving, HasSlot, Busy
  <1>5. SlotsExact'
    <2>1. /\ {w \in Workers : Serving(w)}' = {w \in Workers : Serving(w)}
          /\ {w \in Workers : HasSlot(w)}' = {w \in Workers : HasSlot(w)}
      BY <1>4
    <2> QED
      BY <2>1 DEF HostInv, SlotsExact
  <1>6. CleanStopIsQuiet'
    BY <1>4 DEF HostInv, CleanStopIsQuiet
  <1> QED
    BY <1>1, <1>2, <1>3, <1>5, <1>6 DEF HostInv

\* A step of the thread w.
RunStays(w) ==
    /\ reader'[w].run = reader[w].run
    /\ reader[w].gone => reader'[w].gone
    /\ Unborn(w)' => Unborn(w)
RunTaken(w) ==
    \A v \in Readers \ {w} : reader[v].run = reader'[w].run =>
        reader[v].gone /\ ~Unborn(v) /\ ~Unborn(w)'

LEMMA AloneStep ==
  ASSUME Alone, NEW w \in Readers, Same(w),
         reader'[w].run = NoRun \/ RunStays(w) \/ RunTaken(w)
  PROVE  Alone'
  <1> SUFFICES ASSUME NEW u \in Readers, NEW v \in Readers,
                      reader'[u].run = reader'[v].run, reader'[u].run # NoRun,
                      Unborn(v)' \/ (~reader'[u].gone /\ ~reader'[v].gone)
               PROVE  u = v
    BY DEF Alone
  <1>1. CASE u # w /\ v # w
    BY <1>1 DEF Same, Alone, Unborn
  <1>2. CASE u = w /\ v # w
    <2>1. reader'[v] = reader[v] /\ (Unborn(v)' <=> Unborn(v))
      BY <1>2 DEF Same, Unborn
    <2>2. CASE RunStays(w)
      BY <1>2, <2>1, <2>2 DEF RunStays, Alone
    <2>3. CASE RunTaken(w)
      BY <1>2, <2>1, <2>3 DEF RunTaken
    <2> QED
      BY <1>2, <2>2, <2>3
  <1>3. CASE v = w /\ u # w
    <2>1. reader'[u] = reader[u]
      BY <1>3 DEF Same
    <2>2. CASE RunStays(w)
      BY <1>3, <2>1, <2>2 DEF RunStays, Alone
    <2>3. CASE RunTaken(w)
      BY <1>3, <2>1, <2>3 DEF RunTaken
    <2> QED
      BY <1>3, <2>1, <2>2, <2>3
  <1> QED
    BY <1>1, <1>2, <1>3

LEMMA ThreadStep ==
  ASSUME HostInv, HostTypeOK', NEW w \in Readers, Same(w), CredMoves, adapter' = adapter,
         \A r \in Runs : RowMoves(r) \/ (r = reader[w].run /\ Unborn(w)),
         \A v \in Readers \ {w} : opener' = v <=> opener = v,
         \A r \in Runs : \/ client'[r] = client[r]
                         \/ r = reader[w].run /\ ~reader[w].gone,
         \A r \in Runs : Prefix(r)',
         Good(w)', Cursor(w)',
         reader'[w].run = NoRun \/ RunStays(w) \/ RunTaken(w),
         SlotsExact', adapter = "off" /\ Serving(w)' => Serving(w)
  PROVE  HostInv'
  <1>1. ASSUME NEW v \in Readers, v # w PROVE Good(v)' /\ Cursor(v)'
    <2>0. reader'[v] = reader[v] /\ Good(v) /\ Cursor(v)
      BY <1>1 DEF Same, HostInv
    <2>1. reader[v].run # NoRun => reader[v].run \in Runs /\ RowMoves(reader[v].run)
      BY <1>1, HostStreamsAssumption DEF HostInv, HostTypeOK, ReaderRecords, Alone
    <2>2. Good(v)'
      BY <1>1, <2>0, <2>1, GoodKept DEF HostInv
    <2>3. Cursor(v)'
      <3>1. SUFFICES ASSUME Attached(v), ~reader[v].gone
                     PROVE  client'[reader[v].run] = client[reader[v].run]
        BY <2>0 DEF Cursor, Attached
      <3>2. reader[v].run \in Runs /\ reader[v].run # NoRun
        BY <2>0, <3>1, HostStreamsAssumption DEF Good, Bound, OwnRuns, Runs
      <3> QED
        BY <1>1, <3>1, <3>2 DEF HostInv, Alone
    <2> QED
      BY <2>2, <2>3
  <1>2. Alone'
    BY AloneStep DEF HostInv
  <1>3. CleanStopIsQuiet'
    <2>1. ASSUME NEW v \in Workers, v # w PROVE Serving(v)' <=> Serving(v)
      BY <2>1 DEF Same, Serving, Busy, Readers
    <2> QED
      BY <2>1 DEF HostInv, CleanStopIsQuiet
  <1> QED
    BY <1>1, <1>2, <1>3 DEF HostInv

-----------------------------------------------------------------------------
(* The counter of open streams.                                            *)

ServingSet == {w \in Workers : Serving(w)}
SlotSet == {w \in Workers : HasSlot(w)}

LEMMA SlotsExactIs ==
  /\ SlotsExact <=> slots = Cardinality(ServingSet) /\ Cardinality(SlotSet) <= MaxStreams
  /\ SlotsExact' <=> slots' = Cardinality(ServingSet') /\ Cardinality(SlotSet') <= MaxStreams
  BY DEF SlotsExact, ServingSet, SlotSet

LEMMA SetsFinite ==
  /\ IsFiniteSet(ServingSet) /\ IsFiniteSet(SlotSet)
  /\ Cardinality(ServingSet) \in Nat /\ Cardinality(SlotSet) \in Nat
  /\ Cardinality(SlotSet) <= Cardinality(ServingSet)
  <1>1. IsFiniteSet(ServingSet)
    <2>1. ServingSet \in SUBSET Workers
      BY DEF ServingSet
    <2> QED
      BY <2>1, FS_Subset, HostStreamsAssumption
  <1>2. SlotSet \in SUBSET ServingSet
    BY DEF ServingSet, SlotSet, HasSlot
  <1> QED
    BY <1>1, <1>2, FS_Subset, FS_CardinalityType

LEMMA SlotsKept ==
  ASSUME SlotsExact, NEW w \in Readers, Same(w), slots' = slots,
         Serving(w)' <=> Serving(w), HasSlot(w)' <=> HasSlot(w)
  PROVE  SlotsExact'
  <1>1. ASSUME NEW v \in Workers
        PROVE  (Serving(v)' <=> Serving(v)) /\ (HasSlot(v)' <=> HasSlot(v))
    BY DEF Same, Serving, HasSlot, Busy, Readers
  <1>2. ServingSet' = ServingSet /\ SlotSet' = SlotSet
    BY <1>1 DEF ServingSet, SlotSet
  <1> QED
    BY <1>2, SlotsExactIs

\* Nobody else takes or gives a slot.
LEMMA OthersServe ==
  ASSUME NEW w \in Readers, Same(w), NEW v \in Workers, v # w
  PROVE  (Serving(v)' <=> Serving(v)) /\ (HasSlot(v)' <=> HasSlot(v))
  BY DEF Same, Serving, HasSlot, Busy, Readers

LEMMA SlotsFreed ==
  ASSUME SlotsExact, NEW w \in Readers, Same(w), Busy(w), reader'[w] = Free,
         slots' = Released(w)
  PROVE  SlotsExact'
  <1>1. ~Serving(w)' /\ ~HasSlot(w)'
    BY DEF Serving, HasSlot, Busy, Free
  <1>2. CASE Serving(w)
    <2>1. ServingSet' = ServingSet \ {w} /\ w \in ServingSet
      BY <1>1, <1>2, OthersServe DEF ServingSet, Serving
    <2>2. SlotSet' = SlotSet \ {w}
      BY <1>1, OthersServe DEF SlotSet
    <2>3. slots' = slots - 1
      BY <1>2 DEF Released, Serving
    <2>4. Cardinality(ServingSet \ {w}) = Cardinality(ServingSet) - 1
      BY <2>1, SetsFinite, FS_RemoveElement
    <2>5. Cardinality(SlotSet \ {w}) <= Cardinality(SlotSet)
      <3>1. SlotSet \ {w} \in SUBSET SlotSet
        OBVIOUS
      <3> QED
        BY <3>1, SetsFinite, FS_Subset
    <2>6. Cardinality(SlotSet \ {w}) \in Nat
      BY SetsFinite, FS_RemoveElement, FS_CardinalityType
    <2> QED
      BY <2>1, <2>2, <2>3, <2>4, <2>5, <2>6, SetsFinite, SlotsExactIs,
         HostStreamsAssumption
  <1>3. CASE ~Serving(w)
    <2>1. slots' = slots
      BY <1>3 DEF Released, Serving
    <2>2. HasSlot(w)' <=> HasSlot(w)
      BY <1>1, <1>3 DEF HasSlot
    <2> QED
      BY <1>1, <1>3, <2>1, <2>2, SlotsKept
  <1> QED
    BY <1>2, <1>3

LEMMA SlotsTaken ==
  ASSUME SlotsExact, NEW w \in Workers, Same(w), ~Busy(w), slots' = slots + 1,
         reader'[w].pc # "free", ~reader'[w].old,
         reader'[w].pc = "over" \/ slots < MaxStreams
  PROVE  SlotsExact'
  <1>1. w \in Readers /\ ~Serving(w) /\ ~HasSlot(w) /\ Serving(w)'
    BY DEF Readers, Serving, HasSlot, Busy
  <1>2. ServingSet' = ServingSet \cup {w} /\ w \notin ServingSet
    BY <1>1, OthersServe DEF ServingSet
  <1>3. Cardinality(ServingSet') = Cardinality(ServingSet) + 1
    BY <1>2, SetsFinite, FS_AddElement
  <1>4. CASE reader'[w].pc = "over"
    <2>1. SlotSet' = SlotSet
      BY <1>1, <1>4, OthersServe DEF SlotSet, HasSlot
    <2> QED
      BY <1>3, <2>1, SlotsExactIs
  <1>5. CASE slots < MaxStreams
    <2>1. SlotSet' \subseteq SlotSet \cup {w}
      BY <1>1, OthersServe DEF SlotSet
    <2>2. w \notin SlotSet
      BY <1>1 DEF SlotSet
    <2>3. /\ Cardinality(SlotSet \cup {w}) = Cardinality(SlotSet) + 1
          /\ IsFiniteSet(SlotSet \cup {w})
      BY <2>2, SetsFinite, FS_AddElement
    <2>4. Cardinality(SlotSet') <= Cardinality(SlotSet) + 1 /\ Cardinality(SlotSet') \in Nat
      BY <2>1, <2>3, FS_Subset, FS_CardinalityType
    <2> QED
      BY <1>3, <1>5, <2>4, SetsFinite, SlotsExactIs, HostStreamsAssumption
  <1> QED
    BY <1>4, <1>5

-----------------------------------------------------------------------------
(* Steps of the writer thread, of other callers and of the service.        *)

LEMMA WriterQuiet ==
  ASSUME HostInv, CommitEvent \/ ExecutorEnds
  PROVE  HostInv'
  <1>1. HostTypeOK
    BY DEF HostInv
  <1>2. CredMoves /\ UNCHANGED <<opener, reader, slots, client, adapter, cred>>
    BY DEF CommitEvent, ExecutorEnds, ExecutorFails, CommitTerminal, serviceVars, CredMoves
  <1>3. CASE CommitEvent
    <2>1. HostTypeOK'
      BY <1>1, <1>2, <1>3 DEF HostTypeOK, CommitEvent
    <2>2. \A r \in Runs : RowMoves(r)
      BY <1>1, <1>3 DEF HostTypeOK, CommitEvent, RowMoves, Settled
    <2> QED
      BY <1>2, <2>1, <2>2, QuietStep
  <1>4. CASE ExecutorFails
    <2>1. HostTypeOK'
      BY <1>1, <1>2, <1>4 DEF HostTypeOK, ExecutorFails
    <2>2. \A r \in Runs : RowMoves(r)
      BY <1>1, <1>4 DEF HostTypeOK, ExecutorFails, RowMoves, Settled
    <2> QED
      BY <1>2, <2>1, <2>2, QuietStep
  <1>5. ASSUME NEW status \in {"completed", "recoverable"}, CommitTerminal(status)
        PROVE  HostInv'
    <2>1. HostTypeOK'
      BY <1>1, <1>2, <1>5 DEF HostTypeOK, CommitTerminal, Statuses
    <2>2. \A r \in Runs : RowMoves(r)
      BY <1>1, <1>5 DEF HostTypeOK, CommitTerminal, RowMoves, Settled
    <2> QED
      BY <1>2, <2>1, <2>2, QuietStep
  <1> QED
    BY <1>3, <1>4, <1>5 DEF ExecutorEnds

LEMMA CallerQuiet ==
  ASSUME HostInv, NEW r \in Runs,
         UserCancels(r) \/ UserDiscards(r) \/ UserDeletes(r) \/ Abort(r)
  PROVE  HostInv'
  <1>1. HostTypeOK
    BY DEF HostInv
  <1>2. CredMoves /\ UNCHANGED <<size, unheeded, exec, opener, reader, slots, client, adapter, cred>>
    BY DEF UserCancels, UserDiscards, UserDeletes, Abort, serviceVars, kernelVars, CredMoves
  <1>3. HostTypeOK'
    BY <1>1, <1>2 DEF HostTypeOK, UserCancels, CancelledRows, UserDiscards, UserDeletes,
                      Abort, kernelVars, Statuses
  <1>4. \A s \in Runs : RowMoves(s)
    BY <1>1, <1>2 DEF HostTypeOK, UserCancels, CancelledRows, UserDiscards, UserDeletes,
                      Abort, kernelVars, RowMoves, Settled
  <1> QED
    BY <1>2, <1>3, <1>4, QuietStep

LEMMA ServiceQuiet ==
  ASSUME HostInv,
         StartRemote \/ StopRemote \/ Drained \/ \E c \in Creds : Pair(c) \/ Revoke(c)
  PROVE  HostInv'
  <1>1. HostTypeOK
    BY DEF HostInv
  <1>2. UNCHANGED <<row, size, unheeded, exec, opener, reader, slots, client>>
    BY DEF StartRemote, StopRemote, Drained, Pair, Revoke, kernelVars
  <1>3. HostTypeOK' /\ CredMoves
    BY <1>1, <1>2 DEF HostTypeOK, StartRemote, StopRemote, Drained, Pair, Revoke, CredMoves
  <1>4. \A s \in Runs : RowMoves(s)
    BY <1>2 DEF RowMoves, Settled
  <1>5. adapter' = "off" => adapter = "off" \/ \A w \in Workers : ~Serving(w)
    BY DEF StartRemote, StopRemote, Drained, Pair, Revoke
  <1> QED
    BY <1>2, <1>3, <1>4, <1>5, QuietStep

-----------------------------------------------------------------------------
(* Steps of a thread.                                                      *)

LEMMA ReaderSet ==
  ASSUME HostTypeOK, NEW w \in Readers, NEW x \in ReaderRecords,
         reader' = [reader EXCEPT ![w] = x]
  PROVE  /\ reader' \in [Readers -> ReaderRecords] /\ reader'[w] = x /\ Same(w)
         /\ reader[w] \in ReaderRecords
  BY DEF HostTypeOK, Same

LEMMA FreeIs ==
  /\ Free \in ReaderRecords
  /\ Free.pc = "free" /\ Free.mode = "none" /\ Free.run = NoRun /\ Free.last = -1
  /\ Free.batch = 0 /\ Free.fin = "no" /\ Free.cred = NoCred /\ ~Free.old /\ ~Free.gone
  /\ ~Free.asked /\ Free.late = 0
  BY DEF Free, ReaderRecords, PCs, Fins

\* A thread that is done with its stream.
LEMMA ThreadFrees ==
  ASSUME HostInv, NEW w \in Readers, reader' = [reader EXCEPT ![w] = Free], Busy(w),
         slots' = Released(w), UNCHANGED <<adapter, cred>>,
         row' \in [Runs -> Statuses], size' = size, exec' \in Runs \cup {NoRun},
         \A r \in Runs : RowMoves(r) \/ (r = reader[w].run /\ Unborn(w)),
         opener' = (IF opener = w THEN NoReader ELSE opener),
         client' \in [Runs -> ClientRecords],
         \A r \in Runs : \/ client'[r] = client[r]
                         \/ r = reader[w].run /\ ~reader[w].gone,
         \A r \in Runs : Prefix(r)'
  PROVE  HostInv'
  <1>1. HostTypeOK
    BY DEF HostInv
  <1>2. reader' \in [Readers -> ReaderRecords] /\ reader'[w] = Free /\ Same(w)
    BY <1>1, FreeIs, ReaderSet
  <1>3. HostTypeOK'
    BY <1>1, <1>2 DEF HostTypeOK, Released
  <1>4. Good(w)' /\ Cursor(w)'
    BY <1>2, FreeIs, HostStreamsAssumption
    DEF Good, Bound, Prompt, Whole, Heeded, Cursor, Attached, Unborn, Readers
  <1>5. SlotsExact'
    BY <1>2, SlotsFreed DEF HostInv
  <1>6. ~Serving(w)'
    BY <1>2, FreeIs DEF Serving, Busy
  <1>7. CredMoves /\ reader'[w].run = NoRun
    BY <1>2, FreeIs DEF CredMoves
  <1>8. \A v \in Readers \ {w} : opener' = v <=> opener = v
    BY HostStreamsAssumption DEF Readers
  <1> QED
    BY <1>2, <1>3, <1>4, <1>5, <1>6, <1>7, <1>8, ThreadStep

\* A thread that goes on, with its slot.
LEMMA ThreadGoes ==
  ASSUME HostInv, NEW w \in Readers, NEW x \in ReaderRecords,
         reader' = [reader EXCEPT ![w] = x], Attached(w), Attached(w)',
         x.run = reader[w].run, x.old = reader[w].old, reader[w].gone => x.gone,
         slots' = slots, UNCHANGED <<adapter, cred>>,
         row' \in [Runs -> Statuses], size' = size, exec' \in Runs \cup {NoRun},
         \A r \in Runs : RowMoves(r) \/ (r = reader[w].run /\ Unborn(w)),
         opener' \in Readers \cup {NoReader},
         \A v \in Readers \ {w} : opener' = v <=> opener = v,
         client' \in [Runs -> ClientRecords],
         \A r \in Runs : \/ client'[r] = client[r]
                         \/ r = reader[w].run /\ ~reader[w].gone,
         \A r \in Runs : Prefix(r)',
         Unborn(w)' => Unborn(w), Good(w)', Cursor(w)'
  PROVE  HostInv'
  <1>1. HostTypeOK
    BY DEF HostInv
  <1>2. reader' \in [Readers -> ReaderRecords] /\ reader'[w] = x /\ Same(w)
    BY <1>1, ReaderSet
  <1>3. HostTypeOK'
    BY <1>1, <1>2 DEF HostTypeOK
  <1>4. (Serving(w)' <=> Serving(w)) /\ (HasSlot(w)' <=> HasSlot(w))
    BY <1>2 DEF Serving, HasSlot, Busy, Attached
  <1>5. SlotsExact'
    BY <1>2, <1>4, SlotsKept DEF HostInv
  <1>6. CredMoves /\ RunStays(w)
    BY <1>2 DEF CredMoves, RunStays
  <1> QED
    BY <1>2, <1>3, <1>4, <1>5, <1>6, ThreadStep

\* A row that is only cancelled, or a cancel that failed.
LEMMA RowsCancelled ==
  ASSUME HostTypeOK, NEW r \in Runs, size' = size,
         CancelOnce(r) \/ UNCHANGED <<row, unheeded>>
  PROVE  /\ row' \in [Runs -> Statuses] /\ \A s \in Runs : RowMoves(s)
         /\ CancelOnce(r) => IsHeeded(r)
  BY DEF HostTypeOK, CancelOnce, CancelledRows, RowMoves, Settled, Statuses, IsHeeded

\* What the step of a thread leaves alone, when only its record changes.
LEMMA Still ==
  ASSUME HostInv, UNCHANGED <<row, size, unheeded, client>>
  PROVE  /\ row' \in [Runs -> Statuses] /\ \A r \in Runs : RowMoves(r)
         /\ exec \in Runs \cup {NoRun} /\ opener \in Readers \cup {NoReader}
         /\ client' \in [Runs -> ClientRecords] /\ \A r \in Runs : Prefix(r)'
  BY DEF HostInv, HostTypeOK, RowMoves, Settled, Prefix

LEMMA RefuseKeeps ==
  ASSUME HostInv, NEW w \in Readers, Refuse(w)
  PROVE  HostInv'
  <1>1. Bound(w)
    BY DEF HostInv, Good
  <1>2. w \in Workers /\ opener # w /\ Busy(w)
    BY <1>1 DEF Refuse, Bound, Busy
  <1>3. slots' = Released(w)
    BY <1>2 DEF Refuse, Released
  <1> QED
    BY <1>2, <1>3, Still, ThreadFrees DEF Refuse, kernelVars, serviceVars

LEMMA WriteFailsKeeps ==
  ASSUME HostInv, NEW w \in Readers, WriteFails(w)
  PROVE  HostInv'
  <1>1. Bound(w)
    BY DEF HostInv, Good
  <1>2. opener # w /\ Busy(w)
    BY <1>1 DEF WriteFails, Bound, Busy
  <1> QED
    BY <1>2, Still, ThreadFrees DEF WriteFails, kernelVars, serviceVars

\* The fields of a record with some of them changed.
WithPc(rd, p) == [rd EXCEPT !.pc = p]
WithFin(rd, p, f) == [rd EXCEPT !.pc = p, !.fin = f]
WithPage(rd, l, b, f, p) == [rd EXCEPT !.last = l, !.batch = b, !.fin = f, !.pc = p]

LEMMA SetPc ==
  ASSUME NEW rd \in ReaderRecords, NEW p \in PCs
  PROVE  LET x == WithPc(rd, p)
         IN  /\ x \in ReaderRecords /\ x.pc = p /\ x.mode = rd.mode /\ x.run = rd.run
             /\ x.last = rd.last /\ x.batch = rd.batch /\ x.fin = rd.fin
             /\ x.cred = rd.cred /\ x.old = rd.old /\ x.gone = rd.gone
             /\ x.asked = rd.asked /\ x.late = rd.late
  BY DEF ReaderRecords, WithPc

LEMMA SetFin ==
  ASSUME NEW rd \in ReaderRecords, NEW p \in PCs, NEW f \in Fins
  PROVE  LET x == WithFin(rd, p, f)
         IN  /\ x \in ReaderRecords /\ x.pc = p /\ x.mode = rd.mode /\ x.run = rd.run
             /\ x.last = rd.last /\ x.batch = rd.batch /\ x.fin = f
             /\ x.cred = rd.cred /\ x.old = rd.old /\ x.gone = rd.gone
             /\ x.asked = rd.asked /\ x.late = rd.late
  BY DEF ReaderRecords, WithFin

LEMMA TakeLockKeeps ==
  ASSUME HostInv, NEW w \in Readers, TakeLock(w)
  PROVE  HostInv'
  <1> DEFINE x == WithPc(reader[w], "starting")
  <1>1. HostTypeOK /\ Good(w) /\ Cursor(w)
    BY DEF HostInv
  <1>2. reader' = [reader EXCEPT ![w] = x] /\ reader[w] \in ReaderRecords
    BY <1>1 DEF TakeLock, HostTypeOK, WithPc
  <1>3. /\ x \in ReaderRecords /\ x.pc = "starting" /\ x.mode = reader[w].mode
        /\ x.run = reader[w].run
        /\ x.last = reader[w].last /\ x.batch = reader[w].batch /\ x.fin = reader[w].fin
        /\ x.cred = reader[w].cred /\ x.old = reader[w].old /\ x.gone = reader[w].gone
        /\ x.asked = reader[w].asked /\ x.late = reader[w].late
    <2>1. "starting" \in PCs
      BY DEF PCs
    <2> QED
      BY <1>2, <2>1, SetPc
  <1> HIDE DEF x
  <1>4. reader'[w] = x
    BY <1>1, <1>2, <1>3, ReaderSet
  <1>5. /\ reader[w].pc = "lock" /\ opener = NoReader /\ opener' = w
        /\ UNCHANGED <<row, size, unheeded, exec, client, slots, adapter, cred>>
    BY DEF TakeLock, KernelFree, kernelVars, serviceVars
  <1>6. Good(w)' /\ Cursor(w)' /\ Attached(w) /\ Attached(w)' /\ Unborn(w)
    BY <1>1, <1>3, <1>4, <1>5
    DEF Good, Bound, Prompt, Whole, Heeded, Cursor, Attached, Unborn, Settled, OwnRuns
  <1>7. \A v \in Readers \ {w} : opener' = v <=> opener = v
    BY <1>5, HostStreamsAssumption DEF Readers
  <1> QED
    BY <1>2, <1>3, <1>5, <1>6, <1>7, Still, ThreadGoes

LEMMA RecheckKeeps ==
  ASSUME HostInv, NEW w \in Readers, Recheck(w)
  PROVE  HostInv'
  <1>1. HostTypeOK /\ Good(w) /\ Cursor(w) /\ reader[w] \in ReaderRecords
    BY DEF HostInv, HostTypeOK
  <1>2. /\ w \in Workers /\ reader[w].pc = "check"
        /\ UNCHANGED <<row, size, unheeded, exec, opener, client, slots, adapter, cred>>
    BY DEF Recheck, kernelVars, serviceVars
  <1>3. PICK x \in ReaderRecords :
           /\ reader' = [reader EXCEPT ![w] = x]
           /\ \/ LiveCred(reader[w].cred) /\ x.pc = "poll" /\ x.fin = reader[w].fin
              \/ x.pc = "write" /\ x.fin = "error"
           /\ x.mode = reader[w].mode /\ x.run = reader[w].run
           /\ x.last = reader[w].last /\ x.batch = reader[w].batch
           /\ x.cred = reader[w].cred /\ x.old = reader[w].old /\ x.gone = reader[w].gone
           /\ x.asked = reader[w].asked /\ x.late = reader[w].late
    <2>1. "poll" \in PCs /\ "write" \in PCs /\ "error" \in Fins /\ "closed" \in Fins
      BY DEF PCs, Fins
    <2>2. CASE LiveCred(reader[w].cred)
      <3> DEFINE y == WithPc(reader[w], "poll")
      <3>1. reader' = [reader EXCEPT ![w] = y]
        BY <2>2 DEF Recheck, WithPc
      <3>2. /\ y \in ReaderRecords /\ y.pc = "poll" /\ y.mode = reader[w].mode /\ y.run = reader[w].run
            /\ y.last = reader[w].last /\ y.batch = reader[w].batch /\ y.fin = reader[w].fin
            /\ y.cred = reader[w].cred /\ y.old = reader[w].old /\ y.gone = reader[w].gone
            /\ y.asked = reader[w].asked /\ y.late = reader[w].late
        BY <1>1, <2>1, SetPc
      <3> HIDE DEF y
      <3> QED
        BY <2>2, <3>1, <3>2
    <2>3. CASE ~LiveCred(reader[w].cred)
      <3> DEFINE y == WithFin(reader[w], "write", "error")
      <3>1. reader' = [reader EXCEPT ![w] = y]
        BY <2>3 DEF Recheck, WithFin
      <3>2. /\ y \in ReaderRecords /\ y.pc = "write" /\ y.mode = reader[w].mode /\ y.run = reader[w].run
            /\ y.last = reader[w].last /\ y.batch = reader[w].batch /\ y.fin = "error"
            /\ y.cred = reader[w].cred /\ y.old = reader[w].old /\ y.gone = reader[w].gone
            /\ y.asked = reader[w].asked /\ y.late = reader[w].late
        BY <1>1, <2>1, SetFin
      <3> HIDE DEF y
      <3> QED
        BY <3>1, <3>2
    <2> QED
      BY <2>2, <2>3
  <1>4. reader'[w] = x
    BY <1>1, <1>3, ReaderSet
  <1>5. Attached(w) /\ Attached(w)' /\ ~Unborn(w) /\ ~Unborn(w)'
    BY <1>2, <1>3, <1>4 DEF Attached, Unborn
  <1>6. Prompt(w)'
    BY <1>1, <1>2, <1>3, <1>4 DEF Good, Prompt, LiveCred
  <1>7. Bound(w)' /\ Cursor(w)'
    BY <1>1, <1>2, <1>3, <1>4, <1>5 DEF Good, Bound, Cursor, OwnRuns
  <1>8. Whole(w)'
    BY <1>1, <1>2, <1>3, <1>4, <1>5, HostStreamsAssumption DEF Good, Whole, Heeded, Settled
  <1>9. Good(w)'
    BY <1>6, <1>7, <1>8 DEF Good
  <1> QED
    BY <1>2, <1>3, <1>5, <1>7, <1>9, Still, ThreadGoes

\* The end of a page: the cursor, or a later row of the log.
LEMMA PageEndIs ==
  ASSUME HostTypeOK, NEW w \in Readers, reader[w].run \in Runs
  PROVE  /\ PageEnd(w) \in Int /\ PageEnd(w) >= reader[w].last
         /\ reader[w] \in ReaderRecords /\ reader[w].last \in Int
  <1> DEFINE r == reader[w].run
             page == {s \in Rows(r) : s > reader[w].last /\ s <= reader[w].last + PageLimit}
  <1>1. reader[w] \in ReaderRecords /\ reader[w].last \in Int /\ size[r] \in Nat
    BY DEF HostTypeOK, ReaderRecords
  <1>2. CASE page = {}
    BY <1>1, <1>2 DEF PageEnd
  <1>3. CASE page # {}
    <2> DEFINE top == reader[w].last + PageLimit
               m == IF size[r] - 1 <= top THEN size[r] - 1 ELSE top
    <2>1. PageLimit \in Nat
      BY HostStreamsAssumption
    <2>2. PICK s \in page : TRUE
      BY <1>3
    <2>3. Rows(r) = 0 .. (size[r] - 1)
      BY <2>2 DEF Rows
    <2>4. m \in page /\ \A t \in page : t <= m
      BY <1>1, <2>1, <2>2, <2>3, SMTT(30)
    <2> DEFINE e == CHOOSE t \in page : \A u \in page : u <= t
    <2>5. e \in page
      BY <2>4
    <2>6. PageEnd(w) = e
      BY <1>3 DEF PageEnd
    <2> HIDE DEF e
    <2> QED
      BY <1>1, <2>3, <2>5, <2>6
  <1> QED
    BY <1>1, <1>2, <1>3

LEMMA SetPage ==
  ASSUME NEW rd \in ReaderRecords, NEW l \in Int, NEW b \in Int, NEW p \in PCs,
         NEW f \in Fins
  PROVE  LET x == WithPage(rd, l, b, f, p)
         IN  /\ x \in ReaderRecords /\ x.pc = p /\ x.mode = rd.mode /\ x.run = rd.run
             /\ x.last = l /\ x.batch = b /\ x.fin = f
             /\ x.cred = rd.cred /\ x.old = rd.old /\ x.gone = rd.gone
             /\ x.asked = rd.asked /\ x.late = rd.late
  BY DEF ReaderRecords, WithPage

\* A page that is read, by a worker or by a poller.
LEMMA PageRead ==
  ASSUME HostInv, NEW w \in Readers, NEW x \in ReaderRecords, reader[w].pc = "poll",
         UNCHANGED <<row, size, unheeded, exec, opener, client, slots, adapter, cred>>,
         reader' = [reader EXCEPT ![w] = x],
         x.pc \in {"write", "probe", "check"}, x.pc = "probe" => x.mode = "resume",
         x.pc # "write" => x.batch = 0,
         x.last = PageEnd(w), x.batch = PageEnd(w) - reader[w].last,
         x.fin \in {"no", "closed"},
         x.fin = "closed" => TerminalAt(x.run, x.last),
         x.mode = reader[w].mode, x.run = reader[w].run, x.cred = reader[w].cred,
         x.old = reader[w].old, x.gone = reader[w].gone,
         x.asked = reader[w].asked, x.late = reader[w].late
  PROVE  HostInv'
  <1>1. HostTypeOK /\ Good(w) /\ Cursor(w) /\ reader[w] \in ReaderRecords
    BY DEF HostInv, HostTypeOK
  <1>2. Attached(w) /\ ~Unborn(w)
    BY DEF Attached, Unborn
  <1>3. reader[w].run \in Runs /\ reader[w].batch = 0
    BY <1>1, <1>2 DEF Good, Bound, OwnRuns, Runs
  <1>4. x.last \in Int /\ x.last >= reader[w].last /\ reader[w].last \in Int
    BY <1>1, <1>3, PageEndIs
  <1>5. reader'[w] = x
    BY <1>1, ReaderSet
  <1>6. Attached(w)' /\ ~Unborn(w)'
    BY <1>5 DEF Attached, Unborn
  <1>7. x.batch >= 0 /\ x.last - x.batch = reader[w].last
    BY <1>4
  <1>8. Bound(w)' /\ Cursor(w)'
    <2>1. Cursor(w)'
      BY <1>1, <1>2, <1>3, <1>4, <1>5, <1>7 DEF Cursor
    <2>2. opener # w
      BY <1>1 DEF Good, Bound
    <2>3. Bound(w)'
      BY <1>1, <1>2, <1>5, <1>6, <1>7, <2>2 DEF Good, Bound, OwnRuns
    <2> QED
      BY <2>1, <2>3
  <1>9. Prompt(w)'
    BY <1>1, <1>5 DEF Good, Prompt
  <1>10. x.fin = "closed" => Settled(x.run) /\ x.last = size[x.run] - 1
    BY DEF TerminalAt, Ended, Settled
  <1>11. Whole(w)'
    <2>1. w \in Pollers => x.fin # "error" /\ x.mode = "local"
      BY <1>1, <1>2 DEF Good, Whole, Heeded
    <2>2. x.asked => IsHeeded(x.run)
      BY <1>1 DEF Good, Whole, Heeded, IsHeeded
    <2> QED
      BY <1>5, <1>6, <1>10, <2>1, <2>2 DEF Whole, Heeded, IsHeeded, Settled
  <1>12. Good(w)'
    BY <1>8, <1>9, <1>11 DEF Good
  <1> QED
    BY <1>2, <1>6, <1>8, <1>12, Still, ThreadGoes

\* The record of a thread that has read a page.
Paged(w, p) ==
    [reader[w] EXCEPT !.last = PageEnd(w), !.batch = PageEnd(w) - reader[w].last,
                      !.fin = IF /\ PageEnd(w) > reader[w].last
                                 /\ TerminalAt(reader[w].run, PageEnd(w))
                              THEN "closed" ELSE "no",
                      !.pc = p]

LEMMA PagedKeeps ==
  ASSUME HostInv, NEW w \in Readers, NEW p \in PCs, reader[w].pc = "poll",
         UNCHANGED <<row, size, unheeded, exec, opener, client, slots, adapter, cred>>,
         reader' = [reader EXCEPT ![w] = Paged(w, p)],
         p \in {"write", "probe", "check"}, p = "probe" => reader[w].mode = "resume",
         p # "write" => ~(PageEnd(w) > reader[w].last)
  PROVE  HostInv'
  <1> DEFINE rd == reader[w]
             to == PageEnd(w)
             b == to - rd.last
             f == IF to > rd.last /\ TerminalAt(rd.run, to) THEN "closed" ELSE "no"
  <1>1. rd \in ReaderRecords /\ rd.run \in Runs /\ HostTypeOK
    BY DEF HostInv, HostTypeOK, Good, Bound, OwnRuns, Runs, Attached
  <1>2. to \in Int /\ to >= rd.last /\ rd.last \in Int /\ b \in Int
    BY <1>1, PageEndIs
  <1>3. f \in {"no", "closed"} /\ (f = "closed" => TerminalAt(rd.run, to))
    OBVIOUS
  <1>4. p # "write" => b = 0
    BY <1>2
  <1>5. Paged(w, p) = WithPage(rd, to, b, f, p)
    BY DEF Paged, WithPage
  <1>6. LET x == Paged(w, p)
        IN  /\ x \in ReaderRecords /\ x.pc = p /\ x.mode = rd.mode /\ x.run = rd.run
            /\ x.last = to /\ x.batch = b /\ x.fin = f
            /\ x.cred = rd.cred /\ x.old = rd.old /\ x.gone = rd.gone
            /\ x.asked = rd.asked /\ x.late = rd.late
    <2>1. f \in Fins
      BY <1>3 DEF Fins
    <2> HIDE DEF f, b, to, rd
    <2>2. LET x == WithPage(rd, to, b, f, p)
          IN  /\ x \in ReaderRecords /\ x.pc = p /\ x.mode = rd.mode /\ x.run = rd.run
              /\ x.last = to /\ x.batch = b /\ x.fin = f
              /\ x.cred = rd.cred /\ x.old = rd.old /\ x.gone = rd.gone
              /\ x.asked = rd.asked /\ x.late = rd.late
      BY <1>1, <1>2, <2>1, SetPage
    <2> QED
      BY <1>5, <2>2
  <1> HIDE DEF f
  <1> QED
    BY <1>3, <1>4, <1>6, PageRead

LEMMA PollKeeps ==
  ASSUME HostInv, NEW w \in Readers, Poll(w)
  PROVE  HostInv'
  <1>1. /\ w \in Workers /\ reader[w].pc = "poll"
        /\ UNCHANGED <<row, size, unheeded, exec, opener, client, slots, adapter, cred>>
    BY DEF Poll, kernelVars, serviceVars
  <1>2. CASE row[reader[w].run] = "deleted"
    <2> DEFINE x == WithFin(reader[w], "write", "error")
    <2>1. HostTypeOK /\ Good(w) /\ Cursor(w) /\ reader[w] \in ReaderRecords
      BY DEF HostInv, HostTypeOK
    <2>2. reader' = [reader EXCEPT ![w] = x]
      BY <1>2 DEF Poll, WithFin
    <2>3. /\ x \in ReaderRecords /\ x.pc = "write" /\ x.mode = reader[w].mode
          /\ x.run = reader[w].run
          /\ x.last = reader[w].last /\ x.batch = reader[w].batch /\ x.fin = "error"
          /\ x.cred = reader[w].cred /\ x.old = reader[w].old /\ x.gone = reader[w].gone
          /\ x.asked = reader[w].asked /\ x.late = reader[w].late
      <3>1. "write" \in PCs /\ "error" \in Fins
        BY DEF PCs, Fins
      <3> QED
        BY <2>1, <3>1, SetFin
    <2> HIDE DEF x
    <2>4. reader'[w] = x
      BY <2>1, <2>2, <2>3, ReaderSet
    <2>5. Attached(w) /\ Attached(w)' /\ ~Unborn(w) /\ ~Unborn(w)'
      BY <1>1, <2>3, <2>4 DEF Attached, Unborn
    <2>6. Bound(w)' /\ Cursor(w)'
      BY <1>1, <2>1, <2>3, <2>4, <2>5 DEF Good, Bound, Cursor, OwnRuns
    <2>7. Prompt(w)'
      BY <1>1, <2>1, <2>3, <2>4 DEF Good, Prompt
    <2>8. Whole(w)'
      BY <1>1, <2>1, <2>3, <2>4, <2>5, HostStreamsAssumption DEF Good, Whole, Heeded, Settled
    <2>9. Good(w)'
      BY <2>6, <2>7, <2>8 DEF Good
    <2> QED
      BY <1>1, <2>2, <2>3, <2>5, <2>6, <2>9, Still, ThreadGoes
  <1>3. CASE row[reader[w].run] # "deleted"
    <2> DEFINE p == IF PageEnd(w) > reader[w].last THEN "write"
                    ELSE IF reader[w].mode = "resume" THEN "probe" ELSE "check"
    <2>1. reader' = [reader EXCEPT ![w] = Paged(w, p)]
      BY <1>3 DEF Poll, Paged
    <2>2. /\ p \in {"write", "probe", "check"}
          /\ p = "probe" => reader[w].mode = "resume"
          /\ p # "write" => ~(PageEnd(w) > reader[w].last)
      OBVIOUS
    <2> HIDE DEF p
    <2>3. p \in PCs
      BY <2>2 DEF PCs
    <2> QED
      BY <1>1, <2>1, <2>2, <2>3, PagedKeeps
  <1> QED
    BY <1>2, <1>3

\* The end of a poller that got no page.
LEMMA ClosesKeeps ==
  ASSUME HostInv, NEW w \in Pollers, reader[w].pc = "poll", Closes(w),
         UNCHANGED <<row, size, exec, opener, slots, adapter, cred>>,
         unheeded' = unheeded \/ unheeded' = unheeded \cup {reader[w].run}
  PROVE  HostInv'
  <1>1. HostTypeOK /\ Good(w) /\ w \in Readers
    BY DEF HostInv, Readers
  <1>2. Busy(w) /\ opener # w /\ reader[w].run \in Runs
    BY <1>1 DEF Busy, Good, Bound, Attached, OwnRuns, Runs
  <1>3. slots' = Released(w) /\ reader' = [reader EXCEPT ![w] = Free]
    BY HostStreamsAssumption DEF Released, Closes
  <1>4. /\ row' \in [Runs -> Statuses] /\ \A r \in Runs : RowMoves(r)
        /\ exec' \in Runs \cup {NoRun}
    BY <1>1 DEF HostTypeOK, RowMoves, Settled
  <1> DEFINE told == IF reader[w].gone THEN client[reader[w].run].told ELSE "closed"
             c == [client[reader[w].run] EXCEPT !.told = told]
  <1>5. told \in {"open", "closed", "error"} /\ client[reader[w].run] \in ClientRecords
    BY <1>1, <1>2 DEF HostTypeOK, ClientRecords
  <1>6. client' = [client EXCEPT ![reader[w].run] = c]
    BY DEF Closes
  <1>7. /\ c \in ClientRecords
        /\ c.seen = client[reader[w].run].seen /\ c.lastId = client[reader[w].run].lastId
        /\ reader[w].gone => c = client[reader[w].run]
    BY <1>5 DEF ClientRecords
  <1> HIDE DEF c, told
  <1>8. /\ client' \in [Runs -> ClientRecords]
        /\ \A r \in Runs : client'[r] = IF r = reader[w].run THEN c ELSE client[r]
    BY <1>1, <1>2, <1>6, <1>7 DEF HostTypeOK
  <1>9. \A r \in Runs : Prefix(r)'
    BY <1>2, <1>7, <1>8 DEF HostInv, Prefix
  <1>10. ASSUME NEW r \in Runs
         PROVE  \/ client'[r] = client[r]
                \/ r = reader[w].run /\ ~reader[w].gone
    BY <1>1, <1>7, <1>8 DEF HostTypeOK, ReaderRecords
  <1>11. opener' = IF opener = w THEN NoReader ELSE opener
    BY <1>2
  <1> QED
    BY <1>1, <1>2, <1>3, <1>4, <1>8, <1>9, <1>10, <1>11, ThreadFrees

LEMMA LocalPollFailsKeeps ==
  ASSUME HostInv, NEW w \in Readers, LocalPollFails(w)
  PROVE  HostInv'
  BY ClosesKeeps DEF LocalPollFails, kernelVars, serviceVars

LEMMA LocalPollKeeps ==
  ASSUME HostInv, NEW w \in Readers, LocalPoll(w)
  PROVE  HostInv'
  <1>1. /\ w \in Pollers /\ reader[w].pc = "poll"
        /\ UNCHANGED <<row, size, unheeded, exec, opener, slots, adapter, cred>>
    BY DEF LocalPoll, kernelVars, serviceVars
  <1>2. Good(w)
    BY DEF HostInv
  <1>3. CASE row[reader[w].run] = "deleted"
    <2>1. Closes(w)
      BY <1>3 DEF LocalPoll
    <2> QED
      BY <1>1, <2>1, ClosesKeeps
  <1>4. CASE row[reader[w].run] # "deleted"
    <2> DEFINE p == IF PageEnd(w) > reader[w].last THEN "write" ELSE "check"
    <2>1. reader' = [reader EXCEPT ![w] = Paged(w, p)] /\ client' = client
      BY <1>4 DEF LocalPoll, Paged
    <2>2. /\ p \in {"write", "probe", "check"} /\ p # "probe"
          /\ p # "write" => ~(PageEnd(w) > reader[w].last)
      OBVIOUS
    <2> HIDE DEF p
    <2>3. p \in PCs
      BY <2>2 DEF PCs
    <2> QED
      BY <1>1, <2>1, <2>2, <2>3, PagedKeeps
  <1> QED
    BY <1>3, <1>4

LEMMA ProbeKeeps ==
  ASSUME HostInv, NEW w \in Readers, Probe(w)
  PROVE  HostInv'
  <1>1. HostTypeOK /\ Good(w) /\ Cursor(w) /\ reader[w] \in ReaderRecords
    BY DEF HostInv, HostTypeOK
  <1>2. /\ reader[w].pc = "probe"
        /\ UNCHANGED <<row, size, unheeded, exec, opener, client, slots, adapter, cred>>
    BY DEF Probe, kernelVars, serviceVars
  <1>3. PICK x \in ReaderRecords :
           /\ reader' = [reader EXCEPT ![w] = x]
           /\ \/ x.pc = "check" /\ x.fin = reader[w].fin
              \/ x.pc = "write" /\ x.fin = "closed"
           /\ x.mode = reader[w].mode /\ x.run = reader[w].run
           /\ x.last = reader[w].last /\ x.batch = reader[w].batch
           /\ x.cred = reader[w].cred /\ x.old = reader[w].old /\ x.gone = reader[w].gone
           /\ x.asked = reader[w].asked /\ x.late = reader[w].late
    <2>1. "check" \in PCs /\ "write" \in PCs /\ "error" \in Fins /\ "closed" \in Fins
      BY DEF PCs, Fins
    <2>2. CASE ~Ended(reader[w].run)
      <3> DEFINE y == WithPc(reader[w], "check")
      <3>1. reader' = [reader EXCEPT ![w] = y]
        BY <2>2 DEF Probe, WithPc
      <3>2. /\ y \in ReaderRecords /\ y.pc = "check" /\ y.mode = reader[w].mode
            /\ y.run = reader[w].run /\ y.last = reader[w].last
            /\ y.batch = reader[w].batch /\ y.fin = reader[w].fin
            /\ y.cred = reader[w].cred /\ y.old = reader[w].old /\ y.gone = reader[w].gone
            /\ y.asked = reader[w].asked /\ y.late = reader[w].late
        BY <1>1, <2>1, SetPc
      <3> HIDE DEF y
      <3> QED
        BY <3>1, <3>2
    <2>3. CASE Ended(reader[w].run)
      <3> DEFINE y == WithFin(reader[w], "write", "closed")
      <3>1. reader' = [reader EXCEPT ![w] = y]
        BY <2>3 DEF Probe, WithFin
      <3>2. /\ y \in ReaderRecords /\ y.pc = "write" /\ y.mode = reader[w].mode
            /\ y.run = reader[w].run /\ y.last = reader[w].last
            /\ y.batch = reader[w].batch /\ y.fin = "closed"
            /\ y.cred = reader[w].cred /\ y.old = reader[w].old /\ y.gone = reader[w].gone
            /\ y.asked = reader[w].asked /\ y.late = reader[w].late
        BY <1>1, <2>1, SetFin
      <3> HIDE DEF y
      <3> QED
        BY <3>1, <3>2
    <2> QED
      BY <2>2, <2>3
  <1>4. reader'[w] = x
    BY <1>1, <1>3, ReaderSet
  <1>5. Attached(w) /\ Attached(w)' /\ ~Unborn(w) /\ ~Unborn(w)'
    BY <1>2, <1>3, <1>4 DEF Attached, Unborn
  <1>6. Prompt(w)'
    BY <1>1, <1>2, <1>3, <1>4 DEF Good, Prompt
  <1>7. Bound(w)' /\ Cursor(w)'
    BY <1>1, <1>2, <1>3, <1>4, <1>5 DEF Good, Bound, Cursor, OwnRuns
  <1>8. Whole(w)'
    BY <1>1, <1>2, <1>3, <1>4, <1>5 DEF Good, Whole, Heeded, Settled
  <1>9. Good(w)'
    BY <1>6, <1>7, <1>8 DEF Good
  <1> QED
    BY <1>2, <1>3, <1>5, <1>7, <1>9, Still, ThreadGoes

WithAsked(rd, p, a) == [rd EXCEPT !.pc = p, !.asked = a]

LEMMA SetAsked ==
  ASSUME NEW rd \in ReaderRecords, NEW p \in PCs, NEW a \in BOOLEAN
  PROVE  LET x == WithAsked(rd, p, a)
         IN  /\ x \in ReaderRecords /\ x.pc = p /\ x.mode = rd.mode /\ x.run = rd.run
             /\ x.last = rd.last /\ x.batch = rd.batch /\ x.fin = rd.fin
             /\ x.cred = rd.cred /\ x.old = rd.old /\ x.gone = rd.gone
             /\ x.asked = a /\ x.late = rd.late
  BY DEF ReaderRecords, WithAsked

LEMMA LocalCheckKeeps ==
  ASSUME HostInv, NEW w \in Readers, LocalCheck(w)
  PROVE  HostInv'
  <1> DEFINE cancels == reader[w].run \in raised /\ ~reader[w].asked
             p == "poll"
             a == reader[w].asked \/ cancels
             x == WithAsked(reader[w], p, a)
  <1>1. HostTypeOK /\ Good(w) /\ Cursor(w) /\ reader[w] \in ReaderRecords
    BY DEF HostInv, HostTypeOK
  <1>2. /\ w \in Pollers /\ reader[w].pc = "check"
        /\ cancels => CancelOnce(reader[w].run)
        /\ ~cancels => UNCHANGED <<row, unheeded>>
        /\ UNCHANGED <<size, exec, opener, client, slots, adapter, cred>>
    BY DEF LocalCheck, serviceVars
  <1>3. reader' = [reader EXCEPT ![w] = x]
    BY DEF LocalCheck, WithAsked
  <1>4. reader[w].asked \in BOOLEAN /\ a \in BOOLEAN /\ (a => reader[w].asked \/ cancels)
    BY <1>1 DEF ReaderRecords
  <1>5. p \in PCs /\ p = "poll"
    BY DEF PCs
  <1> HIDE DEF a, p
  <1>6. /\ x \in ReaderRecords /\ x.pc = p /\ x.mode = reader[w].mode
        /\ x.run = reader[w].run
        /\ x.last = reader[w].last /\ x.batch = reader[w].batch /\ x.fin = reader[w].fin
        /\ x.cred = reader[w].cred /\ x.old = reader[w].old /\ x.gone = reader[w].gone
        /\ x.asked = a /\ x.late = reader[w].late
    BY <1>1, <1>4, <1>5, SetAsked
  <1> HIDE DEF x
  <1>7. reader'[w] = x
    BY <1>1, <1>3, <1>6, ReaderSet
  <1>8. Attached(w) /\ Attached(w)' /\ ~Unborn(w) /\ ~Unborn(w)' /\ reader[w].run \in Runs
    BY <1>1, <1>2, <1>5, <1>6, <1>7 DEF Attached, Unborn, Good, Bound, OwnRuns, Runs
  <1>9. /\ row' \in [Runs -> Statuses] /\ \A s \in Runs : RowMoves(s)
        /\ cancels => IsHeeded(reader[w].run)
    BY <1>1, <1>2, <1>8, RowsCancelled
  <1>10. Bound(w)' /\ Cursor(w)'
    BY <1>1, <1>2, <1>5, <1>6, <1>7, <1>8, <1>9 DEF Good, Bound, Cursor, OwnRuns, RowMoves
  <1>11. Prompt(w)'
    BY <1>1, <1>2, <1>6, <1>7, HostStreamsAssumption DEF Good, Prompt
  <1>12. Whole(w)'
    <2>1. a => IsHeeded(reader[w].run)
      BY <1>1, <1>4, <1>6, <1>8, <1>9 DEF Good, Whole, Heeded, IsHeeded, RowMoves
    <2> QED
      BY <1>1, <1>2, <1>5, <1>6, <1>7, <1>8, <1>9, <2>1 DEF Good, Whole, Heeded, IsHeeded, RowMoves
  <1>13. Good(w)'
    BY <1>10, <1>11, <1>12 DEF Good
  <1>14. /\ exec' \in Runs \cup {NoRun} /\ opener' \in Readers \cup {NoReader}
         /\ client' \in [Runs -> ClientRecords] /\ \A r \in Runs : Prefix(r)'
    BY <1>2, <1>9 DEF HostInv, HostTypeOK, Prefix, RowMoves
  <1> QED
    BY <1>2, <1>3, <1>6, <1>8, <1>9, <1>10, <1>13, <1>14, ThreadGoes

\* A consumer that receives the first k events of a batch.
LEMMA GotIs ==
  ASSUME HostInv, NEW w \in Readers, Attached(w), ~reader[w].gone,
         NEW k \in Nat, k <= reader[w].batch
  PROVE  /\ Got(w, k) \in [Runs -> ClientRecords]
         /\ \A r \in Runs : r # reader[w].run => Got(w, k)[r] = client[r]
         /\ Got(w, k)[reader[w].run].seen = 0 .. Got(w, k)[reader[w].run].lastId
         /\ Got(w, k)[reader[w].run].lastId = reader[w].last - reader[w].batch + k
         /\ Got(w, k)[reader[w].run].lastId >= -1
         /\ row[reader[w].run] = "absent" => Got(w, k)[reader[w].run].lastId = -1
         /\ reader[w].run \in Runs
  <1> DEFINE rd == reader[w]
             r == rd.run
             first == rd.last - rd.batch + 1
             s == client[r].seen \cup first .. (first + k - 1)
             l == IF k > 0 THEN first + k - 1 ELSE client[r].lastId
  <1>1. /\ rd \in ReaderRecords /\ r \in Runs /\ Prefix(r) /\ client[r] \in ClientRecords
        /\ client \in [Runs -> ClientRecords] /\ Bound(w)
    BY DEF HostInv, HostTypeOK, Good, Bound, OwnRuns, Runs
  <1>2. rd.last \in Int /\ rd.batch \in Int /\ client[r].lastId \in Int
    BY <1>1 DEF ReaderRecords, ClientRecords
  <1>3. client[r].lastId = rd.last - rd.batch
    BY DEF HostInv, Cursor
  <1>4. l = client[r].lastId + k /\ l \in Int /\ l >= -1 /\ l = rd.last - rd.batch + k
    BY <1>1, <1>2, <1>3 DEF Prefix
  <1>5. s = 0 .. l /\ s \in SUBSET Int
    BY <1>1, <1>2, <1>3, <1>4 DEF Prefix
  <1>6. row[r] = "absent" => l = -1
    <2>1. row[r] = "absent" => rd.batch = 0
      BY <1>1 DEF Bound, Unborn
    <2>2. row[r] = "absent" => client[r].lastId = -1
      BY <1>1 DEF Prefix
    <2> QED
      BY <1>2, <1>4, <2>1, <2>2
  <1>7. Got(w, k) = [client EXCEPT ![r] = [client[r] EXCEPT !.seen = s, !.lastId = l]]
    BY <1>1 DEF Got, ClientRecords
  <1> HIDE DEF s, l, first
  <1>8. [client[r] EXCEPT !.seen = s, !.lastId = l].seen = s
        /\ [client[r] EXCEPT !.seen = s, !.lastId = l].lastId = l
        /\ [client[r] EXCEPT !.seen = s, !.lastId = l] \in ClientRecords
    BY <1>1, <1>4, <1>5 DEF ClientRecords
  <1>9. Got(w, k)[r] = [client[r] EXCEPT !.seen = s, !.lastId = l]
    BY <1>1, <1>7
  <1>10. Got(w, k) \in [Runs -> ClientRecords]
    BY <1>1, <1>7, <1>8
  <1>11. \A q \in Runs : q # r => Got(w, k)[q] = client[q]
    BY <1>1, <1>7
  <1> QED
    BY <1>1, <1>4, <1>5, <1>6, <1>8, <1>9, <1>10, <1>11

\* A consumer that receives part of a batch, and one that receives all of it.
LEMMA PartGot ==
  ASSUME HostInv, NEW w \in Readers, Attached(w), ~reader[w].gone, row' = row,
         NEW k \in Nat, k <= reader[w].batch, client' = Got(w, k)
  PROVE  /\ client' \in [Runs -> ClientRecords] /\ \A r \in Runs : Prefix(r)'
         /\ \A r \in Runs : client'[r] = client[r] \/ r = reader[w].run
  <1>1. \A r \in Runs : r # reader[w].run => client'[r] = client[r]
    BY GotIs
  <1>2. ASSUME NEW r \in Runs PROVE Prefix(r)'
    <2>1. CASE r = reader[w].run
      BY <2>1, GotIs DEF Prefix
    <2>2. CASE r # reader[w].run
      BY <1>1, <2>2 DEF HostInv, Prefix
    <2> QED
      BY <2>1, <2>2
  <1> QED
    BY <1>1, <1>2, GotIs

LEMMA AllGot ==
  ASSUME HostInv, NEW w \in Readers, Attached(w), ~reader[w].gone, row' = row,
         client' = Told(w)
  PROVE  /\ client' \in [Runs -> ClientRecords] /\ \A r \in Runs : Prefix(r)'
         /\ \A r \in Runs : client'[r] = client[r] \/ r = reader[w].run
         /\ client'[reader[w].run].lastId = reader[w].last
  <1> DEFINE b == reader[w].batch
             r == reader[w].run
             g == Got(w, b)
             told == IF reader[w].fin = "no" THEN g[r].told ELSE reader[w].fin
  <1>1. reader[w] \in ReaderRecords /\ reader[w].batch \in Nat /\ reader[w].last \in Int
    BY DEF HostInv, HostTypeOK, ReaderRecords, Good, Bound
  <1>2. /\ g \in [Runs -> ClientRecords] /\ r \in Runs
        /\ \A q \in Runs : q # r => g[q] = client[q]
        /\ g[r].seen = 0 .. g[r].lastId /\ g[r].lastId = reader[w].last - b + b
        /\ g[r].lastId >= -1 /\ (row[r] = "absent" => g[r].lastId = -1)
    BY <1>1, GotIs
  <1>3. client' = [g EXCEPT ![r] = [g[r] EXCEPT !.told = told]]
    BY <1>2 DEF Told, ClientRecords
  <1>4. told \in {"open", "closed", "error"}
    BY <1>1, <1>2 DEF ReaderRecords, ClientRecords, Fins
  <1> HIDE DEF told, g
  <1>5. LET c == [g[r] EXCEPT !.told = told]
        IN  c \in ClientRecords /\ c.seen = g[r].seen /\ c.lastId = g[r].lastId
    BY <1>2, <1>4 DEF ClientRecords
  <1>6. client'[r] = [g[r] EXCEPT !.told = told] /\ client' \in [Runs -> ClientRecords]
    BY <1>2, <1>3, <1>5
  <1>7. \A q \in Runs : q # r => client'[q] = client[q]
    BY <1>2, <1>3
  <1>8. client'[r].lastId = reader[w].last
    BY <1>1, <1>2, <1>5, <1>6
  <1>9. ASSUME NEW q \in Runs PROVE Prefix(q)'
    <2>1. CASE q = r
      BY <1>2, <1>5, <1>6, <2>1 DEF Prefix
    <2>2. CASE q # r
      BY <1>7, <2>2 DEF HostInv, Prefix
    <2> QED
      BY <2>1, <2>2
  <1> QED
    BY <1>6, <1>7, <1>8, <1>9

WithSent(rd, p, b, l) == [rd EXCEPT !.pc = p, !.batch = b, !.late = l]

LEMMA SetSent ==
  ASSUME NEW rd \in ReaderRecords, NEW p \in PCs, NEW b \in Int, NEW l \in Nat
  PROVE  LET x == WithSent(rd, p, b, l)
         IN  /\ x \in ReaderRecords /\ x.pc = p /\ x.mode = rd.mode /\ x.run = rd.run
             /\ x.last = rd.last /\ x.batch = b /\ x.fin = rd.fin
             /\ x.cred = rd.cred /\ x.old = rd.old /\ x.gone = rd.gone
             /\ x.asked = rd.asked /\ x.late = l
  BY DEF ReaderRecords, WithSent

\* A batch that is sent, by a worker or by a poller, and the stream goes on.
LEMMA SentKeeps ==
  ASSUME HostInv, NEW w \in Readers, reader[w].pc = "write", ~reader[w].gone,
         reader[w].fin = "no", NEW l \in Nat,
         reader' = [reader EXCEPT ![w] = WithSent(reader[w], "check", 0, l)],
         l = (IF w \in Workers /\ cred[reader[w].cred] = "revoked"
              THEN reader[w].late + 1 ELSE reader[w].late),
         client' = Told(w),
         UNCHANGED <<row, size, unheeded, exec, opener, slots, adapter, cred>>
  PROVE  HostInv'
  <1> DEFINE x == WithSent(reader[w], "check", 0, l)
  <1>1. HostTypeOK /\ Good(w) /\ Cursor(w) /\ reader[w] \in ReaderRecords
    BY DEF HostInv, HostTypeOK
  <1>2. /\ x \in ReaderRecords /\ x.pc = "check" /\ x.mode = reader[w].mode
        /\ x.run = reader[w].run
        /\ x.last = reader[w].last /\ x.batch = 0 /\ x.fin = reader[w].fin
        /\ x.cred = reader[w].cred /\ x.old = reader[w].old /\ x.gone = reader[w].gone
        /\ x.asked = reader[w].asked /\ x.late = l
    <2>1. "check" \in PCs /\ 0 \in Int
      BY DEF PCs
    <2> QED
      BY <1>1, <2>1, SetSent
  <1>3. reader'[w] = x
    BY <1>1, <1>2, ReaderSet
  <1> HIDE DEF x
  <1>4. Attached(w) /\ Attached(w)' /\ ~Unborn(w) /\ ~Unborn(w)'
    BY <1>2, <1>3 DEF Attached, Unborn
  <1>5. /\ client' \in [Runs -> ClientRecords] /\ \A r \in Runs : Prefix(r)'
        /\ \A r \in Runs : client'[r] = client[r] \/ r = reader[w].run
        /\ client'[reader[w].run].lastId = reader[w].last
    BY <1>4, AllGot
  <1>6. Bound(w)'
    BY <1>1, <1>2, <1>3, <1>4 DEF Good, Bound, OwnRuns
  <1>7. Cursor(w)'
    <2>1. reader[w].last \in Int
      BY <1>1 DEF ReaderRecords
    <2> QED
      BY <1>2, <1>3, <1>5, <2>1 DEF Cursor
  <1>8. Prompt(w)'
    <2>1. reader[w].late \in Nat /\ ~(reader[w].late > 0)
      BY <1>1 DEF Good, Prompt, ReaderRecords
    <2> QED
      BY <1>2, <1>3, <2>1 DEF Prompt
  <1>9. Whole(w)'
    BY <1>1, <1>2, <1>3, <1>4 DEF Good, Whole, Heeded, Settled
  <1>10. Good(w)'
    BY <1>6, <1>8, <1>9 DEF Good
  <1>11. /\ row' \in [Runs -> Statuses] /\ \A r \in Runs : RowMoves(r)
         /\ exec' \in Runs \cup {NoRun} /\ opener' \in Readers \cup {NoReader}
    BY <1>1 DEF HostTypeOK, RowMoves, Settled
  <1> QED
    BY <1>2, <1>3, <1>4, <1>5, <1>7, <1>10, <1>11, ThreadGoes DEF x

\* The last batch of a stream, and its thread is done.
LEMMA EndKeeps ==
  ASSUME HostInv, NEW w \in Readers, reader[w].pc = "write", ~reader[w].gone,
         client' = Told(w), reader' = [reader EXCEPT ![w] = Free], slots' = Released(w),
         UNCHANGED <<row, size, unheeded, exec, opener, adapter, cred>>
  PROVE  HostInv'
  <1>1. HostTypeOK /\ Good(w)
    BY DEF HostInv
  <1>2. opener # w /\ Busy(w) /\ Attached(w)
    BY <1>1 DEF Good, Bound, Busy, Attached
  <1>3. /\ client' \in [Runs -> ClientRecords] /\ \A r \in Runs : Prefix(r)'
        /\ \A r \in Runs : client'[r] = client[r] \/ r = reader[w].run
    BY <1>2, AllGot
  <1>4. /\ row' \in [Runs -> Statuses] /\ exec' \in Runs \cup {NoRun}
        /\ \A r \in Runs : RowMoves(r)
    BY <1>1 DEF HostTypeOK, RowMoves, Settled
  <1> QED
    BY <1>2, <1>3, <1>4, ThreadFrees

LEMMA WriteKeeps ==
  ASSUME HostInv, NEW w \in Readers, Write(w)
  PROVE  HostInv'
  <1>1. /\ w \in Workers /\ reader[w].pc = "write" /\ ~reader[w].gone /\ client' = Told(w)
        /\ UNCHANGED <<row, size, unheeded, exec, opener, adapter, cred>>
        /\ slots' = (IF reader[w].fin = "no" THEN slots ELSE Released(w))
    BY DEF Write, kernelVars, serviceVars
  <1>2. CASE reader[w].fin # "no"
    <2>1. reader' = [reader EXCEPT ![w] = Free]
      BY <1>2 DEF Write
    <2> QED
      BY <1>1, <1>2, <2>1, EndKeeps
  <1>3. CASE reader[w].fin = "no"
    <2> DEFINE l == reader[w].late + IF cred[reader[w].cred] = "revoked" THEN 1 ELSE 0
    <2>1. reader' = [reader EXCEPT ![w] = WithSent(reader[w], "check", 0, l)]
      BY <1>3 DEF Write, WithSent
    <2>2. /\ l \in Nat
          /\ l = IF w \in Workers /\ cred[reader[w].cred] = "revoked"
                 THEN reader[w].late + 1 ELSE reader[w].late
      BY <1>1 DEF HostInv, HostTypeOK, ReaderRecords
    <2> HIDE DEF l
    <2> QED
      BY <1>1, <1>3, <2>1, <2>2, SentKeeps
  <1> QED
    BY <1>2, <1>3

LEMMA EmitKeeps ==
  ASSUME HostInv, NEW w \in Readers, Emit(w)
  PROVE  HostInv'
  <1>1. /\ w \in Pollers /\ reader[w].pc = "write" /\ ~reader[w].gone /\ client' = Told(w)
        /\ UNCHANGED <<row, size, unheeded, exec, opener, slots, adapter, cred>>
    BY DEF Emit, kernelVars, serviceVars
  <1>2. CASE reader[w].fin # "no"
    <2>1. reader' = [reader EXCEPT ![w] = Free]
      BY <1>2 DEF Emit
    <2>2. slots' = Released(w)
      BY <1>1, HostStreamsAssumption DEF Released
    <2> QED
      BY <1>1, <2>1, <2>2, EndKeeps
  <1>3. CASE reader[w].fin = "no"
    <2> DEFINE l == reader[w].late
    <2>1. reader' = [reader EXCEPT ![w] = [reader[w] EXCEPT !.pc = "check", !.batch = 0]]
      BY <1>3 DEF Emit
    <2>2. l \in Nat /\ reader[w] \in ReaderRecords
      BY DEF HostInv, HostTypeOK, ReaderRecords
    <2>3. [reader[w] EXCEPT !.pc = "check", !.batch = 0] = WithSent(reader[w], "check", 0, l)
      BY <2>2 DEF WithSent, ReaderRecords
    <2>4. l = (IF w \in Workers /\ cred[reader[w].cred] = "revoked"
               THEN reader[w].late + 1 ELSE reader[w].late)
      BY <1>1, HostStreamsAssumption
    <2>5. reader' = [reader EXCEPT ![w] = WithSent(reader[w], "check", 0, l)]
      BY <2>1, <2>3
    <2> HIDE DEF l
    <2> QED
      BY <1>1, <1>3, <2>2, <2>4, <2>5, SentKeeps
  <1> QED
    BY <1>2, <1>3

LEMMA EmitFailsKeeps ==
  ASSUME HostInv, NEW w \in Readers, EmitFails(w)
  PROVE  HostInv'
  <1>1. HostTypeOK /\ Good(w)
    BY DEF HostInv
  <1>2. /\ w \in Pollers /\ reader[w].pc = "write"
        /\ CancelOnce(reader[w].run) \/ UNCHANGED <<row, unheeded>>
        /\ reader' = [reader EXCEPT ![w] = Free]
        /\ UNCHANGED <<size, exec, opener, slots, client, adapter, cred>>
    BY DEF EmitFails, serviceVars
  <1>3. opener # w /\ Busy(w) /\ Attached(w) /\ reader[w].run \in Runs
    BY <1>1, <1>2 DEF Good, Bound, Busy, Attached, OwnRuns, Runs
  <1>4. slots' = Released(w)
    BY <1>2, HostStreamsAssumption DEF Released
  <1>5. row' \in [Runs -> Statuses] /\ \A s \in Runs : RowMoves(s)
    BY <1>1, <1>2, <1>3, RowsCancelled
  <1>6. /\ exec' \in Runs \cup {NoRun}
        /\ client' \in [Runs -> ClientRecords] /\ \A r \in Runs : Prefix(r)'
    BY <1>2, <1>5 DEF HostInv, HostTypeOK, Prefix, RowMoves
  <1> QED
    BY <1>2, <1>3, <1>4, <1>5, <1>6, ThreadFrees

WithGone(rd, g) == [rd EXCEPT !.gone = g]

LEMMA SetGone ==
  ASSUME NEW rd \in ReaderRecords, NEW g \in BOOLEAN
  PROVE  LET x == WithGone(rd, g)
         IN  /\ x \in ReaderRecords /\ x.pc = rd.pc /\ x.mode = rd.mode /\ x.run = rd.run
             /\ x.last = rd.last /\ x.batch = rd.batch /\ x.fin = rd.fin
             /\ x.cred = rd.cred /\ x.old = rd.old /\ x.gone = g
             /\ x.asked = rd.asked /\ x.late = rd.late
  BY DEF ReaderRecords, WithGone

LEMMA ClientLeavesKeeps ==
  ASSUME HostInv, NEW w \in Readers, ClientLeaves(w)
  PROVE  HostInv'
  <1> DEFINE x == WithGone(reader[w], TRUE)
  <1>1. HostTypeOK /\ Good(w) /\ reader[w] \in ReaderRecords
    BY DEF HostInv, HostTypeOK
  <1>2. /\ ~reader[w].gone
        /\ UNCHANGED <<row, size, unheeded, exec, opener, slots, adapter, cred>>
    BY DEF ClientLeaves, kernelVars, serviceVars
  <1>3. Attached(w)
    BY DEF ClientLeaves, Busy, Attached
  <1>4. reader' = [reader EXCEPT ![w] = x]
    BY DEF ClientLeaves, WithGone
  <1>5. PICK k \in 0 .. (IF reader[w].pc = "write" THEN reader[w].batch ELSE 0) :
           client' = Got(w, k)
    BY DEF ClientLeaves
  <1>6. k \in Nat /\ k <= reader[w].batch
    BY <1>1, <1>5 DEF ReaderRecords, Good, Bound
  <1>7. /\ x \in ReaderRecords /\ x.pc = reader[w].pc /\ x.mode = reader[w].mode
        /\ x.run = reader[w].run
        /\ x.last = reader[w].last /\ x.batch = reader[w].batch /\ x.fin = reader[w].fin
        /\ x.cred = reader[w].cred /\ x.old = reader[w].old /\ x.gone
        /\ x.asked = reader[w].asked /\ x.late = reader[w].late
    BY <1>1, SetGone
  <1> HIDE DEF x
  <1>8. reader'[w] = x
    BY <1>1, <1>4, <1>7, ReaderSet
  <1>9. Good(w)'
    BY <1>1, <1>2, <1>7, <1>8
    DEF Good, Bound, Prompt, Whole, Heeded, Attached, Unborn, OwnRuns, Settled
  <1>10. Cursor(w)' /\ Attached(w)' /\ (Unborn(w)' => Unborn(w))
    BY <1>3, <1>7, <1>8 DEF Cursor, Attached, Unborn
  <1>11. /\ client' \in [Runs -> ClientRecords] /\ \A r \in Runs : Prefix(r)'
         /\ \A r \in Runs : client'[r] = client[r] \/ r = reader[w].run
    BY <1>2, <1>3, <1>5, <1>6, PartGot
  <1>12. /\ row' \in [Runs -> Statuses] /\ \A r \in Runs : RowMoves(r)
         /\ exec' \in Runs \cup {NoRun} /\ opener' \in Readers \cup {NoReader}
    BY <1>1, <1>2 DEF HostTypeOK, RowMoves, Settled
  <1> QED
    BY <1>2, <1>3, <1>4, <1>7, <1>9, <1>10, <1>11, <1>12, ThreadGoes

\* The thread that holds the mutex starts its own run.
LEMMA OpenerIs ==
  ASSUME HostInv, NEW w \in Readers, opener = w
  PROVE  /\ reader[w].pc = "starting" /\ Unborn(w) /\ Attached(w) /\ Busy(w)
         /\ reader[w].run \in Runs /\ reader[w] \in ReaderRecords
  BY DEF HostInv, HostTypeOK, Good, Bound, Unborn, Attached, Busy, OwnRuns, Runs

LEMMA RowStarts ==
  ASSUME HostInv, NEW r \in Runs, row' = [row EXCEPT ![r] = "active"],
         UNCHANGED <<size, client, unheeded>>
  PROVE  /\ row' \in [Runs -> Statuses] /\ row'[r] = "active"
         /\ \A s \in Runs : RowMoves(s) \/ s = r
         /\ \A s \in Runs : Prefix(s)'
         /\ client' \in [Runs -> ClientRecords]
  BY DEF HostInv, HostTypeOK, Statuses, RowMoves, Settled, Prefix

LEMMA LaunchKeeps ==
  ASSUME HostInv, NEW w \in Readers, Launch(w)
  PROVE  HostInv'
  <1> DEFINE headFails == w \in Workers /\ reader[w].gone
             r == reader[w].run
  <1>1. /\ opener = w /\ opener' = NoReader /\ exec' = r
        /\ row' = [row EXCEPT ![r] = "active"]
        /\ slots' = (IF headFails THEN Released(w) ELSE slots)
        /\ UNCHANGED <<size, client, unheeded, adapter, cred>>
    BY DEF Launch, serviceVars
  <1>2. /\ reader[w].pc = "starting" /\ Unborn(w) /\ Attached(w) /\ Busy(w)
        /\ r \in Runs /\ reader[w] \in ReaderRecords
    BY <1>1, OpenerIs
  <1>3. /\ row' \in [Runs -> Statuses] /\ row'[r] = "active"
        /\ \A s \in Runs : RowMoves(s) \/ s = r
        /\ \A s \in Runs : Prefix(s)'
        /\ client' \in [Runs -> ClientRecords]
    BY <1>1, <1>2, RowStarts
  <1>4. CASE headFails
    <2>1. reader' = [reader EXCEPT ![w] = Free]
      BY <1>4 DEF Launch
    <2> QED
      BY <1>1, <1>2, <1>3, <1>4, <2>1, ThreadFrees
  <1>5. CASE ~headFails
    <2> DEFINE x == WithPc(reader[w], "check")
    <2>1. reader' = [reader EXCEPT ![w] = x]
      BY <1>5 DEF Launch, WithPc
    <2>2. HostTypeOK /\ Good(w) /\ Cursor(w)
      BY DEF HostInv
    <2>3. /\ x \in ReaderRecords /\ x.pc = "check" /\ x.mode = reader[w].mode
          /\ x.run = reader[w].run
          /\ x.last = reader[w].last /\ x.batch = reader[w].batch /\ x.fin = reader[w].fin
          /\ x.cred = reader[w].cred /\ x.old = reader[w].old /\ x.gone = reader[w].gone
          /\ x.asked = reader[w].asked /\ x.late = reader[w].late
      <3>1. "check" \in PCs
        BY DEF PCs
      <3> QED
        BY <1>2, <3>1, SetPc
    <2> HIDE DEF x
    <2>4. reader'[w] = x
      BY <2>1, <2>2, <2>3, ReaderSet
    <2>5. Attached(w)' /\ ~Unborn(w)'
      BY <2>3, <2>4 DEF Attached, Unborn
    <2>6. opener' # w
      BY <1>1, HostStreamsAssumption DEF Readers
    <2>7. Bound(w)' /\ Cursor(w)'
      BY <1>1, <1>2, <1>3, <2>2, <2>3, <2>4, <2>5, <2>6 DEF Good, Bound, Cursor, OwnRuns
    <2>8. Prompt(w)'
      BY <1>1, <1>2, <2>2, <2>3, <2>4 DEF Good, Prompt
    <2>9. Whole(w)'
      BY <1>2, <2>2, <2>3, <2>4, <2>5 DEF Good, Whole, Heeded
    <2>10. Good(w)'
      BY <2>7, <2>8, <2>9 DEF Good
    <2>11. /\ exec' \in Runs \cup {NoRun} /\ opener' \in Readers \cup {NoReader}
           /\ \A v \in Readers \ {w} : opener' = v <=> opener = v
      BY <1>1, <1>2, HostStreamsAssumption DEF Readers
    <2> QED
      BY <1>1, <1>2, <1>3, <1>5, <2>1, <2>3, <2>5, <2>7, <2>10, <2>11, ThreadGoes
  <1> QED
    BY <1>4, <1>5

LEMMA NotLaunched ==
  ASSUME HostInv, NEW w \in Readers, LaunchRefused(w) \/ SpawnFails(w)
  PROVE  HostInv'
  <1>1. /\ opener = w /\ opener' = NoReader /\ reader' = [reader EXCEPT ![w] = Free]
        /\ UNCHANGED <<size, client, unheeded, adapter, cred>>
    BY DEF LaunchRefused, SpawnFails, kernelVars, serviceVars
  <1>2. Unborn(w) /\ Busy(w) /\ reader[w].run \in Runs
    BY <1>1, OpenerIs
  <1>3. CASE LaunchRefused(w)
    <2>1. slots' = Released(w) /\ UNCHANGED <<row, exec>>
      BY <1>3 DEF LaunchRefused, kernelVars
    <2> QED
      BY <1>1, <1>2, <2>1, Still, ThreadFrees
  <1>4. CASE SpawnFails(w)
    <2>1. /\ slots' = Released(w) /\ exec' = reader[w].run
          /\ row' = [row EXCEPT ![reader[w].run] = "active"]
      BY <1>4, HostStreamsAssumption DEF SpawnFails, Released
    <2>2. /\ row' \in [Runs -> Statuses] /\ client' \in [Runs -> ClientRecords]
          /\ \A s \in Runs : RowMoves(s) \/ s = reader[w].run
          /\ \A s \in Runs : Prefix(s)'
      BY <1>1, <1>2, <2>1, RowStarts
    <2> QED
      BY <1>1, <1>2, <2>1, <2>2, ThreadFrees
  <1> QED
    BY <1>3, <1>4

\* An idle thread takes a request.
LEMMA NewStream ==
  ASSUME HostInv, NEW w \in Readers, ~Busy(w), NEW x \in ReaderRecords,
         reader' = [reader EXCEPT ![w] = x],
         UNCHANGED <<row, size, unheeded, exec, opener, client, adapter, cred>>,
         x.pc \in {"over", "lock", "check"},
         x.pc = "over" => x.run = NoRun /\ w \in Workers,
         x.pc # "over" => /\ x.run \in OwnRuns(w) /\ RunTaken(w)
                          /\ client[x.run].lastId = x.last
                          /\ w \in Workers => x.cred \in Creds
                          /\ w \in Pollers => x.mode = "local",
         x.pc = "lock" => row[x.run] = "absent" /\ x.last = -1,
         x.pc = "check" => row[x.run] # "absent",
         x.batch = 0, x.fin = "no", ~x.asked, x.late = 0,
         slots' \in Int, SlotsExact', w \in Workers => adapter # "off"
  PROVE  HostInv'
  <1>1. HostTypeOK /\ Good(w)
    BY DEF HostInv
  <1>2. reader' \in [Readers -> ReaderRecords] /\ reader'[w] = x /\ Same(w)
    BY <1>1, ReaderSet
  <1>3. HostTypeOK'
    BY <1>1, <1>2 DEF HostTypeOK
  <1>4. /\ Attached(w)' <=> x.pc # "over"
        /\ Unborn(w)' <=> x.pc = "lock"
    BY <1>2 DEF Attached, Unborn
  <1>5. opener # w
    BY <1>1 DEF Good, Bound, Busy
  <1>6. x.last \in Int
    BY DEF ReaderRecords
  <1>7. Bound(w)' /\ Cursor(w)'
    BY <1>2, <1>4, <1>5, <1>6 DEF Bound, Cursor, OwnRuns
  <1>8. Prompt(w)' /\ Whole(w)'
    BY <1>2, <1>4 DEF Prompt, Whole, Heeded
  <1>9. Good(w)'
    BY <1>7, <1>8 DEF Good
  <1>10. reader'[w].run = NoRun \/ RunTaken(w)
    BY <1>2
  <1>11. adapter = "off" /\ Serving(w)' => Serving(w)
    BY DEF Serving
  <1>12. \A r \in Runs : RowMoves(r) /\ Prefix(r)'
    BY DEF RowMoves, Settled, HostInv, Prefix
  <1>13. CredMoves
    BY DEF CredMoves
  <1> QED
    BY <1>2, <1>3, <1>7, <1>9, <1>10, <1>11, <1>12, <1>13, ThreadStep

WithOpen(rd, p, m, r, c) == [rd EXCEPT !.pc = p, !.mode = m, !.run = r, !.cred = c]

LEMMA SetOpen ==
  ASSUME NEW rd \in ReaderRecords, NEW p \in PCs,
         NEW m \in {"none", "live", "resume", "local"}, NEW r \in Runs \cup {NoRun},
         NEW c \in Creds \cup {NoCred}
  PROVE  LET x == WithOpen(rd, p, m, r, c)
         IN  /\ x \in ReaderRecords /\ x.pc = p /\ x.mode = m /\ x.run = r
             /\ x.last = rd.last /\ x.batch = rd.batch /\ x.fin = rd.fin
             /\ x.cred = c /\ x.old = rd.old /\ x.gone = rd.gone
             /\ x.asked = rd.asked /\ x.late = rd.late
  BY DEF ReaderRecords, WithOpen

LEMMA OpeningIs ==
  ASSUME NEW mode \in {"none", "live", "resume", "local"}, NEW r \in Runs \cup {NoRun},
         NEW c \in Creds \cup {NoCred}
  PROVE  LET x == Opening(mode, r, c)
         IN  /\ x \in ReaderRecords /\ x.pc = "lock" /\ x.mode = mode /\ x.run = r
             /\ x.last = -1 /\ x.batch = 0 /\ x.fin = "no" /\ x.cred = c
             /\ ~x.old /\ ~x.gone /\ ~x.asked /\ x.late = 0
  <1>1. Opening(mode, r, c) = WithOpen(Free, "lock", mode, r, c)
    BY DEF Opening, WithOpen
  <1>2. "lock" \in PCs
    BY DEF PCs
  <1> QED
    BY <1>1, <1>2, FreeIs, SetOpen

LEMMA OverIs ==
  LET x == [Free EXCEPT !.pc = "over"]
  IN  /\ x \in ReaderRecords /\ x.pc = "over" /\ x.run = NoRun
      /\ x.batch = 0 /\ x.fin = "no" /\ ~x.old /\ ~x.asked /\ x.late = 0
  <1>1. [Free EXCEPT !.pc = "over"] = WithPc(Free, "over")
    BY DEF WithPc
  <1>2. "over" \in PCs
    BY DEF PCs
  <1> QED
    BY <1>1, <1>2, FreeIs, SetPc

\* A worker that is admitted, or is over the cap.
LEMMA AdmittedKeeps ==
  ASSUME HostInv, NEW w \in Workers, NEW x \in ReaderRecords, Admitted(w, x),
         UNCHANGED <<row, size, unheeded, exec, opener, client, adapter, cred>>,
         x.pc \in {"lock", "check"}, x.run \in RemoteRuns,
         reader'[w] = x => RunTaken(w),
         client[x.run].lastId = x.last, x.cred \in Creds,
         x.pc = "lock" => row[x.run] = "absent" /\ x.last = -1,
         x.pc = "check" => row[x.run] # "absent",
         x.batch = 0, x.fin = "no", ~x.asked, ~x.old, x.late = 0
  PROVE  HostInv'
  <1>1. /\ ~Busy(w) /\ adapter = "on" /\ slots' = slots + 1
        /\ w \in Readers /\ w \notin Pollers /\ adapter # "off"
    BY HostStreamsAssumption DEF Admitted, GateAdmits, Readers
  <1>2. HostTypeOK /\ SlotsExact /\ slots \in Int /\ MaxStreams \in Nat
    BY HostStreamsAssumption DEF HostInv, HostTypeOK
  <1>3. CASE slots >= MaxStreams
    <2> DEFINE y == [Free EXCEPT !.pc = "over"]
    <2>1. reader' = [reader EXCEPT ![w] = y]
      BY <1>3 DEF Admitted
    <2>2. /\ y \in ReaderRecords /\ y.pc = "over" /\ y.run = NoRun /\ y.batch = 0
          /\ y.fin = "no" /\ ~y.old /\ ~y.asked /\ y.late = 0
      BY OverIs
    <2> HIDE DEF y
    <2>3. reader'[w] = y /\ Same(w)
      BY <1>1, <1>2, <2>1, <2>2, ReaderSet
    <2>4. SlotsExact' /\ slots' \in Int
      BY <1>1, <1>2, <2>2, <2>3, SlotsTaken
    <2> QED
      BY <1>1, <2>1, <2>2, <2>4, NewStream
  <1>4. CASE ~(slots >= MaxStreams)
    <2>1. reader' = [reader EXCEPT ![w] = x]
      BY <1>4 DEF Admitted
    <2>2. reader'[w] = x /\ Same(w)
      BY <1>1, <1>2, <2>1, ReaderSet
    <2>3. SlotsExact'
      BY <1>1, <1>2, <1>4, <2>2, SlotsTaken
    <2>4. x.run \in OwnRuns(w) /\ slots' \in Int
      BY <1>1, <1>2 DEF OwnRuns
    <2> QED
      BY <1>1, <2>1, <2>2, <2>3, <2>4, NewStream
  <1> QED
    BY <1>3, <1>4

\* Only workers have the runs of clients, and only pollers those of the WebView.
LEMMA RunsApart ==
  ASSUME HostInv, NEW v \in Readers
  PROVE  /\ reader[v].run \in RemoteRuns => v \in Workers
         /\ reader[v].run \in LocalRuns => v \in Pollers
         /\ reader[v].run # NoRun => Attached(v)
  BY HostStreamsAssumption DEF HostInv, Good, Bound, OwnRuns, Readers

LEMMA OpenLiveKeeps ==
  ASSUME HostInv, NEW w \in Workers, NEW r \in RemoteRuns, NEW c \in Creds,
         OpenLive(w, r, c)
  PROVE  HostInv'
  <1> DEFINE x == Opening("live", r, c)
  <1>1. /\ row[r] = "absent" /\ \A v \in Workers : reader[v].run # r
        /\ Admitted(w, x) /\ UNCHANGED <<row, size, unheeded, exec, opener, client, adapter, cred>>
    BY DEF OpenLive, kernelVars, serviceVars
  <1>2. /\ x \in ReaderRecords /\ x.pc = "lock" /\ x.mode = "live" /\ x.run = r
        /\ x.last = -1 /\ x.batch = 0 /\ x.fin = "no" /\ x.cred = c
        /\ ~x.old /\ ~x.gone /\ ~x.asked /\ x.late = 0
    BY OpeningIs DEF Runs
  <1> HIDE DEF x
  <1>3. client[r].lastId = -1
    BY <1>1 DEF HostInv, Prefix, Runs
  <1>4. reader'[w] = x => RunTaken(w)
    BY <1>1, <1>2, RunsApart DEF RunTaken
  <1> QED
    BY <1>1, <1>2, <1>3, <1>4, AdmittedKeeps

LEMMA OpenResumeKeeps ==
  ASSUME HostInv, NEW w \in Workers, NEW r \in RemoteRuns, NEW c \in Creds,
         OpenResume(w, r, c)
  PROVE  HostInv'
  <1> DEFINE o == Opening("resume", r, c)
             x == [o EXCEPT !.pc = "check", !.last = client[r].lastId]
  <1>1. /\ client[r].seen # {} /\ \A v \in Workers : reader[v].run = r => reader[v].gone
        /\ Admitted(w, x) /\ UNCHANGED <<row, size, unheeded, exec, opener, client, adapter, cred>>
    BY DEF OpenResume, kernelVars, serviceVars
  <1>2. /\ o \in ReaderRecords /\ o.pc = "lock" /\ o.mode = "resume" /\ o.run = r
        /\ o.last = -1 /\ o.batch = 0 /\ o.fin = "no" /\ o.cred = c
        /\ ~o.old /\ ~o.gone /\ ~o.asked /\ o.late = 0
    BY OpeningIs DEF Runs
  <1> HIDE DEF o
  <1>3. /\ r \in Runs /\ Prefix(r) /\ client[r].lastId \in Int
    BY DEF HostInv, HostTypeOK, ClientRecords, Runs
  <1>4. row[r] # "absent"
    BY <1>1, <1>3 DEF Prefix
  <1>5. /\ x \in ReaderRecords /\ x.pc = "check" /\ x.run = r
        /\ x.last = client[r].lastId /\ x.batch = 0 /\ x.fin = "no" /\ x.cred = c
        /\ ~x.old /\ ~x.asked /\ x.late = 0
    BY <1>2, <1>3 DEF ReaderRecords, PCs
  <1> HIDE DEF x
  <1>6. reader'[w] = x => RunTaken(w)
    <2>1. SUFFICES ASSUME reader'[w] = x, NEW v \in Readers \ {w}, reader[v].run = r
                   PROVE  reader[v].gone /\ ~Unborn(v) /\ ~Unborn(w)'
      BY <1>5 DEF RunTaken
    <2>2. reader[v].gone
      BY <1>1, <2>1, RunsApart
    <2>3. ~Unborn(v)
      BY <1>4, <2>1 DEF HostInv, Good, Bound
    <2>4. ~Unborn(w)'
      BY <1>5, <2>1 DEF Unborn
    <2> QED
      BY <2>2, <2>3, <2>4
  <1> QED
    BY <1>1, <1>4, <1>5, <1>6, AdmittedKeeps

LEMMA OpenLocalKeeps ==
  ASSUME HostInv, NEW w \in Pollers, NEW r \in LocalRuns, OpenLocal(w, r)
  PROVE  HostInv'
  <1> DEFINE x == Opening("local", r, NoCred)
  <1>1. /\ row[r] = "absent" /\ \A v \in Pollers : reader[v].run # r /\ ~Busy(w)
        /\ reader' = [reader EXCEPT ![w] = x] /\ slots' = slots
        /\ UNCHANGED <<row, size, unheeded, exec, opener, client, adapter, cred>>
    BY DEF OpenLocal, kernelVars, serviceVars
  <1>2. /\ x \in ReaderRecords /\ x.pc = "lock" /\ x.mode = "local" /\ x.run = r
        /\ x.last = -1 /\ x.batch = 0 /\ x.fin = "no" /\ x.cred = NoCred
        /\ ~x.old /\ ~x.gone /\ ~x.asked /\ x.late = 0
    BY OpeningIs DEF Runs
  <1> HIDE DEF x
  <1>3. /\ w \in Readers /\ w \notin Workers /\ ~Busy(w) /\ x.run \in OwnRuns(w)
        /\ r \in Runs /\ slots' \in Int /\ HostTypeOK
    BY <1>1, <1>2, HostStreamsAssumption DEF Readers, OwnRuns, Runs, HostInv, HostTypeOK
  <1>4. client[r].lastId = -1
    BY <1>1, <1>3 DEF HostInv, Prefix
  <1>5. reader'[w] = x /\ Same(w)
    BY <1>1, <1>2, <1>3, ReaderSet
  <1>6. RunTaken(w)
    BY <1>1, <1>2, <1>5, RunsApart DEF RunTaken
  <1>7. SlotsExact'
    BY <1>1, <1>3, <1>5, SlotsKept DEF HostInv, Serving, HasSlot
  <1> QED
    BY <1>1, <1>2, <1>3, <1>4, <1>6, <1>7, NewStream

WithOld(rd, b) == [rd EXCEPT !.old = b]

LEMMA SetOld ==
  ASSUME NEW rd \in ReaderRecords, NEW b \in BOOLEAN
  PROVE  LET x == WithOld(rd, b)
         IN  /\ x \in ReaderRecords /\ x.pc = rd.pc /\ x.mode = rd.mode /\ x.run = rd.run
             /\ x.last = rd.last /\ x.batch = rd.batch /\ x.fin = rd.fin
             /\ x.cred = rd.cred /\ x.old = b /\ x.gone = rd.gone
             /\ x.asked = rd.asked /\ x.late = rd.late
  BY DEF ReaderRecords, WithOld

\* The service gives up on the workers that are still busy.
LEMMA DrainTimesOutKeeps ==
  ASSUME HostInv, DrainTimesOut
  PROVE  HostInv'
  <1>1. HostTypeOK
    BY DEF HostInv
  <1>2. /\ adapter' = "abandoned" /\ slots' = 0
        /\ UNCHANGED <<row, size, unheeded, exec, opener, client, cred>>
        /\ reader' = [w \in Readers |->
                        IF Serving(w) THEN WithOld(reader[w], TRUE) ELSE reader[w]]
    BY DEF DrainTimesOut, kernelVars, WithOld
  <1>3. ASSUME NEW w \in Readers
        PROVE  /\ reader'[w] \in ReaderRecords /\ reader'[w].pc = reader[w].pc
               /\ reader'[w].mode = reader[w].mode /\ reader'[w].run = reader[w].run
               /\ reader'[w].last = reader[w].last /\ reader'[w].batch = reader[w].batch
               /\ reader'[w].fin = reader[w].fin /\ reader'[w].cred = reader[w].cred
               /\ reader'[w].gone = reader[w].gone /\ reader'[w].asked = reader[w].asked
               /\ reader'[w].late = reader[w].late
               /\ ~Serving(w)'
    <2>1. reader[w] \in ReaderRecords
      BY <1>1 DEF HostTypeOK
    <2>2. CASE Serving(w)
      <3>1. reader'[w] = WithOld(reader[w], TRUE)
        BY <1>2, <2>2
      <3> DEFINE x == WithOld(reader[w], TRUE)
      <3>2. /\ x \in ReaderRecords /\ x.pc = reader[w].pc /\ x.mode = reader[w].mode
            /\ x.run = reader[w].run /\ x.last = reader[w].last
            /\ x.batch = reader[w].batch /\ x.fin = reader[w].fin
            /\ x.cred = reader[w].cred /\ x.old /\ x.gone = reader[w].gone
            /\ x.asked = reader[w].asked /\ x.late = reader[w].late
        BY <2>1, SetOld
      <3> HIDE DEF x
      <3>3. reader'[w] = x
        BY <3>1 DEF x
      <3>4. ~Serving(w)'
        BY <3>2, <3>3 DEF Serving
      <3> QED
        BY <3>2, <3>3, <3>4
    <2>3. CASE ~Serving(w)
      <3>1. reader'[w] = reader[w]
        BY <1>2, <2>3
      <3> QED
        BY <2>1, <2>3, <3>1 DEF Serving, Busy
    <2> QED
      BY <2>2, <2>3
  <1>4. HostTypeOK'
    <2>1. reader' \in [Readers -> ReaderRecords]
      BY <1>2, <1>3
    <2>2. slots' \in Int /\ UNCHANGED <<row, size, unheeded, exec, opener, client, cred>>
      BY <1>2
    <2> QED
      BY <1>1, <2>1, <2>2 DEF HostTypeOK
  <1>5. ASSUME NEW w \in Readers PROVE Good(w)' /\ Cursor(w)'
    <2>1. Good(w) /\ Cursor(w)
      BY DEF HostInv
    <2>2. (Attached(w)' <=> Attached(w)) /\ (Unborn(w)' <=> Unborn(w))
      BY <1>3 DEF Attached, Unborn
    <2>3. Bound(w)' /\ Cursor(w)'
      BY <1>2, <1>3, <2>1, <2>2 DEF Good, Bound, Cursor, OwnRuns
    <2>4. Prompt(w)' /\ Whole(w)'
      BY <1>2, <1>3, <2>1, <2>2 DEF Good, Prompt, Whole, Heeded, Settled
    <2> QED
      BY <2>3, <2>4 DEF Good
  <1>6. Alone'
    BY <1>3 DEF HostInv, Alone, Unborn
  <1>7. \A r \in Runs : Prefix(r)'
    BY <1>2 DEF HostInv, Prefix
  <1>8. SlotsExact'
    <2>1. \A w \in Workers : ~Serving(w)' /\ ~HasSlot(w)'
      BY <1>3 DEF Readers, HasSlot
    <2>2. ServingSet' = {} /\ SlotSet' = {}
      BY <2>1 DEF ServingSet, SlotSet
    <2> QED
      BY <1>2, <2>2, FS_EmptySet, SlotsExactIs, HostStreamsAssumption
  <1>9. CleanStopIsQuiet'
    BY <1>2 DEF CleanStopIsQuiet
  <1> QED
    BY <1>4, <1>5, <1>6, <1>7, <1>8, <1>9 DEF HostInv

LEMMA InitHost ==
  ASSUME HostInit
  PROVE  HostInv
  <1>1. HostTypeOK
    <2>1. reader \in [Readers -> ReaderRecords]
      BY FreeIs DEF HostInit
    <2>2. client \in [Runs -> ClientRecords]
      BY DEF HostInit, ClientRecords
    <2> QED
      BY <2>1, <2>2 DEF HostInit, HostTypeOK, Statuses
  <1>2. ASSUME NEW w \in Readers PROVE Good(w) /\ Cursor(w) /\ ~Busy(w) /\ reader[w] = Free
    <2>1. reader[w] = Free /\ opener # w
      BY HostStreamsAssumption DEF HostInit, Readers
    <2> QED
      BY <2>1, FreeIs DEF Good, Bound, Prompt, Whole, Heeded, Cursor, Attached, Unborn, Busy
  <1>3. ASSUME NEW r \in Runs PROVE Prefix(r)
    <2>1. client[r].seen = {} /\ client[r].lastId = -1
      BY DEF HostInit
    <2>2. 0 .. -1 = {} /\ -1 >= -1
      OBVIOUS
    <2> QED
      BY <2>1, <2>2 DEF Prefix
  <1>4. Alone
    BY <1>2, FreeIs DEF Alone
  <1>5. SlotsExact /\ CleanStopIsQuiet
    <2>1. \A w \in Workers : ~Serving(w) /\ ~HasSlot(w)
      BY <1>2 DEF Readers, HasSlot, Serving
    <2>2. ServingSet = {} /\ SlotSet = {}
      BY <2>1 DEF ServingSet, SlotSet
    <2> QED
      BY <2>1, <2>2, FS_EmptySet, SlotsExactIs, HostStreamsAssumption
      DEF CleanStopIsQuiet, HostInit
  <1> QED
    BY <1>1, <1>2, <1>3, <1>4, <1>5 DEF HostInv

LEMMA HostStep ==
  ASSUME HostInv, [HostNext]_hostVars
  PROVE  HostInv'
  <1>1. CASE CommitEvent \/ ExecutorEnds
    BY <1>1, WriterQuiet
  <1>2. ASSUME NEW r \in Runs,
               UserCancels(r) \/ UserDiscards(r) \/ UserDeletes(r) \/ Abort(r)
        PROVE  HostInv'
    BY <1>2, CallerQuiet
  <1>3. ASSUME NEW w \in Workers, NEW r \in RemoteRuns, NEW c \in Creds,
               OpenLive(w, r, c) \/ OpenResume(w, r, c)
        PROVE  HostInv'
    BY <1>3, OpenLiveKeeps, OpenResumeKeeps
  <1>4. ASSUME NEW w \in Pollers, NEW r \in LocalRuns, OpenLocal(w, r)
        PROVE  HostInv'
    BY <1>4, OpenLocalKeeps
  <1>5. ASSUME NEW w \in Readers, StreamStep(w)
        PROVE  HostInv'
    BY <1>5, RefuseKeeps, TakeLockKeeps, RecheckKeeps, PollKeeps, ProbeKeeps, WriteKeeps,
       WriteFailsKeeps, LocalCheckKeeps, LocalPollKeeps,
       LocalPollFailsKeeps, EmitKeeps, EmitFailsKeeps
    DEF StreamStep
  <1>6. ASSUME NEW w \in Readers, Started(w) \/ ClientLeaves(w)
        PROVE  HostInv'
    BY <1>6, LaunchKeeps, NotLaunched, ClientLeavesKeeps DEF Started
  <1>7. CASE StartRemote \/ StopRemote \/ Drained \/ \E c \in Creds : Pair(c) \/ Revoke(c)
    BY <1>7, ServiceQuiet
  <1>8. CASE DrainTimesOut
    BY <1>8, DrainTimesOutKeeps
  <1>9. CASE UNCHANGED hostVars
    <2>1. HostTypeOK' /\ CredMoves
      BY <1>9 DEF HostInv, HostTypeOK, hostVars, CredMoves
    <2>2. \A r \in Runs : RowMoves(r)
      BY <1>9 DEF hostVars, RowMoves, Settled
    <2>3. UNCHANGED <<opener, reader, slots, client, adapter>>
      BY <1>9 DEF hostVars
    <2> QED
      BY <2>1, <2>2, <2>3, QuietStep
  <1> QED
    BY <1>1, <1>2, <1>3, <1>4, <1>5, <1>6, <1>7, <1>8, <1>9 DEF HostNext

LEMMA HostInvHolds == HostSpec => []HostInv
  BY InitHost, HostStep, PTL DEF HostSpec

(* The consumer of a run receives its events in order and without a gap,   *)
(* over every connection and resumption; a stream that started its run is  *)
(* told of its end only with the last event; the counter of open streams   *)
(* is exact, whatever way they end, and never lets more than max_streams   *)
(* be served; a revoked credential costs at most one more batch; and a     *)
(* stop that succeeds leaves no worker behind (remote-http, tauri-local    *)
(* and desktop-remote).                                                    *)
THEOREM HostStreamsAreSound == HostSpec => []HostStreamsSound
  <1>1. HostInv => HostStreamsSound
    <2> SUFFICES ASSUME HostInv PROVE HostStreamsSound
      OBVIOUS
    <2>1. NoGap
      BY DEF HostInv, Prefix, NoGap
    <2>2. LiveCloseIsWhole
      BY DEF HostInv, Good, Whole, Settled, LiveCloseIsWhole, Readers
    <2>3. RevocationPrompt
      <3> SUFFICES ASSUME NEW w \in Workers PROVE reader[w].late <= 1
        BY DEF RevocationPrompt
      <3>1. reader[w].late \in Nat /\ (reader[w].late > 0 => reader[w].late = 1)
        BY DEF HostInv, HostTypeOK, ReaderRecords, Readers, Good, Prompt
      <3> QED
        BY <3>1
    <2> QED
      BY <2>1, <2>2, <2>3 DEF HostInv, HostStreamsSound
  <1> QED
    BY <1>1, HostInvHolds, PTL

\* A poller ends only in its own steps, with its run ended, deleted or
\* cancelled, or after a call that failed.
LEMMA PollerEnds ==
  ASSUME HostInv, HostNext, NEW w \in Pollers, Busy(w), reader[w].pc # "starting",
         reader'[w] = Free
  PROVE  IsHeeded(reader[w].run)
  <1>1. /\ HostTypeOK /\ Good(w) /\ w \in Readers /\ w \notin Workers
        /\ reader[w] \in ReaderRecords
    BY HostStreamsAssumption DEF HostInv, HostTypeOK, Readers
  <1>2. reader'[w] # reader[w] /\ reader'[w].pc = "free" /\ reader[w].pc # "free"
    BY FreeIs DEF Busy
  <1>3. ASSUME NEW v \in Readers, v # w, NEW x, reader' = [reader EXCEPT ![v] = x]
        PROVE  FALSE
    BY <1>1, <1>2, <1>3 DEF HostTypeOK
  <1>4. ~(UNCHANGED reader)
    BY <1>2
  <1>5. ~(CommitEvent \/ ExecutorEnds \/ StartRemote \/ StopRemote \/ Drained)
    BY <1>4 DEF CommitEvent, ExecutorEnds, ExecutorFails, CommitTerminal, StartRemote,
                StopRemote, Drained
  <1>6. /\ \A r \in Runs : ~(UserCancels(r) \/ UserDiscards(r) \/ UserDeletes(r) \/ Abort(r))
        /\ \A c \in Creds : ~(Pair(c) \/ Revoke(c))
    BY <1>4 DEF UserCancels, UserDiscards, UserDeletes, Abort, Pair, Revoke
  <1>7. ~DrainTimesOut
    <2>1. DrainTimesOut => reader'[w] = reader[w]
      BY <1>1 DEF DrainTimesOut, Serving
    <2> QED
      BY <1>2, <2>1
  <1>8. ASSUME NEW v \in Workers, NEW r \in RemoteRuns, NEW c \in Creds,
               OpenLive(v, r, c) \/ OpenResume(v, r, c)
        PROVE  FALSE
    <2>1. v \in Readers /\ v # w
      BY <1>1 DEF Readers
    <2> QED
      BY <1>3, <1>8, <2>1 DEF OpenLive, OpenResume, Admitted
  <1>9. ASSUME NEW v \in Pollers, NEW r \in LocalRuns, OpenLocal(v, r)
        PROVE  FALSE
    <2>1. v \in Readers /\ v # w
      BY <1>9 DEF Readers, OpenLocal
    <2> QED
      BY <1>3, <1>9, <2>1 DEF OpenLocal
  <1>10. ASSUME NEW v \in Readers, StreamStep(v) \/ Started(v) \/ ClientLeaves(v)
         PROVE  v = w
    <2>1. \E x : reader' = [reader EXCEPT ![v] = x]
      BY <1>10 DEF StreamStep, Started, Refuse, TakeLock, Recheck, Poll, Probe, Write,
         WriteFails, LocalCheck, LocalPoll, LocalPollFails, Closes, Emit, EmitFails, Launch, LaunchRefused,
         SpawnFails, ClientLeaves
    <2> QED
      BY <1>3, <2>1
  <1>11. ~Started(w)
    BY OpenerIs, <1>1 DEF Started, Launch, LaunchRefused, SpawnFails
  <1>12. ~(Recheck(w) \/ Poll(w) \/ Write(w) \/ WriteFails(w) \/ Refuse(w) \/ Probe(w))
    BY <1>1 DEF Recheck, Poll, Write, WriteFails, Refuse, Probe, Good, Bound, Whole, Attached
  <1>13. ~(TakeLock(w) \/ LocalCheck(w) \/ ClientLeaves(w))
    <2>1. reader'[w].pc # "free"
           \/ ~(TakeLock(w) \/ LocalCheck(w) \/ ClientLeaves(w))
      BY <1>1, <1>2 DEF TakeLock, LocalCheck, ClientLeaves, HostTypeOK, ReaderRecords
    <2> QED
      BY <1>2, <2>1
  <1>14. LocalPoll(w) \/ LocalPollFails(w) \/ Emit(w) \/ EmitFails(w)
    BY <1>5, <1>6, <1>7, <1>8, <1>9, <1>10, <1>11, <1>12, <1>13 DEF HostNext, StreamStep
  <1>15. CASE LocalPoll(w)
    <2>1. CASE row[reader[w].run] = "deleted"
      BY <1>15, <2>1 DEF LocalPoll, kernelVars, IsHeeded, Heeded
    <2>2. CASE row[reader[w].run] # "deleted"
      <3> DEFINE p == IF PageEnd(w) > reader[w].last THEN "write" ELSE "check"
      <3>1. reader' = [reader EXCEPT ![w] = Paged(w, p)]
        BY <1>15, <2>2 DEF LocalPoll, Paged
      <3>2. Paged(w, p).pc = p /\ p # "free"
        BY <1>1 DEF Paged, ReaderRecords
      <3>3. reader'[w] = Paged(w, p)
        BY <1>1, <3>1 DEF HostTypeOK
      <3> QED
        BY <1>2, <3>2, <3>3
    <2> QED
      BY <2>1, <2>2
  <1>16. CASE Emit(w)
    <2>1. row' = row /\ reader[w].pc = "write"
      BY <1>16 DEF Emit, kernelVars
    <2>2. CASE reader[w].fin = "no"
      <3>1. reader'[w] = [reader[w] EXCEPT !.pc = "check", !.batch = 0]
        BY <1>1, <1>16, <2>2 DEF Emit, HostTypeOK
      <3>2. reader'[w].pc = "check"
        BY <1>1, <3>1 DEF ReaderRecords
      <3> QED
        BY <1>2, <3>2
    <2>3. CASE reader[w].fin # "no"
      <3>1. reader[w].fin = "closed" /\ reader[w].mode = "local"
        BY <1>1, <2>1, <2>3 DEF Good, Whole, Attached, ReaderRecords, Fins
      <3> QED
        BY <1>1, <2>1, <3>1 DEF Good, Whole, Settled, IsHeeded
    <2> QED
      BY <2>2, <2>3
  <1>17. CASE EmitFails(w)
    <2>1. reader[w].pc = "write" /\ size' = size
      BY <1>17 DEF EmitFails
    <2>2. reader[w].run \in Runs
      BY <1>1, <2>1 DEF Good, Bound, Attached, OwnRuns, Runs
    <2>3. CASE reader[w].asked
      BY <1>1, <1>17, <2>3 DEF EmitFails, Good, Whole, Heeded, IsHeeded
    <2>4. CASE ~reader[w].asked
      <3>1. CancelOnce(reader[w].run)
        BY <1>17, <2>4 DEF EmitFails
      <3> QED
        BY <1>1, <2>1, <2>2, <3>1, RowsCancelled
    <2> QED
      BY <2>3, <2>4
  <1>18. CASE LocalPollFails(w)
    BY <1>18 DEF LocalPollFails, IsHeeded
  <1> QED
    BY <1>14, <1>15, <1>16, <1>17, <1>18

(* A WebView stream leaves its run running only when the kernel failed it: *)
(* a poller that ends after its run was started leaves a run that has      *)
(* ended, is deleted or is being cancelled, or of which a cancel or a poll *)
(* failed (poll_loop of tauri-local).                                      *)
THEOREM RunsAreNotAbandoned == HostSpec => NeverAbandoned
  <1>1. ASSUME HostInv, [HostNext]_hostVars
        PROVE  [\A w \in Pollers :
                  Busy(w) /\ reader[w].pc # "starting" /\ reader'[w] = Free =>
                    row'[reader[w].run] # "active"
                      \/ reader[w].run \in unheeded']_hostVars
    BY <1>1, PollerEnds DEF IsHeeded
  <1> QED
    BY <1>1, HostInvHolds, PTL DEF HostSpec, NeverAbandoned

-----------------------------------------------------------------------------
(* The inductive invariant of opens and restores.                          *)

Activating == {"activate_retain", "activate_swap", "activate_done"}
Resolving == {"discard", "retain", "swap", "unmark"}
OpenPcs ==
    {"acquire", "probe", "resolve", "prune", "reacquire", "inspect", "opened"} \cup Resolving
Candidates == Paths \ {Root}

\* What a process is doing, whoever the host is.
Shape(p) ==
    /\ proc[p].job = "none" => proc[p] = Idle
    /\ proc[p].pc = "idle" <=> proc[p].job = "none"
    /\ proc[p].job = "open" => proc[p].target = Root /\ proc[p].pc \in OpenPcs
    /\ proc[p].job = "restore" =>
         /\ proc[p].candidate \in Candidates /\ proc[p].container \in Containers
         /\ proc[p].pc # "opened"
         /\ proc[p].target = IF proc[p].pc \in Activating THEN Root ELSE proc[p].candidate
    /\ proc[p].pc \in Activating \cup {"copy", "checked", "finalize", "activate"} =>
         proc[p].job = "restore"
    /\ proc[p].pc \in Activating => proc[p].found = proc[p].candidate
    /\ proc[p].pc \in {"discard", "retain", "swap"} => proc[p].found \in Candidates
    /\ proc[p].pc \in {"copy", "checked", "finalize", "activate"} =>
         fs[proc[p].candidate] # Absent
    /\ proc[p].pc \in {"probe", "inspect", "checked", "opened"} => proc[p].leased
    /\ proc[p].pc \in Activating
                      \cup {"copy", "acquire", "reacquire", "finalize", "activate"} =>
         ~proc[p].leased

Offline ==
    \A p, q \in Procs : proc[p].job = "restore" => q = p \/ proc[q].pc = "idle"

Db(path) == IF fs[path] = Absent THEN Absent ELSE fs[path].db
PreviousDb == IF previous = <<>> THEN Absent ELSE previous[Len(previous)].db

\* The host the guarantees are for: one process runs while an activation is
\* pending, the marker decides what survives, and the root or the newest
\* previous directory has what the last kernel served.
Lone == marker # Absent =>
    \A p, q \in Procs : q = p \/ proc[p].pc = "idle" \/ proc[q].pc = "idle"

Resolves(p) ==
    /\ proc[p].pc \in Resolving =>
         /\ proc[p].job = "open" /\ ~proc[p].leased
         /\ marker # Absent /\ (proc[p].pc # "unmark" => marker = proc[p].found)
         /\ Ready(marker) <=> proc[p].pc \in {"retain", "swap"}
    /\ proc[p].pc = "resolve" /\ proc[p].leased => marker = Absent
    /\ proc[p].pc \in {"prune", "reacquire", "inspect", "opened"} => marker = Absent
    /\ proc[p].job = "open" /\ proc[p].pc \in {"reacquire", "inspect", "opened"} =>
         Len(previous) <= 1

Restores(p) == proc[p].job = "restore" =>
    /\ proc[p].container \in attempted /\ ~settled
    /\ proc[p].pc \notin Activating =>
         /\ marker = Absent /\ Db(Root) = served
         /\ proc[p].pc # "copy" => Db(proc[p].candidate) = proc[p].container
    /\ proc[p].pc \in Activating =>
         /\ marker = proc[p].candidate
         /\ Ready(marker) <=> proc[p].pc # "activate_done"
         /\ IF proc[p].pc = "activate_done" THEN Db(Root) = proc[p].container
            ELSE Db(marker) = proc[p].container

Holds(p) == proc[p].job = "open" /\ proc[p].leased =>
    fs[Root] # Absent /\ fs[Root].holder = p

Kept ==
    /\ settled => marker = Absent /\ Db(Root) = served
    /\ Db(Root) = served \/ PreviousDb = served
    /\ marker # Absent /\ Ready(marker) /\ Db(Root) # Absent => Db(Root) = served

CarefulInv ==
    /\ \A p \in Procs : Resolves(p) /\ Restores(p) /\ Holds(p)
    /\ Lone /\ Kept /\ Survivor \in {current} \cup attempted

RestoreBase ==
    RestoreTypeOK /\ (\A p \in Procs : Shape(p)) /\ Offline /\ NoStrandedLease
RestoreInv == RestoreBase /\ (CarefulHost => CarefulInv)

ProcRecords ==
    [pc : Staging \cup {"idle", "opened", "finalize", "activate",
           "activate_retain", "activate_swap", "activate_done"},
     job : {"none", "open", "restore"}, target : Paths,
     candidate : Paths \cup {Absent}, found : Paths \cup {Absent},
     leased : BOOLEAN, container : Containers \cup {Absent}]
ProcPcs == Staging \cup {"idle", "opened", "finalize", "activate",
              "activate_retain", "activate_swap", "activate_done"}

LEMMA PathFacts ==
  /\ Root \in Paths /\ Absent \notin Paths /\ Absent \notin Procs
  /\ Absent \notin Databases /\ Candidates \subseteq Paths /\ Root \notin Candidates
  /\ MaxRestores \in Nat
  BY NamesAssumption, RestoreBounds DEF Root, Paths, Databases, Candidates

LEMMA EmptyDirIs ==
  /\ EmptyDir \in Directories /\ EmptyDir # Absent /\ EmptyDir.db = Absent
  /\ EmptyDir.holder = Absent /\ ~EmptyDir.ready
  <1>1. EmptyDir \in Directories
    BY DEF EmptyDir, Directories
  <1>2. EmptyDir.db = Absent /\ EmptyDir.holder = Absent /\ ~EmptyDir.ready
    BY DEF EmptyDir
  <1> QED
    BY <1>1, <1>2, NamesAssumption

LEMMA IdleIs ==
  /\ Idle \in ProcRecords /\ Idle.pc = "idle" /\ Idle.job = "none" /\ Idle.target = Root
  /\ ~Idle.leased
  BY PathFacts DEF Idle, ProcRecords

LEMMA TypeParts ==
  ASSUME RestoreTypeOK, NEW p \in Procs
  PROVE  /\ proc[p] \in ProcRecords /\ proc[p].pc \in ProcPcs /\ proc[p].target \in Paths
         /\ proc[p].leased \in BOOLEAN
         /\ proc \in [Procs -> ProcRecords]
         /\ fs \in [Paths -> Directories \cup {Absent}] /\ previous \in Seq(Directories)
  BY DEF RestoreTypeOK, ProcRecords, ProcPcs

Others(p) == \A q \in Procs \ {p} : proc'[q] = proc[q]

LEMMA ProcSet ==
  ASSUME RestoreTypeOK, NEW p \in Procs, NEW x \in ProcRecords,
         proc' = [proc EXCEPT ![p] = x]
  PROVE  proc' \in [Procs -> ProcRecords] /\ proc'[p] = x /\ Others(p)
  BY TypeParts DEF Others

\* A lock that is dropped leaves the directory as it was.
LEMMA UnlockedIs ==
  ASSUME NEW d \in Directories \cup {Absent}, NEW p \in Procs
  PROVE  /\ Unlocked(d, p) \in Directories \cup {Absent}
         /\ Unlocked(d, p) = Absent <=> d = Absent
         /\ d # Absent => /\ Unlocked(d, p) \in Directories
                          /\ Unlocked(d, p).db = d.db /\ Unlocked(d, p).ready = d.ready
                          /\ Unlocked(d, p).holder # p
                          /\ Unlocked(d, p).holder \in {Absent, d.holder}
                          /\ d.holder # p => Unlocked(d, p) = d
  <1>1. CASE d # Absent /\ d.holder = p
    <2> DEFINE u == [d EXCEPT !.holder = Absent]
    <2>1. d \in Directories /\ Unlocked(d, p) = u
      BY <1>1 DEF Unlocked
    <2>2. u \in Directories /\ u.db = d.db /\ u.ready = d.ready /\ u.holder = Absent
      BY <2>1 DEF Directories
    <2> HIDE DEF u
    <2> QED
      BY <1>1, <2>1, <2>2, NamesAssumption, PathFacts
  <1>2. CASE ~(d # Absent /\ d.holder = p)
    BY <1>2 DEF Unlocked
  <1> QED
    BY <1>1, <1>2

\* What is on the disk, but for the locks.
SameContent ==
    /\ \A path \in Paths : Db(path)' = Db(path) /\ (Ready(path)' <=> Ready(path))
    /\ PreviousDb' = PreviousDb /\ Len(previous') <= Len(previous)
    /\ marker' = marker
\* The locks of the others stay.
LocksOf(p) ==
    \A q \in Procs \ {p} : fs[Root] # Absent /\ fs[Root].holder = q =>
        fs'[Root] # Absent /\ fs'[Root].holder = q
\* Whose locks some directory carries.
Carried(h) ==
    \/ \E path \in Paths : fs[path] # Absent /\ fs[path].holder = h
    \/ \E i \in DOMAIN previous : previous[i].holder = h
LetsGo(p) == \A h \in Procs : Carried(h)' => h # p /\ Carried(h)

LEMMA PreviousReleased ==
  ASSUME RestoreTypeOK, NEW p \in Procs,
         previous' = [i \in DOMAIN previous |-> Unlocked(previous[i], p)]
  PROVE  /\ previous' \in Seq(Directories) /\ Len(previous') = Len(previous)
         /\ DOMAIN previous' = DOMAIN previous /\ PreviousDb' = PreviousDb
         /\ \A i \in DOMAIN previous : previous'[i] = Unlocked(previous[i], p)
  <1>1. previous \in Seq(Directories)
    BY DEF RestoreTypeOK
  <1>2. \A i \in DOMAIN previous : /\ Unlocked(previous[i], p) \in Directories
                                   /\ Unlocked(previous[i], p).db = previous[i].db
    <2>1. \A i \in DOMAIN previous : previous[i] \in Directories /\ previous[i] # Absent
      BY <1>1, NamesAssumption
    <2> QED
      BY <2>1, UnlockedIs
  <1>3. previous' \in Seq(Directories) /\ Len(previous') = Len(previous)
    BY <1>1, <1>2
  <1>4. PreviousDb' = PreviousDb
    <2>1. CASE previous = <<>>
      BY <1>1, <1>3, <2>1 DEF PreviousDb
    <2>2. CASE previous # <<>>
      <3>1. Len(previous) \in DOMAIN previous /\ previous' # <<>>
        BY <1>1, <1>3, <2>2
      <3> QED
        BY <1>2, <1>3, <2>2, <3>1 DEF PreviousDb
    <2> QED
      BY <2>1, <2>2
  <1> QED
    BY <1>3, <1>4

LEMMA ReleaseIs ==
  ASSUME RestoreTypeOK, NEW p \in Procs, Release(p), marker' = marker
  PROVE  /\ fs' \in [Paths -> Directories \cup {Absent}] /\ previous' \in Seq(Directories)
         /\ SameContent /\ LocksOf(p) /\ LetsGo(p)
  <1>1. /\ fs' = [path \in Paths |-> Unlocked(fs[path], p)]
        /\ previous' = [i \in DOMAIN previous |-> Unlocked(previous[i], p)]
    BY DEF Release
  <1>2. fs \in [Paths -> Directories \cup {Absent}] /\ previous \in Seq(Directories)
    BY DEF RestoreTypeOK
  <1>3. /\ previous' \in Seq(Directories) /\ Len(previous') = Len(previous)
        /\ DOMAIN previous' = DOMAIN previous /\ PreviousDb' = PreviousDb
        /\ \A i \in DOMAIN previous : previous'[i] = Unlocked(previous[i], p)
    BY <1>1, PreviousReleased
  <1>4. \A path \in Paths :
          /\ fs'[path] = Unlocked(fs[path], p) /\ fs'[path] \in Directories \cup {Absent}
          /\ fs'[path] = Absent <=> fs[path] = Absent
          /\ fs[path] # Absent =>
               /\ fs'[path].db = fs[path].db /\ fs'[path].ready = fs[path].ready
               /\ fs'[path].holder # p /\ fs'[path].holder \in {Absent, fs[path].holder}
               /\ fs[path].holder # p => fs'[path] = fs[path]
    BY <1>1, <1>2, UnlockedIs
  <1>5. fs' \in [Paths -> Directories \cup {Absent}]
    BY <1>1, <1>4
  <1>6. SameContent
    BY <1>3, <1>4 DEF SameContent, Db, Ready
  <1>7. LocksOf(p)
    BY <1>4, PathFacts DEF LocksOf
  <1>8. LetsGo(p)
    <2>1. \A i \in DOMAIN previous : previous[i] \in Directories /\ previous[i] # Absent
      BY <1>2, NamesAssumption
    <2>2. \A i \in DOMAIN previous : previous'[i].holder \in {Absent, previous[i].holder}
                                     /\ previous'[i].holder # p
      BY <1>3, <2>1, UnlockedIs
    <2> QED
      BY <1>3, <1>4, <2>2, PathFacts DEF LetsGo, Carried
  <1> QED
    BY <1>3, <1>5, <1>6, <1>7, <1>8

LEMMA LeaseStep ==
  ASSUME NoStrandedLease, RestoreTypeOK', NEW p \in Procs, Others(p),
         \A h \in Procs : Carried(h)' => IF h = p THEN proc'[p].leased ELSE Carried(h)
  PROVE  NoStrandedLease'
  <1>1. ASSUME NEW h \in Procs, Carried(h)' PROVE proc'[h].leased
    <2>1. CASE h = p
      BY <1>1, <2>1
    <2>2. CASE h # p
      <3>1. Carried(h) /\ proc'[h] = proc[h]
        BY <1>1, <2>2 DEF Others
      <3> QED
        BY <3>1, PathFacts DEF NoStrandedLease, Carried
    <2> QED
      BY <2>1, <2>2
  <1>2. /\ \A path \in Paths : fs'[path] # Absent /\ fs'[path].holder # Absent =>
             fs'[path].holder \in Procs
        /\ \A i \in DOMAIN previous' : previous'[i].holder # Absent =>
             previous'[i].holder \in Procs
    <2>1. /\ fs' \in [Paths -> Directories \cup {Absent}]
          /\ previous' \in Seq(Directories)
      BY DEF RestoreTypeOK
    <2>2. \A i \in DOMAIN previous' : previous'[i] \in Directories
      BY <2>1
    <2> QED
      BY <2>1, <2>2 DEF Directories
  <1> QED
    BY <1>1, <1>2 DEF NoStrandedLease, Carried

LEMMA BaseStep ==
  ASSUME RestoreBase, RestoreTypeOK', NEW p \in Procs, Others(p),
         proc[p].pc # "idle" \/ \A q \in Procs : proc[q].job # "restore",
         proc'[p].job = "restore" =>
           proc[p].job = "restore" \/ \A q \in Procs : proc[q].pc = "idle",
         proc'[p].pc # "idle" \/ proc'[p] = Idle,
         Shape(p)', NoStrandedLease'
  PROVE  RestoreBase'
  <1>1. ASSUME NEW q \in Procs, q # p
        PROVE  proc[q].job # "restore" \/ proc[p].pc = "idle"
    BY <1>1 DEF RestoreBase, Offline
  <1>2. ASSUME NEW q \in Procs, q # p PROVE Shape(q)'
    <2>1. Shape(q) /\ proc'[q] = proc[q] /\ proc[q].job # "restore"
      BY <1>1, <1>2 DEF RestoreBase, Others
    <2> QED
      BY <2>1 DEF Shape
  <1>3. Offline'
    <2> SUFFICES ASSUME NEW q \in Procs, NEW r \in Procs, proc'[q].job = "restore", r # q
                 PROVE  proc'[r].pc = "idle"
      BY DEF Offline
    <2>1. CASE q = p
      <3>1. proc'[r] = proc[r]
        BY <2>1 DEF Others
      <3> QED
        BY <2>1, <3>1 DEF RestoreBase, Offline
    <2>2. CASE q # p
      <3>1. proc[q].job = "restore"
        BY <2>2 DEF Others
      <3> QED
        BY <1>1, <2>2, <3>1 DEF RestoreBase, Offline
    <2> QED
      BY <2>1, <2>2
  <1> QED
    BY <1>2, <1>3 DEF RestoreBase

\* A step of p that leaves the contents of the disk alone.
LEMMA ContentStep ==
  ASSUME RestoreBase, CarefulInv, NEW p \in Procs, Others(p), SameContent, LocksOf(p),
         UNCHANGED history,
         proc[p].pc # "idle" \/ marker = Absent \/ \A q \in Procs : proc[q].pc = "idle",
         Resolves(p)', Restores(p)', Holds(p)'
  PROVE  CarefulInv'
  <1>1. UNCHANGED <<current, attempted, served, settled, marker>>
    BY DEF history, SameContent
  <1>2. Db(Root)' = Db(Root) /\ (marker # Absent => (Ready(marker)' <=> Ready(marker))
                                                   /\ Db(marker)' = Db(marker))
    BY <1>1, PathFacts DEF SameContent, RestoreBase, RestoreTypeOK
  <1>3. ASSUME NEW q \in Procs, q # p PROVE Resolves(q)' /\ Restores(q)' /\ Holds(q)'
    <2>1. Resolves(q) /\ Restores(q) /\ Holds(q) /\ Shape(q) /\ proc'[q] = proc[q]
      BY <1>3 DEF CarefulInv, RestoreBase, Others
    <2>2. Resolves(q)'
      BY <1>1, <1>2, <2>1 DEF Resolves, SameContent
    <2>3. Restores(q)'
      <3>1. proc[q].job = "restore" =>
              Db(proc[q].candidate)' = Db(proc[q].candidate) /\ marker' = marker
        BY <1>1, <2>1, PathFacts DEF Shape, SameContent
      <3> QED
        BY <1>1, <1>2, <2>1, <3>1, PathFacts DEF Restores, Shape
    <2>4. Holds(q)'
      BY <1>3, <2>1 DEF Holds, LocksOf
    <2> QED
      BY <2>2, <2>3, <2>4
  <1>4. Lone'
    BY <1>1 DEF CarefulInv, Lone, Others
  <1>5. Kept'
    BY <1>1, <1>2 DEF CarefulInv, Kept, SameContent
  <1>6. Survivor' \in {current'} \cup attempted'
    <2>1. Survivor = (IF marker # Absent /\ Ready(marker) THEN Db(marker) ELSE Db(Root))
      BY DEF Survivor, Db, Ready
    <2>2. Survivor' = (IF marker' # Absent /\ Ready(marker)' THEN Db(marker)' ELSE Db(Root)')
      BY DEF Survivor, Db, Ready
    <2> QED
      BY <1>1, <1>2, <2>1, <2>2 DEF CarefulInv
  <1> QED
    BY <1>3, <1>4, <1>5, <1>6 DEF CarefulInv

\* A step of a process that is the only one.
LEMMA LoneStep ==
  ASSUME RestoreBase, NEW p \in Procs, Others(p),
         \A q \in Procs \ {p} : proc[q].pc = "idle",
         Resolves(p)', Restores(p)', Holds(p)', Kept', Survivor' \in {current'} \cup attempted'
  PROVE  CarefulInv'
  <1>1. ASSUME NEW q \in Procs, q # p
        PROVE  Resolves(q)' /\ Restores(q)' /\ Holds(q)' /\ proc'[q].pc = "idle"
    <2>1. proc'[q].pc = "idle" /\ proc'[q].job = "none"
      BY <1>1 DEF Others, RestoreBase, Shape
    <2> QED
      BY <2>1 DEF Resolves, Restores, Holds, Resolving, Activating
  <1>2. Lone'
    BY <1>1 DEF Lone
  <1> QED
    BY <1>1, <1>2 DEF CarefulInv

-----------------------------------------------------------------------------
(* Steps of opens and restores that leave the contents of the disk alone.  *)

LEMMA IdleShape ==
  ASSUME NEW p \in Procs, proc'[p] = Idle
  PROVE  Shape(p)' /\ Resolves(p)' /\ Restores(p)' /\ Holds(p)' /\ ~proc'[p].leased
  BY IdleIs DEF Shape, Resolves, Restores, Holds, OpenPcs, Resolving, Activating

\* A process that lets its lock go.
LEMMA DropStep ==
  ASSUME RestoreInv, NEW p \in Procs, Release(p), UNCHANGED <<marker, history, host>>,
         killed' \in Nat, faulted' \in Nat, restores' \in Nat,
         proc' \in [Procs -> ProcRecords], Others(p), ~proc'[p].leased,
         proc[p].pc # "idle", proc'[p].job \in {"none", proc[p].job},
         proc'[p].pc # "idle" \/ proc'[p] = Idle, Shape(p)',
         CarefulHost => Resolves(p)' /\ Restores(p)'
  PROVE  RestoreInv'
  <1>1. RestoreBase /\ RestoreTypeOK /\ NoStrandedLease
    BY DEF RestoreInv, RestoreBase
  <1>2. /\ fs' \in [Paths -> Directories \cup {Absent}] /\ previous' \in Seq(Directories)
        /\ SameContent /\ LocksOf(p) /\ LetsGo(p)
    BY <1>1, ReleaseIs
  <1>3. RestoreTypeOK'
    BY <1>1, <1>2 DEF RestoreTypeOK, ProcRecords, history
  <1>4. NoStrandedLease'
    BY <1>1, <1>2, <1>3, LeaseStep DEF LetsGo
  <1>5. RestoreBase'
    BY <1>1, <1>3, <1>4, BaseStep
  <1>6. CarefulHost' => CarefulInv'
    <2>1. Holds(p)'
      BY DEF Holds
    <2> QED
      BY <1>1, <1>2, <2>1, ContentStep DEF RestoreInv, CarefulHost
  <1> QED
    BY <1>5, <1>6 DEF RestoreInv

\* A process that ends, and lets its lock go.
LEMMA EndStep ==
  ASSUME RestoreInv, NEW p \in Procs, Release(p), UNCHANGED <<marker, history, host>>,
         killed' \in Nat, faulted' \in Nat, restores' \in Nat,
         proc' = [proc EXCEPT ![p] = Idle], proc[p].pc # "idle"
  PROVE  RestoreInv'
  <1>1. proc' \in [Procs -> ProcRecords] /\ proc'[p] = Idle /\ Others(p)
    BY IdleIs, ProcSet DEF RestoreInv, RestoreBase
  <1> QED
    BY <1>1, IdleIs, IdleShape, DropStep

LEMMA BudgetsTyped ==
  ASSUME RestoreInv
  PROVE  /\ killed \in Nat /\ faulted \in Nat /\ restores \in Nat
         /\ RestoreBase /\ RestoreTypeOK /\ NoStrandedLease
  BY DEF RestoreInv, RestoreBase, RestoreTypeOK

LEMMA FailedKeeps ==
  ASSUME RestoreInv, NEW p \in Procs, Failed(p), proc[p].pc # "idle", host' = host,
         killed' \in Nat, faulted' \in Nat, restores' \in Nat
  PROVE  RestoreInv'
  <1>1. proc' = [proc EXCEPT ![p] = Idle] /\ UNCHANGED <<marker, history>>
    BY DEF Failed
  <1>2. CASE ~(proc[p].job = "restore" /\ proc[p].pc \in Staging)
    <2>1. Release(p)
      BY <1>2 DEF Failed
    <2> QED
      BY <1>1, <2>1, EndStep
  <1>3. CASE proc[p].job = "restore" /\ proc[p].pc \in Staging
    <2> DEFINE c == proc[p].candidate
    <2>1. /\ fs' = [path \in Paths |-> IF path = c THEN Absent ELSE Unlocked(fs[path], p)]
          /\ previous' = [i \in DOMAIN previous |-> Unlocked(previous[i], p)]
      BY <1>3 DEF Failed
    <2>2. RestoreBase /\ RestoreTypeOK /\ NoStrandedLease /\ Shape(p)
      BY DEF RestoreInv, RestoreBase
    <2>3. proc' \in [Procs -> ProcRecords] /\ proc'[p] = Idle /\ Others(p)
      BY <1>1, <2>2, IdleIs, ProcSet
    <2>4. c \in Candidates /\ c # Root /\ proc[p].pc \notin Activating
      BY <1>3, <2>2, PathFacts DEF Shape, Staging, Activating
    <2>5. /\ fs \in [Paths -> Directories \cup {Absent}] /\ previous \in Seq(Directories)
          /\ previous' \in Seq(Directories) /\ Len(previous') = Len(previous)
          /\ DOMAIN previous' = DOMAIN previous /\ PreviousDb' = PreviousDb
          /\ \A i \in DOMAIN previous : previous'[i] = Unlocked(previous[i], p)
      BY <2>1, <2>2, PreviousReleased, TypeParts
    <2>6. \A path \in Paths :
            /\ fs'[path] \in Directories \cup {Absent}
            /\ path # c => /\ fs'[path] = Absent <=> fs[path] = Absent
                           /\ fs[path] # Absent => fs'[path].db = fs[path].db
            /\ fs'[path] # Absent => /\ fs[path] # Absent /\ fs'[path].holder # p
                                     /\ fs'[path].holder \in {Absent, fs[path].holder}
      <3> SUFFICES ASSUME NEW path \in Paths
                   PROVE  /\ fs'[path] \in Directories \cup {Absent}
                          /\ path # c => /\ fs'[path] = Absent <=> fs[path] = Absent
                                         /\ fs[path] # Absent => fs'[path].db = fs[path].db
                          /\ fs'[path] # Absent =>
                               /\ fs[path] # Absent /\ fs'[path].holder # p
                               /\ fs'[path].holder \in {Absent, fs[path].holder}
        OBVIOUS
      <3>1. CASE path = c
        BY <2>1, <3>1
      <3>2. CASE path # c
        <4>1. fs'[path] = Unlocked(fs[path], p) /\ fs[path] \in Directories \cup {Absent}
          BY <2>1, <2>5, <3>2
        <4> QED
          BY <3>2, <4>1, UnlockedIs
      <3> QED
        BY <3>1, <3>2
    <2>7. RestoreTypeOK'
      <3>1. fs' \in [Paths -> Directories \cup {Absent}]
        BY <2>1, <2>6
      <3> QED
        BY <1>1, <2>2, <2>3, <2>5, <3>1 DEF RestoreTypeOK, ProcRecords, history
    <2>8. \A h \in Procs : Carried(h)' => h # p /\ Carried(h)
      <3>1. \A i \in DOMAIN previous : previous'[i].holder \in {Absent, previous[i].holder}
                                       /\ previous'[i].holder # p
        <4>1. \A i \in DOMAIN previous : previous[i] \in Directories /\ previous[i] # Absent
          BY <2>5, NamesAssumption
        <4> QED
          BY <2>5, <4>1, UnlockedIs
      <3> QED
        BY <2>5, <2>6, <3>1, PathFacts DEF Carried
    <2>9. NoStrandedLease'
      BY <2>2, <2>3, <2>7, <2>8, LeaseStep
    <2>10. Shape(p)' /\ Resolves(p)' /\ Restores(p)' /\ Holds(p)' /\ proc'[p].job = "none"
      BY <2>3, IdleShape, IdleIs
    <2>11. RestoreBase'
      BY <2>2, <2>3, <2>7, <2>9, <2>10, BaseStep
    <2>12. ASSUME CarefulHost PROVE CarefulInv'
      <3>1. CarefulInv
        BY <2>12 DEF RestoreInv
      <3>2. marker = Absent /\ marker' = Absent /\ Db(Root) = served /\ ~settled
        BY <1>1, <1>3, <2>4, <3>1 DEF CarefulInv, Restores
      <3>3. Db(Root)' = Db(Root)
        BY <2>4, <2>6, PathFacts DEF Db
      <3>4. Kept'
        BY <1>1, <3>2, <3>3 DEF Kept, history
      <3>5. Survivor' \in {current'} \cup attempted'
        BY <1>1, <3>1, <3>2, <3>3 DEF CarefulInv, Survivor, Db, history
      <3>6. \A q \in Procs \ {p} : proc[q].pc = "idle"
        BY <1>3, <2>2 DEF RestoreBase, Offline
      <3> QED
        BY <2>2, <2>3, <2>10, <3>4, <3>5, <3>6, LoneStep
    <2> QED
      BY <2>11, <2>12 DEF RestoreInv, CarefulHost
  <1> QED
    BY <1>2, <1>3

LEMMA ProcessEnds ==
  ASSUME RestoreInv, NEW p \in Procs,
         DataRootInUse(p) \/ SwapFails(p) \/ InstallFails(p) \/ Fault(p)
           \/ KillProcess(p) \/ Close(p)
  PROVE  RestoreInv'
  <1>1. CASE KillProcess(p) \/ Close(p)
    BY <1>1, BudgetsTyped, EndStep DEF KillProcess, Close, ProcAt, restoreBudgets
  <1>2. CASE ~(KillProcess(p) \/ Close(p))
    BY <1>2, BudgetsTyped, FailedKeeps
    DEF DataRootInUse, SwapFails, InstallFails, Fault, ProcAt, restoreBudgets
  <1> QED
    BY <1>1, <1>2

\* The record of a process with some of its fields changed.
AtPc(pr, c) == [pr EXCEPT !.pc = c]

LEMMA ProcPc ==
  ASSUME NEW pr \in ProcRecords, NEW c \in ProcPcs
  PROVE  LET x == AtPc(pr, c)
         IN  /\ x \in ProcRecords /\ x.pc = c /\ x.job = pr.job /\ x.target = pr.target
             /\ x.candidate = pr.candidate /\ x.found = pr.found
             /\ x.leased = pr.leased /\ x.container = pr.container
  BY DEF ProcRecords, ProcPcs, AtPc

AtLeased(pr, c, l) == [pr EXCEPT !.pc = c, !.leased = l]

LEMMA ProcLeased ==
  ASSUME NEW pr \in ProcRecords, NEW c \in ProcPcs, NEW l \in BOOLEAN
  PROVE  LET x == AtLeased(pr, c, l)
         IN  /\ x \in ProcRecords /\ x.pc = c /\ x.job = pr.job /\ x.target = pr.target
             /\ x.candidate = pr.candidate /\ x.found = pr.found
             /\ x.leased = l /\ x.container = pr.container
  BY DEF ProcRecords, ProcPcs, AtLeased

AtFound(pr, c, f) == [pr EXCEPT !.pc = c, !.found = f]

LEMMA ProcFound ==
  ASSUME NEW pr \in ProcRecords, NEW c \in ProcPcs, NEW f \in Paths \cup {Absent}
  PROVE  LET x == AtFound(pr, c, f)
         IN  /\ x \in ProcRecords /\ x.pc = c /\ x.job = pr.job /\ x.target = pr.target
             /\ x.candidate = pr.candidate /\ x.found = f
             /\ x.leased = pr.leased /\ x.container = pr.container
  BY DEF ProcRecords, ProcPcs, AtFound

AtTarget(pr, c, t, f) == [pr EXCEPT !.pc = c, !.target = t, !.found = f]

LEMMA ProcTarget ==
  ASSUME NEW pr \in ProcRecords, NEW c \in ProcPcs, NEW t \in Paths,
         NEW f \in Paths \cup {Absent}
  PROVE  LET x == AtTarget(pr, c, t, f)
         IN  /\ x \in ProcRecords /\ x.pc = c /\ x.job = pr.job /\ x.target = t
             /\ x.candidate = pr.candidate /\ x.found = f
             /\ x.leased = pr.leased /\ x.container = pr.container
  BY DEF ProcRecords, ProcPcs, AtTarget


LEMMA SameDisk ==
  ASSUME UNCHANGED disk, NEW p \in Procs
  PROVE  SameContent /\ LocksOf(p) /\ \A h \in Procs : Carried(h)' <=> Carried(h)
  BY DEF disk, SameContent, LocksOf, Carried, Db, Ready, PreviousDb

\* A step that changes only the record of a process that goes on.
LEMMA RecordStep ==
  ASSUME RestoreInv, NEW p \in Procs, NEW x \in ProcRecords, UNCHANGED <<disk, history>>,
         UNCHANGED restoreBudgets,
         proc' = [proc EXCEPT ![p] = x], x.leased = proc[p].leased, x.job = proc[p].job,
         proc[p].pc # "idle", x.pc # "idle", Shape(p)',
         CarefulHost => Resolves(p)' /\ Restores(p)'
  PROVE  RestoreInv'
  <1>1. RestoreBase /\ RestoreTypeOK /\ NoStrandedLease
    BY DEF RestoreInv, RestoreBase
  <1>2. proc' \in [Procs -> ProcRecords] /\ proc'[p] = x /\ Others(p)
    BY <1>1, ProcSet
  <1>3. RestoreTypeOK'
    BY <1>1, <1>2 DEF RestoreTypeOK, ProcRecords, disk, history, restoreBudgets
  <1>4. NoStrandedLease'
    <2>1. \A h \in Procs : Carried(h)' => Carried(h)
      BY SameDisk
    <2>2. Carried(p) => proc[p].leased
      BY <1>1, PathFacts DEF NoStrandedLease, Carried
    <2> QED
      BY <1>1, <1>2, <1>3, <2>1, <2>2, LeaseStep
  <1>5. RestoreBase'
    BY <1>1, <1>2, <1>3, <1>4, BaseStep
  <1>6. CarefulHost' => CarefulInv'
    <2>1. CarefulHost => Holds(p)'
      BY <1>2 DEF RestoreInv, CarefulInv, Holds, disk
    <2> QED
      BY <1>1, <1>2, <2>1, SameDisk, ContentStep DEF RestoreInv, CarefulHost, restoreBudgets
  <1> QED
    BY <1>5, <1>6 DEF RestoreInv

LEMMA OpenBeginKeeps ==
  ASSUME RestoreInv, NEW p \in Procs, OpenBegin(p)
  PROVE  RestoreInv'
  <1> DEFINE a == "acquire"
             j == "open"
             x == [Idle EXCEPT !.pc = a, !.job = j]
  <1>1. RestoreBase /\ RestoreTypeOK /\ NoStrandedLease
    BY DEF RestoreInv, RestoreBase
  <1>2. /\ proc[p].pc = "idle" /\ MayOpen(p) /\ proc' = [proc EXCEPT ![p] = x]
        /\ UNCHANGED <<disk, history, restoreBudgets>>
    BY DEF OpenBegin, ProcAt
  <1>3. a \in ProcPcs /\ a = "acquire" /\ j \in {"none", "open", "restore"} /\ j = "open"
    BY DEF ProcPcs, Staging
  <1> HIDE DEF a, j
  <1>4. x \in ProcRecords /\ x.pc = a /\ x.job = j /\ x.target = Idle.target
        /\ x.leased = Idle.leased
    BY <1>3, IdleIs DEF ProcRecords, ProcPcs
  <1> HIDE DEF x
  <1>5. proc' \in [Procs -> ProcRecords] /\ proc'[p] = x /\ Others(p)
    BY <1>1, <1>2, <1>4, ProcSet
  <1>6. RestoreTypeOK'
    BY <1>1, <1>2, <1>5 DEF RestoreTypeOK, ProcRecords, disk, history, restoreBudgets
  <1>7. Shape(p)' /\ Resolves(p)' /\ Restores(p)' /\ Holds(p)'
    BY <1>3, <1>4, <1>5, IdleIs
    DEF Shape, Resolves, Restores, Holds, OpenPcs, Resolving, Activating
  <1>8. \A q \in Procs : proc[q].job # "restore"
    BY <1>2 DEF MayOpen
  <1>9. proc[p].leased = FALSE
    BY <1>1, <1>2, IdleIs DEF RestoreBase, Shape
  <1>10. NoStrandedLease'
    <2>1. \A h \in Procs : Carried(h)' => Carried(h)
      BY <1>2, SameDisk
    <2>2. ~Carried(p)
      BY <1>1, <1>9, PathFacts DEF NoStrandedLease, Carried
    <2> QED
      BY <1>1, <1>5, <1>6, <2>1, <2>2, LeaseStep
  <1>11. RestoreBase'
    BY <1>1, <1>3, <1>4, <1>5, <1>6, <1>7, <1>8, <1>10, BaseStep
  <1>12. CarefulHost' => CarefulInv'
    <2>1. CarefulHost => marker = Absent \/ \A q \in Procs : proc[q].pc = "idle"
      BY <1>2 DEF MayOpen, CarefulHost, ProcAt
    <2> QED
      BY <1>1, <1>2, <1>5, <1>7, <2>1, SameDisk, ContentStep
      DEF RestoreInv, CarefulHost, restoreBudgets
  <1> QED
    BY <1>11, <1>12 DEF RestoreInv

LEMMA ReadMarkerKeeps ==
  ASSUME RestoreInv, NEW p \in Procs, ReadMarker(p)
  PROVE  RestoreInv'
  <1> DEFINE c == IF marker = Absent THEN "prune"
                  ELSE IF Ready(marker) THEN "retain" ELSE "discard"
             x == AtFound(proc[p], c, marker)
  <1>1. /\ RestoreBase /\ RestoreTypeOK /\ Shape(p) /\ proc[p] \in ProcRecords
        /\ marker \in Candidates \cup {Absent}
    BY TypeParts DEF RestoreInv, RestoreBase, RestoreTypeOK, Candidates
  <1>2. /\ proc[p].pc = "resolve" /\ UNCHANGED <<disk, history, restoreBudgets>>
        /\ proc' = [proc EXCEPT ![p] = x]
    BY DEF ReadMarker, ProcAt, AtFound
  <1>3. /\ c \in {"prune", "retain", "discard"} /\ (c = "prune" <=> marker = Absent)
        /\ (c = "retain" => Ready(marker)) /\ (c = "discard" => ~Ready(marker))
    OBVIOUS
  <1> HIDE DEF c
  <1>4. c \in ProcPcs
    BY <1>3 DEF ProcPcs, Staging
  <1>5. marker \in Paths \cup {Absent}
    BY <1>1, PathFacts
  <1>6. /\ x \in ProcRecords /\ x.pc = c /\ x.job = proc[p].job /\ x.target = proc[p].target
        /\ x.candidate = proc[p].candidate /\ x.found = marker
        /\ x.leased = proc[p].leased /\ x.container = proc[p].container
    BY <1>1, <1>4, <1>5, ProcFound
  <1> HIDE DEF x
  <1>7. proc'[p] = x /\ UNCHANGED <<fs, previous, marker>>
    BY <1>1, <1>2, <1>6, ProcSet DEF disk
  <1>8. Shape(p)'
    BY <1>1, <1>2, <1>3, <1>6, <1>7 DEF Shape, OpenPcs, Resolving, Activating
  <1>9. ASSUME CarefulHost PROVE Resolves(p)' /\ Restores(p)'
    <2>1. Resolves(p) /\ Restores(p)
      BY <1>9 DEF RestoreInv, CarefulInv
    <2>2. proc[p].job = "restore" => marker = Absent
      BY <1>2, <2>1 DEF Restores, Activating
    <2>3. marker # Absent => proc[p].job = "open" /\ ~proc[p].leased
      BY <1>1, <1>2, <2>1, <2>2 DEF Resolves, Shape, ProcRecords
    <2>4. Resolves(p)'
      BY <1>2, <1>3, <1>6, <1>7, <2>3 DEF Resolves, Resolving, Ready
    <2>5. Restores(p)'
      BY <1>2, <1>3, <1>6, <1>7, <2>1 DEF Restores, Activating, Db, Ready, history
    <2> QED
      BY <2>4, <2>5
  <1> QED
    BY <1>2, <1>3, <1>6, <1>8, <1>9, RecordStep

LEMMA ProbeMarkerKeeps ==
  ASSUME RestoreInv, NEW p \in Procs, ProbeMarker(p)
  PROVE  RestoreInv'
  <1>1. /\ RestoreBase /\ RestoreTypeOK /\ Shape(p) /\ proc[p] \in ProcRecords
    BY TypeParts DEF RestoreInv, RestoreBase, RestoreTypeOK
  <1>2. /\ proc[p].pc = "probe" /\ UNCHANGED <<marker, history, restoreBudgets>>
    BY DEF ProbeMarker, ProcAt
  <1>3. CASE marker # Absent
    <2> DEFINE x == AtLeased(proc[p], "resolve", FALSE)
    <2>1. Release(p) /\ proc' = [proc EXCEPT ![p] = x]
      BY <1>3 DEF ProbeMarker, AtLeased
    <2>2. "resolve" \in ProcPcs
      BY DEF ProcPcs, Staging
    <2>3. /\ x \in ProcRecords /\ x.pc = "resolve" /\ x.job = proc[p].job
          /\ x.target = proc[p].target
          /\ x.candidate = proc[p].candidate /\ x.found = proc[p].found
          /\ x.leased = FALSE /\ x.container = proc[p].container
      BY <1>1, <2>2, ProcLeased
    <2> HIDE DEF x
    <2>4. proc' \in [Procs -> ProcRecords] /\ proc'[p] = x /\ Others(p)
      BY <1>1, <2>1, <2>3, ProcSet
    <2>5. Shape(p)'
      BY <1>1, <1>2, <2>3, <2>4 DEF Shape, OpenPcs, Resolving, Activating
    <2>6. ASSUME CarefulHost PROVE Resolves(p)' /\ Restores(p)'
      <3>1. proc[p].job # "restore"
        BY <1>2, <1>3, <2>6 DEF RestoreInv, CarefulInv, Restores, Activating
      <3> QED
        BY <2>3, <2>4, <3>1 DEF Resolves, Restores, Resolving
    <2> QED
      BY <1>1, <1>2, <2>1, <2>3, <2>4, <2>5, <2>6, BudgetsTyped, DropStep DEF restoreBudgets
  <1>4. CASE marker = Absent
    <2> DEFINE x == AtPc(proc[p], "resolve")
    <2>1. UNCHANGED disk /\ proc' = [proc EXCEPT ![p] = x]
      BY <1>2, <1>4 DEF ProbeMarker, Goto, AtPc, disk
    <2>2. "resolve" \in ProcPcs
      BY DEF ProcPcs, Staging
    <2>3. /\ x \in ProcRecords /\ x.pc = "resolve" /\ x.job = proc[p].job
          /\ x.target = proc[p].target
          /\ x.candidate = proc[p].candidate /\ x.found = proc[p].found
          /\ x.leased = proc[p].leased /\ x.container = proc[p].container
      BY <1>1, <2>2, ProcPc
    <2> HIDE DEF x
    <2>4. proc'[p] = x /\ UNCHANGED <<fs, previous, marker>>
      BY <1>1, <2>1, <2>3, ProcSet DEF disk
    <2>5. Shape(p)'
      BY <1>1, <1>2, <2>3, <2>4 DEF Shape, OpenPcs, Resolving, Activating
    <2>6. ASSUME CarefulHost PROVE Resolves(p)' /\ Restores(p)'
      <3>1. Resolves(p) /\ Restores(p)
        BY <2>6 DEF RestoreInv, CarefulInv
      <3> QED
        BY <1>2, <1>4, <2>3, <2>4, <3>1
        DEF Resolves, Restores, Resolving, Activating, Db, history
    <2> QED
      BY <1>2, <2>1, <2>3, <2>5, <2>6, RecordStep
  <1> QED
    BY <1>3, <1>4

LEMMA CloseCandidateKeeps ==
  ASSUME RestoreInv, NEW p \in Procs, CloseCandidate(p)
  PROVE  RestoreInv'
  <1> DEFINE x == AtLeased(proc[p], "finalize", FALSE)
  <1>1. /\ RestoreBase /\ RestoreTypeOK /\ Shape(p) /\ proc[p] \in ProcRecords
    BY TypeParts DEF RestoreInv, RestoreBase, RestoreTypeOK
  <1>2. /\ proc[p].pc = "checked" /\ UNCHANGED <<marker, history, restoreBudgets>>
        /\ Release(p) /\ proc' = [proc EXCEPT ![p] = x]
    BY DEF CloseCandidate, ProcAt, AtLeased
  <1>3. /\ x \in ProcRecords /\ x.pc = "finalize" /\ x.job = proc[p].job
        /\ x.target = proc[p].target
        /\ x.candidate = proc[p].candidate /\ x.found = proc[p].found
        /\ x.leased = FALSE /\ x.container = proc[p].container
    <2>1. "finalize" \in ProcPcs
      BY DEF ProcPcs
    <2> QED
      BY <1>1, <2>1, ProcLeased
  <1> HIDE DEF x
  <1>4. proc' \in [Procs -> ProcRecords] /\ proc'[p] = x /\ Others(p)
    BY <1>1, <1>2, <1>3, ProcSet
  <1>5. proc[p].job = "restore" /\ proc[p].candidate \in Candidates
        /\ fs[proc[p].candidate] # Absent
    BY <1>1, <1>2 DEF Shape
  <1>6. fs'[proc[p].candidate] # Absent /\ SameContent
    <2>1. fs'[proc[p].candidate] = Unlocked(fs[proc[p].candidate], p)
      BY <1>2, <1>5, PathFacts DEF Release
    <2>2. fs[proc[p].candidate] \in Directories \cup {Absent}
      BY <1>1, <1>5, PathFacts, TypeParts
    <2> QED
      BY <1>1, <1>2, <1>5, <2>1, <2>2, UnlockedIs, ReleaseIs
  <1>7. Shape(p)'
    BY <1>1, <1>2, <1>3, <1>4, <1>5, <1>6 DEF Shape, OpenPcs, Resolving, Activating
  <1>8. ASSUME CarefulHost PROVE Resolves(p)' /\ Restores(p)'
    <2>1. Resolves(p) /\ Restores(p)
      BY <1>8 DEF RestoreInv, CarefulInv
    <2>2. Db(proc[p].candidate)' = Db(proc[p].candidate) /\ Db(Root)' = Db(Root)
      BY <1>4, <1>3, <1>5, <1>6, PathFacts DEF SameContent
    <2> QED
      BY <1>2, <1>3, <1>4, <1>5, <2>1, <2>2
      DEF Resolves, Restores, Resolving, Activating, history
  <1> QED
    BY <1>1, <1>2, <1>3, <1>4, <1>7, <1>8, BudgetsTyped, DropStep DEF restoreBudgets

LEMMA LockedIs ==
  ASSUME RestoreTypeOK, NEW path \in Paths, NEW p \in Procs
  PROVE  /\ Locked(path, p) \in Directories /\ Locked(path, p) # Absent
         /\ Locked(path, p).holder = p /\ Locked(path, p).db = Db(path)
         /\ Locked(path, p).ready /\ Locked(path, p).db # Absent <=> Ready(path)
  <1> DEFINE d == IF fs[path] = Absent THEN EmptyDir ELSE fs[path]
             u == [d EXCEPT !.holder = p]
  <1>1. Locked(path, p) = u
    BY DEF Locked
  <1>2. d \in Directories /\ d.db = Db(path) /\ (d.ready /\ d.db # Absent <=> Ready(path))
    BY EmptyDirIs, TypeParts DEF Db, Ready
  <1> HIDE DEF d
  <1>3. u \in Directories /\ u.holder = p /\ u.db = d.db /\ u.ready = d.ready
    BY <1>2 DEF Directories
  <1> HIDE DEF u
  <1> QED
    BY <1>1, <1>2, <1>3, NamesAssumption

LEMMA AcquireKeeps ==
  ASSUME RestoreInv, NEW p \in Procs,
         NEW c \in {"acquire", "reacquire"}, NEW n \in {"probe", "inspect"},
         Acquire(p, c, n), c = "acquire" <=> n = "probe"
  PROVE  RestoreInv'
  <1> DEFINE x == AtLeased(proc[p], n, TRUE)
             t == proc[p].target
  <1>1. /\ RestoreBase /\ RestoreTypeOK /\ NoStrandedLease /\ Shape(p)
        /\ proc[p] \in ProcRecords /\ t \in Paths
        /\ fs \in [Paths -> Directories \cup {Absent}]
    BY TypeParts DEF RestoreInv, RestoreBase, RestoreTypeOK
  <1>2. /\ proc[p].pc = c /\ UNCHANGED <<previous, marker, history, restoreBudgets>>
        /\ Lockable(t) /\ fs' = [fs EXCEPT ![t] = Locked(t, p)]
        /\ proc' = [proc EXCEPT ![p] = x]
    BY DEF Acquire, ProcAt, AtLeased
  <1>3. /\ x \in ProcRecords /\ x.pc = n /\ x.job = proc[p].job
        /\ x.target = proc[p].target
        /\ x.candidate = proc[p].candidate /\ x.found = proc[p].found
        /\ x.leased = TRUE /\ x.container = proc[p].container
    <2>1. n \in ProcPcs
      BY DEF ProcPcs, Staging
    <2> QED
      BY <1>1, <2>1, ProcLeased
  <1> HIDE DEF x
  <1>4. proc' \in [Procs -> ProcRecords] /\ proc'[p] = x /\ Others(p)
    BY <1>1, <1>2, <1>3, ProcSet
  <1>5. /\ Locked(t, p) \in Directories /\ Locked(t, p) # Absent
        /\ Locked(t, p).holder = p /\ Locked(t, p).db = Db(t)
        /\ Locked(t, p).ready /\ Locked(t, p).db # Absent <=> Ready(t)
    BY <1>1, LockedIs
  <1>6. /\ fs' \in [Paths -> Directories \cup {Absent}] /\ fs'[t] = Locked(t, p)
        /\ \A path \in Paths : path # t => fs'[path] = fs[path]
    BY <1>1, <1>2, <1>5
  <1>7. SameContent
    BY <1>2, <1>5, <1>6 DEF SameContent, Db, Ready, PreviousDb
  <1>8. LocksOf(p)
    BY <1>1, <1>2, <1>6, PathFacts DEF LocksOf, Lockable
  <1>9. \A h \in Procs : Carried(h)' => h = p \/ Carried(h)
    BY <1>2, <1>5, <1>6 DEF Carried
  <1>10. RestoreTypeOK'
    BY <1>1, <1>2, <1>4, <1>6 DEF RestoreTypeOK, ProcRecords, history, restoreBudgets
  <1>11. NoStrandedLease'
    BY <1>1, <1>3, <1>4, <1>9, <1>10, LeaseStep
  <1>12. proc[p].job \in {"open", "restore"}
    BY <1>1, <1>2 DEF Shape, ProcRecords
  <1>13. Shape(p)'
    BY <1>1, <1>2, <1>3, <1>4, <1>12 DEF Shape, OpenPcs, Resolving, Activating
  <1>14. RestoreBase'
    BY <1>1, <1>2, <1>3, <1>4, <1>10, <1>11, <1>13, BaseStep
  <1>15. ASSUME CarefulHost PROVE CarefulInv'
    <2>1. CarefulInv /\ Resolves(p) /\ Restores(p)
      BY <1>15 DEF RestoreInv, CarefulInv
    <2>2. Holds(p)'
      BY <1>1, <1>3, <1>4, <1>5, <1>6 DEF Holds, Shape
    <2>3. Resolves(p)'
      BY <1>2, <1>3, <1>4, <2>1 DEF Resolves, Resolving
    <2>4. Restores(p)'
      <3>1. proc[p].job = "restore" =>
              Db(proc[p].candidate)' = Db(proc[p].candidate) /\ Db(Root)' = Db(Root)
        BY <1>1, <1>3, <1>4, <1>7, PathFacts DEF Shape, SameContent
      <3> QED
        BY <1>2, <1>3, <1>4, <2>1, <3>1 DEF Restores, Activating, history
    <2> QED
      BY <1>1, <1>2, <1>4, <1>7, <1>8, <2>1, <2>2, <2>3, <2>4, ContentStep
  <1> QED
    BY <1>14, <1>15, <1>2 DEF RestoreInv, CarefulHost, restoreBudgets

-----------------------------------------------------------------------------
(* Steps of opens and restores that change the disk.                       *)

\* Any step of p that gives no directory a new lock.
LEMMA DiskStep ==
  ASSUME RestoreInv, NEW p \in Procs, NEW x \in ProcRecords,
         proc' = [proc EXCEPT ![p] = x],
         fs' \in [Paths -> Directories \cup {Absent}], previous' \in Seq(Directories),
         marker' \in Candidates \cup {Absent},
         UNCHANGED <<host, killed, faulted>>, restores' \in Nat,
         taken' \subseteq Containers, current' \in Databases, served' \in Databases,
         attempted' \subseteq Containers, settled' \in BOOLEAN,
         \A h \in Procs : Carried(h)' => Carried(h),
         proc[p].pc # "idle" \/ \A q \in Procs : proc[q].job # "restore",
         x.job = "restore" => proc[p].job = "restore" \/ \A q \in Procs : proc[q].pc = "idle",
         x.leased = proc[p].leased, x.pc # "idle" \/ x = Idle, Shape(p)',
         CarefulHost => CarefulInv'
  PROVE  RestoreInv'
  <1>1. RestoreBase /\ RestoreTypeOK /\ NoStrandedLease
    BY DEF RestoreInv, RestoreBase
  <1>2. proc' \in [Procs -> ProcRecords] /\ proc'[p] = x /\ Others(p)
    BY <1>1, ProcSet
  <1>3. RestoreTypeOK'
    BY <1>1, <1>2 DEF RestoreTypeOK, ProcRecords, Candidates
  <1>4. NoStrandedLease'
    <2>1. Carried(p) => proc[p].leased
      BY <1>1, PathFacts DEF NoStrandedLease, Carried
    <2> QED
      BY <1>1, <1>2, <1>3, <2>1, LeaseStep
  <1>5. RestoreBase'
    BY <1>1, <1>2, <1>3, <1>4, BaseStep
  <1> QED
    BY <1>5 DEF RestoreInv, CarefulHost

LEMMA HistoryTyped ==
  ASSUME RestoreInv
  PROVE  /\ taken \subseteq Containers /\ current \in Databases /\ served \in Databases
         /\ attempted \subseteq Containers /\ settled \in BOOLEAN /\ restores \in Nat
         /\ marker \in Candidates \cup {Absent} /\ host \in Hosts
         /\ RestoreBase /\ RestoreTypeOK
         /\ served # Absent /\ current # Absent /\ Absent \notin attempted
  BY PathFacts, NamesAssumption
  DEF RestoreInv, RestoreBase, RestoreTypeOK, Candidates, Databases

\* What the next open would serve, by the contents of the disk.
LEMMA SurvivorIs ==
  /\ Survivor = IF marker # Absent /\ Ready(marker) THEN Db(marker) ELSE Db(Root)
  /\ Survivor' = IF marker' # Absent /\ Ready(marker)' THEN Db(marker)' ELSE Db(Root)'
  BY DEF Survivor, Db, Ready

LEMMA DiscardKeeps ==
  ASSUME RestoreInv, NEW p \in Procs, DiscardCandidate(p)
  PROVE  RestoreInv'
  <1> DEFINE x == AtPc(proc[p], "unmark")
             f == proc[p].found
  <1>1. /\ RestoreBase /\ RestoreTypeOK /\ Shape(p) /\ proc[p] \in ProcRecords
        /\ fs \in [Paths -> Directories \cup {Absent}] /\ previous \in Seq(Directories)
    BY TypeParts DEF RestoreInv, RestoreBase, RestoreTypeOK
  <1>2. /\ proc[p].pc = "discard" /\ UNCHANGED <<previous, marker, history, restoreBudgets>>
        /\ fs' = [fs EXCEPT ![f] = Absent]
        /\ proc' = [proc EXCEPT ![p] = x]
    BY DEF DiscardCandidate, ProcAt, Goto, AtPc
  <1>3. f \in Candidates /\ f \in Paths /\ f # Root
    BY <1>1, <1>2, PathFacts DEF Shape
  <1>4. /\ x \in ProcRecords /\ x.pc = "unmark" /\ x.job = proc[p].job
        /\ x.target = proc[p].target
        /\ x.candidate = proc[p].candidate /\ x.found = proc[p].found
        /\ x.leased = proc[p].leased /\ x.container = proc[p].container
    <2>1. "unmark" \in ProcPcs
      BY DEF ProcPcs, Staging
    <2> QED
      BY <1>1, <2>1, ProcPc
  <1> HIDE DEF x
  <1>5. proc'[p] = x /\ Others(p)
    BY <1>1, <1>2, <1>4, ProcSet
  <1>6. /\ fs' \in [Paths -> Directories \cup {Absent}] /\ fs'[f] = Absent
        /\ \A path \in Paths : path # f => fs'[path] = fs[path]
    BY <1>1, <1>2, <1>3
  <1>7. \A h \in Procs : Carried(h)' => Carried(h)
    BY <1>2, <1>6 DEF Carried
  <1>8. Shape(p)'
    BY <1>1, <1>2, <1>4, <1>5 DEF Shape, OpenPcs, Resolving, Activating
  <1>9. ASSUME CarefulHost PROVE CarefulInv'
    <2>1. CarefulInv /\ Resolves(p)
      BY <1>9 DEF RestoreInv, CarefulInv
    <2>2. /\ proc[p].job = "open" /\ ~proc[p].leased
          /\ marker # Absent /\ marker = f /\ ~Ready(marker)
      BY <1>2, <2>1 DEF Resolves, Resolving
    <2>3. \A q \in Procs \ {p} : proc[q].pc = "idle"
      BY <1>2, <2>1, <2>2 DEF CarefulInv, Lone
    <2>4. Db(Root)' = Db(Root) /\ ~Ready(marker)' /\ marker' = marker
      BY <1>2, <1>3, <1>6, <2>2, PathFacts DEF Db, Ready
    <2>5. Resolves(p)' /\ Restores(p)' /\ Holds(p)'
      BY <1>4, <1>5, <2>2, <2>4 DEF Resolves, Restores, Holds, Resolving
    <2>6. Kept'
      BY <1>2, <2>1, <2>2, <2>4 DEF CarefulInv, Kept, PreviousDb, history
    <2>7. Survivor' \in {current'} \cup attempted'
      BY <1>2, <2>1, <2>2, <2>4, SurvivorIs DEF CarefulInv, history
    <2> QED
      BY <1>1, <1>5, <2>3, <2>5, <2>6, <2>7, LoneStep
  <1> QED
    BY <1>1, <1>2, <1>4, <1>6, <1>7, <1>8, <1>9, HistoryTyped, DiskStep
    DEF history, restoreBudgets

LEMMA UnmarkKeeps ==
  ASSUME RestoreInv, NEW p \in Procs, Unmark(p)
  PROVE  RestoreInv'
  <1> DEFINE x == AtPc(proc[p], "prune")
  <1>1. /\ RestoreBase /\ RestoreTypeOK /\ Shape(p) /\ proc[p] \in ProcRecords
        /\ fs \in [Paths -> Directories \cup {Absent}] /\ previous \in Seq(Directories)
    BY TypeParts DEF RestoreInv, RestoreBase, RestoreTypeOK
  <1>2. /\ proc[p].pc = "unmark" /\ UNCHANGED <<fs, previous, history, restoreBudgets>>
        /\ marker' = Absent
        /\ proc' = [proc EXCEPT ![p] = x]
    BY DEF Unmark, ProcAt, Goto, AtPc
  <1>3. /\ x \in ProcRecords /\ x.pc = "prune" /\ x.job = proc[p].job
        /\ x.target = proc[p].target
        /\ x.candidate = proc[p].candidate /\ x.found = proc[p].found
        /\ x.leased = proc[p].leased /\ x.container = proc[p].container
    <2>1. "prune" \in ProcPcs
      BY DEF ProcPcs, Staging
    <2> QED
      BY <1>1, <2>1, ProcPc
  <1> HIDE DEF x
  <1>4. proc'[p] = x /\ Others(p)
    BY <1>1, <1>2, <1>3, ProcSet
  <1>5. \A h \in Procs : Carried(h)' => Carried(h)
    BY <1>2 DEF Carried
  <1>6. Shape(p)'
    BY <1>1, <1>2, <1>3, <1>4 DEF Shape, OpenPcs, Resolving, Activating
  <1>7. ASSUME CarefulHost PROVE CarefulInv'
    <2>1. CarefulInv /\ Resolves(p)
      BY <1>7 DEF RestoreInv, CarefulInv
    <2>2. proc[p].job = "open" /\ ~proc[p].leased /\ marker # Absent /\ ~Ready(marker)
      BY <1>2, <2>1 DEF Resolves, Resolving
    <2>3. \A q \in Procs \ {p} : proc[q].pc = "idle"
      BY <1>2, <2>1, <2>2 DEF CarefulInv, Lone
    <2>4. Db(Root)' = Db(Root)
      BY <1>2 DEF Db
    <2>5. Resolves(p)' /\ Restores(p)' /\ Holds(p)'
      BY <1>2, <1>3, <1>4, <2>2 DEF Resolves, Restores, Holds, Resolving
    <2>6. Kept'
      BY <1>2, <2>1, <2>2, <2>4 DEF CarefulInv, Kept, PreviousDb, history
    <2>7. Survivor' \in {current'} \cup attempted'
      BY <1>2, <2>1, <2>2, <2>4, SurvivorIs DEF CarefulInv, history
    <2> QED
      BY <1>1, <1>4, <2>3, <2>5, <2>6, <2>7, LoneStep
  <1> QED
    BY <1>1, <1>2, <1>3, <1>5, <1>6, <1>7, HistoryTyped, DiskStep
    DEF history, restoreBudgets

\* A process that moves on.
LEMMA GotoIs ==
  ASSUME RestoreInv, NEW p \in Procs, NEW c \in ProcPcs, Goto(p, c)
  PROVE  LET x == AtPc(proc[p], c)
         IN  /\ x \in ProcRecords /\ x.pc = c /\ x.job = proc[p].job
             /\ x.target = proc[p].target
             /\ x.candidate = proc[p].candidate /\ x.found = proc[p].found
             /\ x.leased = proc[p].leased /\ x.container = proc[p].container
             /\ proc' = [proc EXCEPT ![p] = x] /\ proc'[p] = x /\ Others(p)
  <1> DEFINE x == AtPc(proc[p], c)
  <1>1. RestoreTypeOK /\ proc[p] \in ProcRecords
    BY HistoryTyped, TypeParts
  <1>2. proc' = [proc EXCEPT ![p] = x]
    BY DEF Goto, AtPc
  <1>3. /\ x \in ProcRecords /\ x.pc = c /\ x.job = proc[p].job
        /\ x.target = proc[p].target
        /\ x.candidate = proc[p].candidate /\ x.found = proc[p].found
        /\ x.leased = proc[p].leased /\ x.container = proc[p].container
    BY <1>1, ProcPc
  <1> HIDE DEF x
  <1>4. proc'[p] = x /\ Others(p)
    BY <1>1, <1>2, <1>3, ProcSet
  <1> QED
    BY <1>2, <1>3, <1>4 DEF x

LEMMA RetainKeeps ==
  ASSUME RestoreInv, NEW p \in Procs,
         NEW c \in {"retain", "activate_retain"}, NEW n \in {"swap", "activate_swap"},
         Retain(p, c, n), c = "retain" <=> n = "swap"
  PROVE  RestoreInv'
  <1> DEFINE x == AtPc(proc[p], n)
             t == proc[p].target
             dir == fs[t]
  <1>1. /\ RestoreBase /\ RestoreTypeOK /\ Shape(p) /\ proc[p] \in ProcRecords /\ t \in Paths
        /\ fs \in [Paths -> Directories \cup {Absent}] /\ previous \in Seq(Directories)
    BY TypeParts DEF RestoreInv, RestoreBase, RestoreTypeOK
  <1>2. /\ proc[p].pc = c /\ UNCHANGED <<marker, history, restoreBudgets>>
        /\ fs' = [fs EXCEPT ![t] = Absent]
        /\ previous' = IF dir = Absent \/ dir.db = Absent
                       THEN previous ELSE Append(previous, dir)
        /\ Goto(p, n)
    BY DEF Retain, ProcAt
  <1>3. n \in ProcPcs
    BY DEF ProcPcs, Staging
  <1>4. /\ x \in ProcRecords /\ x.pc = n /\ x.job = proc[p].job
        /\ x.target = proc[p].target
        /\ x.candidate = proc[p].candidate /\ x.found = proc[p].found
        /\ x.leased = proc[p].leased /\ x.container = proc[p].container
        /\ proc' = [proc EXCEPT ![p] = x] /\ proc'[p] = x /\ Others(p)
    BY <1>2, <1>3, GotoIs
  <1> HIDE DEF x
  <1>5. /\ fs' \in [Paths -> Directories \cup {Absent}] /\ fs'[t] = Absent
        /\ \A path \in Paths : path # t => fs'[path] = fs[path]
    BY <1>1, <1>2
  <1>6. /\ previous' \in Seq(Directories)
        /\ \A i \in DOMAIN previous' :
             \/ previous'[i] = dir /\ dir # Absent
             \/ i \in DOMAIN previous /\ previous'[i] = previous[i]
        /\ dir # Absent /\ dir.db # Absent => PreviousDb' = dir.db
        /\ dir = Absent \/ dir.db = Absent => PreviousDb' = PreviousDb
    <2>1. CASE dir = Absent \/ dir.db = Absent
      BY <1>1, <1>2, <2>1 DEF PreviousDb
    <2>2. CASE dir # Absent /\ dir.db # Absent
      <3>1. dir \in Directories /\ previous' = Append(previous, dir)
        BY <1>1, <1>2, <2>2
      <3> HIDE DEF dir
      <3>2. /\ previous' \in Seq(Directories) /\ Len(previous') = Len(previous) + 1
            /\ previous' # <<>> /\ previous'[Len(previous')] = dir
            /\ DOMAIN previous' = 1 .. Len(previous) + 1 /\ DOMAIN previous = 1 .. Len(previous)
            /\ \A i \in 1 .. Len(previous) : previous'[i] = previous[i]
            /\ Len(previous) \in Nat
        BY <1>1, <3>1
      <3>3. PreviousDb' = dir.db
        BY <3>2 DEF PreviousDb
      <3>4. ASSUME NEW i \in DOMAIN previous'
            PROVE  \/ previous'[i] = dir
                   \/ i \in DOMAIN previous /\ previous'[i] = previous[i]
        <4>1. i \in 1 .. Len(previous) + 1
          BY <3>2
        <4>2. i = Len(previous) + 1 \/ i \in 1 .. Len(previous)
          BY <3>2, <4>1
        <4>3. Len(previous') = Len(previous) + 1 /\ previous'[Len(previous')] = dir
          BY <3>2
        <4>4. CASE i = Len(previous) + 1
          BY <4>3, <4>4
        <4>5. CASE i \in 1 .. Len(previous)
          BY <3>2, <4>5
        <4> QED
          BY <4>2, <4>4, <4>5
      <3> QED
        BY <2>2, <3>2, <3>3, <3>4, Zenon
    <2> QED
      BY <2>1, <2>2
  <1>7. \A h \in Procs : Carried(h)' => Carried(h)
    BY <1>1, <1>5, <1>6 DEF Carried
  <1>8. Shape(p)'
    BY <1>1, <1>2, <1>4 DEF Shape, OpenPcs, Resolving, Activating
  <1>9. ASSUME CarefulHost PROVE CarefulInv'
    <2>1. CarefulInv /\ Resolves(p) /\ Restores(p) /\ Kept
      BY <1>9 DEF RestoreInv, CarefulInv
    <2>2. marker \in Candidates /\ marker \in Paths /\ marker # Absent /\ marker # Root
      <3>1. marker # Absent
        BY <1>1, <1>2, <2>1, PathFacts DEF Resolves, Resolving, Restores, Activating, Shape
      <3> QED
        BY <1>9, <3>1, HistoryTyped, PathFacts
    <2>3. t = Root /\ ~proc[p].leased /\ Ready(marker) /\ marker = proc[p].found
      BY <1>1, <1>2, <2>1 DEF Resolves, Resolving, Restores, Activating, Shape
    <2>4. \A q \in Procs \ {p} : proc[q].pc = "idle"
      BY <1>2, <2>1, <2>2 DEF CarefulInv, Lone
    <2>5. /\ Db(Root)' = Absent /\ Db(marker)' = Db(marker) /\ Ready(marker)'
          /\ marker' = marker
      BY <1>2, <1>5, <2>2, <2>3, PathFacts DEF Db, Ready
    <2>6. UNCHANGED <<current, attempted, served, settled>> /\ ~settled
      BY <1>2, <2>1, <2>2 DEF Kept, history
    <2>7. Kept'
      <3>1. served # Absent
        BY HistoryTyped
      <3>2. PreviousDb' = served
        BY <1>6, <2>1, <2>2, <2>3, <3>1 DEF Kept, Db
      <3> QED
        BY <2>5, <2>6, <3>2 DEF Kept
    <2>8. Resolves(p)' /\ Restores(p)' /\ Holds(p)'
      <3>1. Resolves(p)'
        BY <1>2, <1>4, <2>1, <2>2, <2>3, <2>5 DEF Resolves, Resolving
      <3>2. Restores(p)'
        BY <1>1, <1>2, <1>4, <2>1, <2>2, <2>3, <2>5, <2>6
        DEF Restores, Activating, Resolves, Resolving
      <3>3. Holds(p)'
        BY <1>4, <2>3 DEF Holds
      <3> QED
        BY <3>1, <3>2, <3>3
    <2>9. Survivor' \in {current'} \cup attempted'
      BY <2>1, <2>2, <2>3, <2>5, <2>6, SurvivorIs DEF CarefulInv
    <2> QED
      BY <1>1, <1>4, <2>4, <2>7, <2>8, <2>9, LoneStep
  <1> QED
    BY <1>1, <1>2, <1>4, <1>5, <1>6, <1>7, <1>8, <1>9, HistoryTyped, DiskStep
    DEF history, restoreBudgets

LEMMA SwapKeeps ==
  ASSUME RestoreInv, NEW p \in Procs,
         NEW c \in {"swap", "activate_swap"}, NEW n \in {"unmark", "activate_done"},
         Swap(p, c, n), c = "swap" <=> n = "unmark"
  PROVE  RestoreInv'
  <1> DEFINE x == AtPc(proc[p], n)
             t == proc[p].target
             f == proc[p].found
  <1>1. /\ RestoreBase /\ RestoreTypeOK /\ Shape(p) /\ proc[p] \in ProcRecords /\ t \in Paths
        /\ fs \in [Paths -> Directories \cup {Absent}] /\ previous \in Seq(Directories)
    BY TypeParts DEF RestoreInv, RestoreBase, RestoreTypeOK
  <1>2. /\ proc[p].pc = c /\ UNCHANGED <<previous, marker, history, restoreBudgets>>
        /\ fs[f] # Absent /\ fs[t] = Absent
        /\ fs' = [fs EXCEPT ![t] = fs[f], ![f] = Absent]
        /\ Goto(p, n)
    BY DEF Swap, CanSwap, ProcAt
  <1>3. n \in ProcPcs /\ f \in Candidates /\ f \in Paths
    BY <1>1, <1>2, PathFacts DEF ProcPcs, Staging, Shape, Activating
  <1>4. /\ x \in ProcRecords /\ x.pc = n /\ x.job = proc[p].job
        /\ x.target = proc[p].target
        /\ x.candidate = proc[p].candidate /\ x.found = proc[p].found
        /\ x.leased = proc[p].leased /\ x.container = proc[p].container
        /\ proc' = [proc EXCEPT ![p] = x] /\ proc'[p] = x /\ Others(p)
    BY <1>2, <1>3, GotoIs
  <1> HIDE DEF x
  <1>5. /\ fs' \in [Paths -> Directories \cup {Absent}] /\ fs'[t] = fs[f] /\ fs'[f] = Absent
        /\ \A path \in Paths : path # t /\ path # f => fs'[path] = fs[path]
    BY <1>1, <1>2, <1>3
  <1>6. \A h \in Procs : Carried(h)' => Carried(h)
    BY <1>1, <1>2, <1>3, <1>5 DEF Carried
  <1>7. Shape(p)'
    BY <1>1, <1>2, <1>4 DEF Shape, OpenPcs, Resolving, Activating
  <1>8. ASSUME CarefulHost PROVE CarefulInv'
    <2>1. CarefulInv /\ Resolves(p) /\ Restores(p) /\ Kept
      BY <1>8 DEF RestoreInv, CarefulInv
    <2>2. marker \in Paths /\ marker # Absent /\ marker # Root
      <3>1. marker # Absent
        BY <1>1, <1>2, <2>1, PathFacts DEF Resolves, Resolving, Restores, Activating, Shape
      <3> QED
        BY <3>1, HistoryTyped, PathFacts
    <2>3. t = Root /\ ~proc[p].leased /\ Ready(marker) /\ marker = f
      BY <1>1, <1>2, <2>1 DEF Resolves, Resolving, Restores, Activating, Shape
    <2>4. \A q \in Procs \ {p} : proc[q].pc = "idle"
      BY <1>2, <2>1, <2>2 DEF CarefulInv, Lone
    <2>5. /\ Db(Root)' = Db(marker) /\ ~Ready(marker)' /\ marker' = marker /\ Db(Root) = Absent
      BY <1>2, <1>5, <2>2, <2>3, PathFacts DEF Db, Ready
    <2>6. UNCHANGED <<current, attempted, served, settled>> /\ ~settled
      BY <1>2, <2>1, <2>2 DEF Kept, history
    <2>7. Kept'
      <3>1. PreviousDb = served /\ PreviousDb' = PreviousDb
        BY <1>2, <2>1, <2>5, HistoryTyped DEF Kept, PreviousDb
      <3> QED
        BY <2>5, <2>6, <3>1 DEF Kept
    <2>8. Resolves(p)' /\ Restores(p)' /\ Holds(p)'
      <3>1. Resolves(p)'
        BY <1>2, <1>4, <2>1, <2>2, <2>3, <2>5 DEF Resolves, Resolving
      <3>2. Restores(p)'
        BY <1>1, <1>2, <1>4, <2>1, <2>2, <2>3, <2>5, <2>6
        DEF Restores, Activating, Resolves, Resolving
      <3>3. Holds(p)'
        BY <1>4, <2>3 DEF Holds
      <3> QED
        BY <3>1, <3>2, <3>3
    <2>9. Survivor' \in {current'} \cup attempted'
      BY <2>1, <2>2, <2>3, <2>5, <2>6, SurvivorIs DEF CarefulInv
    <2> QED
      BY <1>1, <1>4, <2>4, <2>7, <2>8, <2>9, LoneStep
  <1> QED
    BY <1>1, <1>2, <1>4, <1>5, <1>6, <1>7, <1>8, HistoryTyped, DiskStep
    DEF history, restoreBudgets

LEMMA PruneKeeps ==
  ASSUME RestoreInv, NEW p \in Procs, Prune(p)
  PROVE  RestoreInv'
  <1> DEFINE n == IF proc[p].leased THEN "inspect" ELSE "reacquire"
             x == AtPc(proc[p], n)
  <1>1. /\ RestoreBase /\ RestoreTypeOK /\ Shape(p) /\ proc[p] \in ProcRecords
        /\ fs \in [Paths -> Directories \cup {Absent}] /\ previous \in Seq(Directories)
    BY TypeParts DEF RestoreInv, RestoreBase, RestoreTypeOK
  <1>2. /\ proc[p].pc = "prune" /\ UNCHANGED <<fs, marker, history, restoreBudgets>>
        /\ previous' = Newest(previous) /\ Goto(p, n)
    BY DEF Prune, ProcAt
  <1>3. n \in {"inspect", "reacquire"} /\ (n = "inspect" <=> proc[p].leased)
    BY <1>1 DEF ProcRecords
  <1> HIDE DEF n
  <1>4. n \in ProcPcs
    BY <1>3 DEF ProcPcs, Staging
  <1>5. /\ x \in ProcRecords /\ x.pc = n /\ x.job = proc[p].job
        /\ x.target = proc[p].target
        /\ x.candidate = proc[p].candidate /\ x.found = proc[p].found
        /\ x.leased = proc[p].leased /\ x.container = proc[p].container
        /\ proc' = [proc EXCEPT ![p] = x] /\ proc'[p] = x /\ Others(p)
    BY <1>2, <1>4, GotoIs
  <1> HIDE DEF x
  <1>6. /\ previous' \in Seq(Directories) /\ Len(previous') <= 1
        /\ Len(previous') <= Len(previous) /\ PreviousDb' = PreviousDb
        /\ \A i \in DOMAIN previous' : \E j \in DOMAIN previous : previous'[i] = previous[j]
    <2>1. CASE previous = <<>>
      <3>1. previous' = <<>>
        BY <1>2, <2>1 DEF Newest
      <3> QED
        BY <2>1, <3>1 DEF PreviousDb
    <2>2. CASE previous # <<>>
      <3> DEFINE last == previous[Len(previous)]
      <3>1. Len(previous) \in DOMAIN previous /\ Len(previous) >= 1 /\ last \in Directories
        BY <1>1, <2>2
      <3>2. previous' = <<last>>
        BY <1>2, <2>2 DEF Newest
      <3> HIDE DEF last
      <3>3. previous' \in Seq(Directories) /\ Len(previous') = 1 /\ previous' # <<>>
            /\ previous'[1] = last /\ DOMAIN previous' = {1}
        BY <3>1, <3>2
      <3>4. PreviousDb = last.db
        BY <2>2 DEF PreviousDb, last
      <3>5. PreviousDb' = last.db
        BY <3>3 DEF PreviousDb
      <3>6. \A i \in DOMAIN previous' : previous'[i] = previous[Len(previous)]
        BY <3>3 DEF last
      <3> QED
        BY <1>1, <3>1, <3>3, <3>4, <3>5, <3>6
    <2> QED
      BY <2>1, <2>2
  <1>7. \A h \in Procs : Carried(h)' => Carried(h)
    BY <1>2, <1>6 DEF Carried
  <1>8. Shape(p)'
    BY <1>1, <1>2, <1>3, <1>5 DEF Shape, OpenPcs, Resolving, Activating
  <1>9. ASSUME CarefulHost PROVE CarefulInv'
    <2>1. CarefulInv /\ Resolves(p) /\ Restores(p) /\ Holds(p)
      BY <1>9 DEF RestoreInv, CarefulInv
    <2>2. SameContent /\ LocksOf(p)
      BY <1>2, <1>6 DEF SameContent, LocksOf, Db, Ready
    <2>3. marker = Absent
      BY <1>2, <2>1 DEF Resolves
    <2>4. Resolves(p)'
      BY <1>2, <1>3, <1>5, <1>6, <2>3 DEF Resolves, Resolving
    <2>5. Restores(p)'
      BY <1>2, <1>3, <1>5, <2>1 DEF Restores, Activating, Db, history
    <2>6. Holds(p)'
      BY <1>2, <1>5, <2>1 DEF Holds
    <2> QED
      BY <1>1, <1>2, <1>5, <2>1, <2>2, <2>4, <2>5, <2>6, ContentStep
  <1> QED
    BY <1>1, <1>2, <1>3, <1>5, <1>6, <1>7, <1>8, <1>9, HistoryTyped, DiskStep
    DEF history, restoreBudgets

\* A step that serves a database from the root.
LEMMA OpenedStep ==
  ASSUME RestoreBase, CarefulInv, NEW p \in Procs, Others(p), proc[p].pc # "idle",
         proc[p].job = "open", marker = Absent, marker' = Absent, previous' = previous,
         Db(Root)' = served', current' = served', LocksOf(p),
         Resolves(p)', Restores(p)', Holds(p)'
  PROVE  CarefulInv'
  <1>1. ASSUME NEW q \in Procs, q # p PROVE Resolves(q)' /\ Restores(q)' /\ Holds(q)'
    <2>1. Resolves(q) /\ Holds(q) /\ proc'[q] = proc[q]
      BY <1>1 DEF CarefulInv, Others
    <2>2. proc[q].job # "restore"
      BY <1>1 DEF RestoreBase, Offline
    <2>3. Resolves(q)'
      BY <2>1 DEF Resolves
    <2>4. Restores(q)'
      BY <2>1, <2>2 DEF Restores
    <2>5. Holds(q)'
      BY <1>1, <2>1 DEF Holds, LocksOf
    <2> QED
      BY <2>3, <2>4, <2>5
  <1>2. Lone' /\ Kept'
    BY DEF Lone, Kept
  <1>3. Survivor' \in {current'} \cup attempted'
    BY SurvivorIs
  <1> QED
    BY <1>1, <1>2, <1>3 DEF CarefulInv

\* A directory with another database.
LEMMA WithDb ==
  ASSUME NEW d \in Directories, NEW b \in Databases
  PROVE  LET u == [d EXCEPT !.db = b]
         IN  /\ u \in Directories /\ u # Absent /\ u.db = b /\ u.ready = d.ready
             /\ u.holder = d.holder /\ (d.db = b => u = d)
  <1> DEFINE u == [d EXCEPT !.db = b]
  <1>1. u \in Directories /\ u.db = b /\ u.ready = d.ready /\ u.holder = d.holder
    BY DEF Directories
  <1>2. d.db = b => u = d
    BY DEF Directories
  <1> QED
    BY <1>1, <1>2, NamesAssumption

LEMMA InstallKeeps ==
  ASSUME RestoreInv, NEW p \in Procs, Install(p)
  PROVE  RestoreInv'
  <1> DEFINE t == proc[p].target
             db == IF fs[t].db = Absent THEN Fresh ELSE fs[t].db
             n == IF proc[p].job = "open" THEN "opened" ELSE "checked"
             x == AtPc(proc[p], n)
  <1>1. /\ RestoreBase /\ RestoreTypeOK /\ Shape(p) /\ proc[p] \in ProcRecords /\ t \in Paths
        /\ fs \in [Paths -> Directories \cup {Absent}] /\ previous \in Seq(Directories)
    BY TypeParts DEF RestoreInv, RestoreBase, RestoreTypeOK
  <1>2. /\ proc[p].pc = "inspect" /\ UNCHANGED <<previous, marker, taken, restoreBudgets>>
        /\ fs[t] # Absent /\ fs' = [fs EXCEPT ![t].db = db]
        /\ Goto(p, n)
        /\ IF proc[p].job = "open"
           THEN served' = db /\ current' = db /\ attempted' = {} /\ settled' = TRUE
           ELSE UNCHANGED <<current, attempted, served, settled>>
    BY DEF Install, ProcAt
  <1>3. /\ n \in {"opened", "checked"} /\ (n = "opened" <=> proc[p].job = "open")
        /\ proc[p].job \in {"open", "restore"} /\ proc[p].leased
    BY <1>1, <1>2 DEF ProcRecords, Shape
  <1> HIDE DEF n
  <1>4. n \in ProcPcs
    BY <1>3 DEF ProcPcs, Staging
  <1>5. /\ x \in ProcRecords /\ x.pc = n /\ x.job = proc[p].job
        /\ x.target = proc[p].target
        /\ x.candidate = proc[p].candidate /\ x.found = proc[p].found
        /\ x.leased = proc[p].leased /\ x.container = proc[p].container
        /\ proc' = [proc EXCEPT ![p] = x] /\ proc'[p] = x /\ Others(p)
    BY <1>2, <1>4, GotoIs
  <1> HIDE DEF x
  <1>6. fs[t] \in Directories /\ db \in Databases /\ (fs[t].db # Absent => db = fs[t].db)
    BY <1>1, <1>2 DEF Directories, Databases
  <1> HIDE DEF db
  <1> DEFINE u == [fs[t] EXCEPT !.db = db]
  <1>7. /\ u \in Directories /\ u # Absent /\ u.db = db /\ u.ready = fs[t].ready
        /\ u.holder = fs[t].holder /\ (fs[t].db = db => u = fs[t])
    BY <1>6, WithDb
  <1>8. fs' = [fs EXCEPT ![t] = u]
    BY <1>2
  <1> HIDE DEF u
  <1>9. /\ fs' \in [Paths -> Directories \cup {Absent}] /\ fs'[t] = u
        /\ \A path \in Paths : path # t => fs'[path] = fs[path]
        /\ fs[t].db = db => \A path \in Paths : fs'[path] = fs[path]
    BY <1>1, <1>7, <1>8
  <1>10. \A h \in Procs : Carried(h)' => Carried(h)
    BY <1>1, <1>2, <1>7, <1>9 DEF Carried
  <1>11. Shape(p)'
    <2>1. proc[p].job = "restore" => t = proc[p].candidate
      BY <1>1, <1>2 DEF Shape, Activating
    <2>2. proc[p].job = "restore" => fs'[proc'[p].candidate] # Absent
      BY <1>5, <1>7, <1>9, <2>1
    <2> QED
      BY <1>1, <1>2, <1>3, <1>5, <2>2 DEF Shape, OpenPcs, Resolving, Activating
  <1>12. ASSUME CarefulHost PROVE CarefulInv'
    <2>1. CarefulInv /\ Resolves(p) /\ Restores(p) /\ Holds(p)
      BY <1>12 DEF RestoreInv, CarefulInv
    <2>2. marker = Absent
      BY <1>2, <2>1 DEF Resolves
    <2>3. Db(t) # Absent
      <3>1. CASE proc[p].job = "open"
        <4>1. t = Root /\ Survivor = Db(Root)
          BY <1>1, <2>2, <3>1, SurvivorIs DEF Shape
        <4> QED
          BY <2>1, <4>1, HistoryTyped DEF CarefulInv
      <3>2. CASE proc[p].job = "restore"
        <4>1. t = proc[p].candidate /\ proc[p].container \in Containers
          BY <1>1, <1>2, <3>2 DEF Shape, Activating
        <4>2. Db(t) = proc[p].container
          BY <1>2, <2>1, <3>2, <4>1 DEF Restores, Activating
        <4> QED
          BY <4>1, <4>2, NamesAssumption
      <3> QED
        BY <1>3, <3>1, <3>2
    <2>4. db = Db(t) /\ \A path \in Paths : fs'[path] = fs[path]
      BY <1>2, <1>6, <1>9, <2>3 DEF Db
    <2>5. SameContent /\ LocksOf(p)
      BY <1>2, <2>4, PathFacts DEF SameContent, LocksOf, Db, Ready, PreviousDb
    <2>6. Resolves(p)'
      BY <1>2, <1>3, <1>5, <2>1, <2>2 DEF Resolves, Resolving
    <2>7. Holds(p)'
      BY <1>5, <2>1, <2>4, PathFacts DEF Holds
    <2>8. CASE proc[p].job = "open"
      <3>1. Restores(p)' /\ Db(Root)' = served' /\ current' = served'
        BY <1>1, <1>2, <1>5, <2>4, <2>5, <2>8, PathFacts
        DEF Restores, Shape, SameContent
      <3> QED
        BY <1>1, <1>2, <1>5, <2>1, <2>2, <2>5, <2>6, <2>7, <2>8, <3>1, OpenedStep
    <2>9. CASE proc[p].job = "restore"
      <3>1. UNCHANGED history
        BY <1>2, <2>9 DEF history
      <3>2. proc[p].candidate \in Paths
        BY <1>1, <2>9, PathFacts DEF Shape
      <3>3. Db(Root)' = Db(Root) /\ Db(proc[p].candidate)' = Db(proc[p].candidate)
        BY <1>5, <2>5, <3>2, PathFacts DEF SameContent
      <3>4. Restores(p)'
        BY <1>2, <1>3, <1>5, <2>1, <3>1, <3>3 DEF Restores, Activating, history
      <3> QED
        BY <1>1, <1>2, <1>5, <2>1, <2>5, <2>6, <2>7, <3>1, <3>4, ContentStep
    <2> QED
      BY <1>3, <2>8, <2>9
  <1>13. /\ taken' \subseteq Containers /\ current' \in Databases /\ served' \in Databases
         /\ attempted' \subseteq Containers /\ settled' \in BOOLEAN
    BY <1>2, <1>6, HistoryTyped
  <1> QED
    BY <1>1, <1>2, <1>3, <1>5, <1>9, <1>10, <1>11, <1>12, <1>13, HistoryTyped, DiskStep
    DEF restoreBudgets

LEMMA CreateBackupKeeps ==
  ASSUME RestoreInv, NEW p \in Procs, NEW b \in Containers, CreateBackup(p, b)
  PROVE  RestoreInv'
  <1> DEFINE u == [fs[Root] EXCEPT !.db = b, !.ready = FALSE, !.containers = @ \cup {b}]
             x == proc[p]
  <1>1. /\ RestoreBase /\ RestoreTypeOK /\ Shape(p) /\ proc[p] \in ProcRecords
        /\ fs \in [Paths -> Directories \cup {Absent}] /\ previous \in Seq(Directories)
    BY TypeParts DEF RestoreInv, RestoreBase, RestoreTypeOK
  <1>2. /\ proc[p].pc = "opened"
        /\ UNCHANGED <<previous, marker, proc, attempted, settled, restoreBudgets>>
        /\ fs[Root] # Absent /\ fs[Root].holder = p
        /\ fs' = [fs EXCEPT ![Root] = u]
        /\ taken' = taken \cup {b} /\ served' = b /\ current' = b
    BY DEF CreateBackup, ProcAt
  <1>3. fs[Root] \in Directories /\ b \in Databases
    BY <1>1, <1>2, PathFacts DEF Databases
  <1>4. u \in Directories /\ u.db = b /\ u.ready = FALSE /\ u.holder = fs[Root].holder
    BY <1>3 DEF Directories
  <1>5. u # Absent
    BY <1>4, NamesAssumption
  <1> HIDE DEF u
  <1>6. /\ fs' \in [Paths -> Directories \cup {Absent}] /\ fs'[Root] = u
        /\ \A path \in Paths : path # Root => fs'[path] = fs[path]
    BY <1>1, <1>2, <1>4, PathFacts
  <1>7. x \in ProcRecords /\ proc' = [proc EXCEPT ![p] = x] /\ proc'[p] = x /\ Others(p)
    BY <1>1, <1>2, TypeParts DEF Others
  <1>8. \A h \in Procs : Carried(h)' => Carried(h)
    BY <1>2, <1>4, <1>6, PathFacts DEF Carried
  <1>9. Shape(p)' /\ proc[p].job = "open" /\ proc[p].leased
    BY <1>1, <1>2, IdleIs DEF Shape, ProcRecords, Activating
  <1>10. ASSUME CarefulHost PROVE CarefulInv'
    <2>1. CarefulInv /\ Resolves(p) /\ Restores(p) /\ Holds(p)
      BY <1>10 DEF RestoreInv, CarefulInv
    <2>2. marker = Absent
      BY <1>2, <2>1 DEF Resolves
    <2>3. Db(Root)' = b
      BY <1>4, <1>5, <1>6 DEF Db
    <2>4. LocksOf(p)
      BY <1>2 DEF LocksOf
    <2>5. Resolves(p)' /\ Restores(p)' /\ Holds(p)'
      BY <1>2, <1>4, <1>5, <1>6, <1>7, <1>9, <2>1, <2>2
      DEF Resolves, Restores, Holds, Resolving
    <2> QED
      BY <1>1, <1>2, <1>7, <1>9, <2>1, <2>2, <2>3, <2>4, <2>5, OpenedStep
  <1>11. /\ taken' \subseteq Containers /\ current' \in Databases /\ served' \in Databases
         /\ attempted' \subseteq Containers /\ settled' \in BOOLEAN
    BY <1>2, <1>3, HistoryTyped
  <1> QED
    BY <1>1, <1>2, <1>6, <1>7, <1>8, <1>9, <1>10, <1>11, HistoryTyped, DiskStep
    DEF restoreBudgets

\* A restore in progress on a new candidate.
AtRestore(c, b) == [Idle EXCEPT !.pc = "copy", !.job = "restore", !.target = c,
                                !.candidate = c, !.container = b]

LEMMA ProcRestore ==
  \A c \in Paths, b \in Containers :
    /\ AtRestore(c, b) \in ProcRecords /\ AtRestore(c, b).pc = "copy"
    /\ AtRestore(c, b).job = "restore" /\ AtRestore(c, b).target = c
    /\ AtRestore(c, b).candidate = c /\ AtRestore(c, b).leased = FALSE
    /\ AtRestore(c, b).container = b
  <1> TAKE c \in Paths, b \in Containers
  <1> DEFINE a == "copy"
             j == "restore"
             x == [Idle EXCEPT !.pc = a, !.job = j, !.target = c, !.candidate = c,
                               !.container = b]
  <1>1. a \in ProcPcs /\ a = "copy" /\ j \in {"none", "open", "restore"} /\ j = "restore"
    BY DEF ProcPcs, Staging
  <1>2. AtRestore(c, b) = x
    BY DEF AtRestore
  <1> HIDE DEF a, j
  <1>3. x \in ProcRecords /\ x.pc = a /\ x.job = j /\ x.target = c
        /\ x.candidate = c /\ x.leased = Idle.leased /\ x.container = b
    BY <1>1, IdleIs DEF ProcRecords, ProcPcs
  <1>4. Idle.leased = FALSE
    BY DEF Idle
  <1> HIDE DEF x
  <1> QED
    BY <1>1, <1>2, <1>3, <1>4

LEMMA RestoreBeginKeeps ==
  ASSUME RestoreInv, NEW p \in Procs, NEW b \in Containers, RestoreBegin(p, b)
  PROVE  RestoreInv'
  <1> DEFINE c == restores + 1
             x == AtRestore(c, b)
  <1>1. /\ RestoreBase /\ RestoreTypeOK /\ Shape(p) /\ proc[p] \in ProcRecords
        /\ fs \in [Paths -> Directories \cup {Absent}] /\ previous \in Seq(Directories)
    BY TypeParts DEF RestoreInv, RestoreBase, RestoreTypeOK
  <1>2. /\ MayRestore /\ restores < host.restores
        /\ UNCHANGED <<previous, marker, taken, current, served, killed, faulted, host>>
        /\ fs' = [fs EXCEPT ![c] = EmptyDir]
        /\ proc' = [proc EXCEPT ![p] = x]
        /\ restores' = c /\ attempted' = attempted \cup {b} /\ settled' = FALSE
    BY DEF RestoreBegin, AtRestore
  <1>3. c \in Candidates /\ c \in Paths /\ c # Root /\ restores' \in Nat
    <2>1. host.restores \in 0 .. MaxRestores /\ restores \in Nat /\ MaxRestores \in Nat
      BY HistoryTyped, HostAssumption, PathFacts
    <2> QED
      BY <1>2, <2>1 DEF Candidates, Paths, Root
  <1> HIDE DEF c
  <1>4. /\ x \in ProcRecords /\ x.pc = "copy" /\ x.job = "restore" /\ x.target = c
        /\ x.candidate = c /\ x.leased = FALSE /\ x.container = b
    BY <1>3, ProcRestore
  <1> HIDE DEF x
  <1>5. proc'[p] = x /\ Others(p)
    BY <1>1, <1>2, <1>4, ProcSet
  <1>6. /\ fs' \in [Paths -> Directories \cup {Absent}] /\ fs'[c] = EmptyDir
        /\ \A path \in Paths : path # c => fs'[path] = fs[path]
    BY <1>1, <1>2, <1>3, EmptyDirIs
  <1>7. \A h \in Procs : Carried(h)' => Carried(h)
    BY <1>2, <1>6, EmptyDirIs, PathFacts DEF Carried
  <1>8. \A q \in Procs : proc[q].pc = "idle" /\ proc[q].job = "none"
    BY <1>1, <1>2 DEF MayRestore, ProcAt, RestoreBase, Shape
  <1>9. proc[p].leased = FALSE
    BY <1>1, <1>8, IdleIs DEF Shape, Idle
  <1>10. Shape(p)'
    BY <1>3, <1>4, <1>5, <1>6, EmptyDirIs DEF Shape, Activating
  <1>11. ASSUME CarefulHost PROVE CarefulInv'
    <2>1. CarefulInv /\ settled
      BY <1>2, <1>11 DEF RestoreInv, MayRestore, CarefulHost
    <2>2. marker = Absent /\ Db(Root) = served
      BY <2>1 DEF CarefulInv, Kept
    <2>3. Db(Root)' = Db(Root)
      BY <1>3, <1>6, PathFacts DEF Db
    <2>4. Resolves(p)' /\ Restores(p)' /\ Holds(p)'
      BY <1>2, <1>4, <1>5, <2>2, <2>3 DEF Resolves, Restores, Holds, Resolving, Activating
    <2>5. Kept'
      BY <1>2, <2>2, <2>3 DEF Kept
    <2>6. Survivor' \in {current'} \cup attempted'
      BY <1>2, <2>1, <2>2, <2>3, SurvivorIs DEF CarefulInv
    <2> QED
      BY <1>1, <1>5, <1>8, <2>4, <2>5, <2>6, LoneStep
  <1> QED
    BY <1>1, <1>2, <1>3, <1>4, <1>6, <1>7, <1>8, <1>9, <1>10, <1>11, HistoryTyped, DiskStep

LEMMA CopyContainerKeeps ==
  ASSUME RestoreInv, NEW p \in Procs, CopyContainer(p)
  PROVE  RestoreInv'
  <1> DEFINE x == AtPc(proc[p], "acquire")
             c == proc[p].candidate
             b == proc[p].container
             u == [fs[c] EXCEPT !.db = b]
  <1>1. /\ RestoreBase /\ RestoreTypeOK /\ Shape(p) /\ proc[p] \in ProcRecords
        /\ fs \in [Paths -> Directories \cup {Absent}] /\ previous \in Seq(Directories)
    BY TypeParts DEF RestoreInv, RestoreBase, RestoreTypeOK
  <1>2. /\ proc[p].pc = "copy" /\ UNCHANGED <<previous, marker, history, restoreBudgets>>
        /\ fs' = [fs EXCEPT ![c] = u]
        /\ Goto(p, "acquire")
    BY DEF CopyContainer, ProcAt
  <1>3. "acquire" \in ProcPcs
    BY DEF ProcPcs, Staging
  <1>4. /\ x \in ProcRecords /\ x.pc = "acquire" /\ x.job = proc[p].job
        /\ x.target = proc[p].target
        /\ x.candidate = proc[p].candidate /\ x.found = proc[p].found
        /\ x.leased = proc[p].leased /\ x.container = proc[p].container
        /\ proc' = [proc EXCEPT ![p] = x] /\ proc'[p] = x /\ Others(p)
    BY <1>2, <1>3, GotoIs
  <1> HIDE DEF x
  <1>5. /\ proc[p].job = "restore" /\ c \in Candidates /\ c \in Paths /\ c # Root
        /\ b \in Containers /\ fs[c] # Absent /\ fs[c] \in Directories /\ b \in Databases
        /\ proc[p].leased = FALSE /\ proc[p].target = c
    <2>1. proc[p].job = "restore" /\ fs[c] # Absent
      BY <1>1, <1>2 DEF Shape
    <2>2. c \in Candidates /\ b \in Containers /\ proc[p].target = c
      BY <1>1, <1>2, <2>1 DEF Shape, Activating
    <2>3. ~proc[p].leased /\ proc[p].leased \in BOOLEAN
      BY <1>1, <1>2, TypeParts DEF Shape
    <2> QED
      BY <1>1, <2>1, <2>2, <2>3, PathFacts DEF Databases
  <1>6. /\ u \in Directories /\ u # Absent /\ u.db = b /\ u.holder = fs[c].holder
    BY <1>5, WithDb
  <1> HIDE DEF u
  <1>7. /\ fs' \in [Paths -> Directories \cup {Absent}] /\ fs'[c] = u
        /\ \A path \in Paths : path # c => fs'[path] = fs[path]
    BY <1>1, <1>2, <1>5, <1>6
  <1>8. \A h \in Procs : Carried(h)' => Carried(h)
    BY <1>2, <1>5, <1>6, <1>7 DEF Carried
  <1>9. Shape(p)'
    BY <1>4, <1>5 DEF Shape, Activating
  <1>10. ASSUME CarefulHost PROVE CarefulInv'
    <2>1. CarefulInv /\ Restores(p)
      BY <1>10 DEF RestoreInv, CarefulInv
    <2>2. marker = Absent /\ Db(Root) = served /\ b \in attempted /\ ~settled
      BY <1>2, <1>5, <2>1 DEF Restores, Activating
    <2>3. Db(Root)' = Db(Root) /\ Db(c)' = b
      BY <1>4, <1>5, <1>6, <1>7, PathFacts DEF Db
    <2>4. Resolves(p)' /\ Restores(p)' /\ Holds(p)'
      BY <1>2, <1>4, <1>5, <2>2, <2>3
      DEF Resolves, Restores, Holds, Resolving, Activating, history
    <2>5. Kept'
      BY <1>2, <2>2, <2>3 DEF Kept, history
    <2>6. Survivor' \in {current'} \cup attempted'
      BY <1>2, <2>1, <2>2, <2>3, SurvivorIs DEF CarefulInv, history
    <2>7. \A q \in Procs \ {p} : proc[q].pc = "idle"
      BY <1>1, <1>5 DEF RestoreBase, Offline
    <2> QED
      BY <1>1, <1>4, <2>4, <2>5, <2>6, <2>7, LoneStep
  <1> QED
    BY <1>1, <1>2, <1>4, <1>5, <1>7, <1>8, <1>9, <1>10, HistoryTyped, DiskStep
    DEF history, restoreBudgets

LEMMA FinalizeKeeps ==
  ASSUME RestoreInv, NEW p \in Procs, FinalizeCandidate(p)
  PROVE  RestoreInv'
  <1> DEFINE x == AtPc(proc[p], "activate")
             c == proc[p].candidate
             u == [fs[c] EXCEPT !.ready = TRUE]
  <1>1. /\ RestoreBase /\ RestoreTypeOK /\ Shape(p) /\ proc[p] \in ProcRecords
        /\ fs \in [Paths -> Directories \cup {Absent}] /\ previous \in Seq(Directories)
    BY TypeParts DEF RestoreInv, RestoreBase, RestoreTypeOK
  <1>2. /\ proc[p].pc = "finalize" /\ UNCHANGED <<previous, marker, history, restoreBudgets>>
        /\ fs' = [fs EXCEPT ![c] = u]
        /\ Goto(p, "activate")
    BY DEF FinalizeCandidate, ProcAt
  <1>3. "activate" \in ProcPcs
    BY DEF ProcPcs
  <1>4. /\ x \in ProcRecords /\ x.pc = "activate" /\ x.job = proc[p].job
        /\ x.target = proc[p].target
        /\ x.candidate = proc[p].candidate /\ x.found = proc[p].found
        /\ x.leased = proc[p].leased /\ x.container = proc[p].container
        /\ proc' = [proc EXCEPT ![p] = x] /\ proc'[p] = x /\ Others(p)
    BY <1>2, <1>3, GotoIs
  <1> HIDE DEF x
  <1>5. /\ proc[p].job = "restore" /\ c \in Candidates /\ c \in Paths /\ c # Root
        /\ proc[p].container \in Containers /\ fs[c] # Absent /\ fs[c] \in Directories
        /\ proc[p].leased = FALSE /\ proc[p].target = c
    <2>1. proc[p].job = "restore" /\ fs[c] # Absent
      BY <1>1, <1>2 DEF Shape
    <2>2. c \in Candidates /\ proc[p].container \in Containers /\ proc[p].target = c
      BY <1>1, <1>2, <2>1 DEF Shape, Activating
    <2>3. ~proc[p].leased /\ proc[p].leased \in BOOLEAN
      BY <1>1, <1>2, TypeParts DEF Shape
    <2> QED
      BY <1>1, <2>1, <2>2, <2>3, PathFacts
  <1>6. /\ u \in Directories /\ u # Absent /\ u.db = fs[c].db /\ u.holder = fs[c].holder
    <2>1. u \in Directories /\ u.db = fs[c].db /\ u.holder = fs[c].holder
      BY <1>5 DEF Directories
    <2> QED
      BY <2>1, NamesAssumption
  <1> HIDE DEF u
  <1>7. /\ fs' \in [Paths -> Directories \cup {Absent}] /\ fs'[c] = u
        /\ \A path \in Paths : path # c => fs'[path] = fs[path]
    BY <1>1, <1>2, <1>5, <1>6
  <1>8. \A h \in Procs : Carried(h)' => Carried(h)
    BY <1>2, <1>5, <1>6, <1>7 DEF Carried
  <1>9. Shape(p)'
    <2>1. fs'[proc'[p].candidate] # Absent
      BY <1>4, <1>6, <1>7
    <2> QED
      BY <1>4, <1>5, <2>1 DEF Shape, Activating
  <1>10. ASSUME CarefulHost PROVE CarefulInv'
    <2>1. CarefulInv /\ Restores(p)
      BY <1>10 DEF RestoreInv, CarefulInv
    <2>2. /\ marker = Absent /\ Db(Root) = served /\ proc[p].container \in attempted
          /\ ~settled /\ Db(c) = proc[p].container
      BY <1>2, <1>5, <2>1 DEF Restores, Activating
    <2>3. Db(Root)' = Db(Root) /\ Db(c)' = Db(c)
      BY <1>4, <1>5, <1>6, <1>7, PathFacts DEF Db
    <2>4. Resolves(p)' /\ Restores(p)' /\ Holds(p)'
      BY <1>2, <1>4, <1>5, <2>2, <2>3
      DEF Resolves, Restores, Holds, Resolving, Activating, history
    <2>5. Kept'
      BY <1>2, <2>2, <2>3 DEF Kept, history
    <2>6. Survivor' \in {current'} \cup attempted'
      BY <1>2, <2>1, <2>2, <2>3, SurvivorIs DEF CarefulInv, history
    <2>7. \A q \in Procs \ {p} : proc[q].pc = "idle"
      BY <1>1, <1>5 DEF RestoreBase, Offline
    <2> QED
      BY <1>1, <1>4, <2>4, <2>5, <2>6, <2>7, LoneStep
  <1> QED
    BY <1>1, <1>2, <1>4, <1>5, <1>7, <1>8, <1>9, <1>10, HistoryTyped, DiskStep
    DEF history, restoreBudgets

LEMMA ActivateMarkKeeps ==
  ASSUME RestoreInv, NEW p \in Procs, ActivateMark(p)
  PROVE  RestoreInv'
  <1> DEFINE c == proc[p].candidate
             x == AtTarget(proc[p], "activate_retain", Root, c)
  <1>1. /\ RestoreBase /\ RestoreTypeOK /\ Shape(p) /\ proc[p] \in ProcRecords
        /\ fs \in [Paths -> Directories \cup {Absent}] /\ previous \in Seq(Directories)
    BY TypeParts DEF RestoreInv, RestoreBase, RestoreTypeOK
  <1>2. /\ proc[p].pc = "activate" /\ UNCHANGED <<fs, previous, history, restoreBudgets>>
        /\ Ready(c) /\ marker' = c
        /\ proc' = [proc EXCEPT ![p] = x]
    BY DEF ActivateMark, ProcAt, AtTarget
  <1>3. /\ proc[p].job = "restore" /\ c \in Candidates /\ c \in Paths /\ c # Root
        /\ c # Absent /\ proc[p].container \in Containers /\ proc[p].leased = FALSE
    <2>1. proc[p].job = "restore"
      BY <1>1, <1>2 DEF Shape
    <2>2. c \in Candidates /\ proc[p].container \in Containers
      BY <1>1, <2>1 DEF Shape
    <2>3. ~proc[p].leased /\ proc[p].leased \in BOOLEAN
      BY <1>1, <1>2, TypeParts DEF Shape
    <2> QED
      BY <2>1, <2>2, <2>3, PathFacts
  <1>4. /\ x \in ProcRecords /\ x.pc = "activate_retain" /\ x.job = proc[p].job
        /\ x.target = Root /\ x.candidate = c /\ x.found = c
        /\ x.leased = proc[p].leased /\ x.container = proc[p].container
    <2>1. "activate_retain" \in ProcPcs
      BY DEF ProcPcs
    <2> QED
      BY <1>1, <1>3, <2>1, ProcTarget, PathFacts
  <1> HIDE DEF x
  <1>5. proc'[p] = x /\ Others(p)
    BY <1>1, <1>2, <1>4, ProcSet
  <1>6. \A h \in Procs : Carried(h)' => Carried(h)
    BY <1>2 DEF Carried
  <1>7. Shape(p)'
    BY <1>3, <1>4, <1>5 DEF Shape, Activating
  <1>8. ASSUME CarefulHost PROVE CarefulInv'
    <2>1. CarefulInv /\ Restores(p)
      BY <1>8 DEF RestoreInv, CarefulInv
    <2>2. /\ Db(Root) = served /\ proc[p].container \in attempted
          /\ ~settled /\ Db(c) = proc[p].container
      BY <1>2, <1>3, <2>1 DEF Restores, Activating
    <2>3. /\ Db(Root)' = Db(Root) /\ Ready(marker)' /\ Db(marker)' = proc[p].container
      BY <1>2, <2>2 DEF Db, Ready
    <2>4. Resolves(p)' /\ Restores(p)' /\ Holds(p)'
      BY <1>2, <1>3, <1>4, <1>5, <2>2, <2>3
      DEF Resolves, Restores, Holds, Resolving, Activating, history
    <2>5. Kept'
      BY <1>2, <2>2, <2>3 DEF Kept, history
    <2>6. Survivor' \in {current'} \cup attempted'
      BY <1>2, <1>3, <2>2, <2>3, SurvivorIs DEF history
    <2>7. \A q \in Procs \ {p} : proc[q].pc = "idle"
      BY <1>1, <1>3 DEF RestoreBase, Offline
    <2> QED
      BY <1>1, <1>5, <2>4, <2>5, <2>6, <2>7, LoneStep
  <1> QED
    BY <1>1, <1>2, <1>3, <1>4, <1>6, <1>7, <1>8, HistoryTyped, DiskStep
    DEF history, restoreBudgets

LEMMA ActivateDoneKeeps ==
  ASSUME RestoreInv, NEW p \in Procs, ActivateDone(p)
  PROVE  RestoreInv'
  <1>1. /\ RestoreBase /\ RestoreTypeOK /\ Shape(p) /\ proc[p] \in ProcRecords
        /\ fs \in [Paths -> Directories \cup {Absent}] /\ previous \in Seq(Directories)
    BY TypeParts DEF RestoreInv, RestoreBase, RestoreTypeOK
  <1>2. /\ proc[p].pc = "activate_done"
        /\ UNCHANGED <<fs, previous, taken, served, settled, restoreBudgets>>
        /\ marker' = Absent /\ current' = proc[p].container /\ attempted' = {}
        /\ proc' = [proc EXCEPT ![p] = Idle]
    BY DEF ActivateDone, ProcAt
  <1>3. /\ proc[p].job = "restore" /\ proc[p].container \in Containers
        /\ proc[p].leased = FALSE /\ Idle.leased = FALSE
    <2>1. proc[p].job = "restore"
      BY <1>1, <1>2 DEF Shape, Activating
    <2>2. ~proc[p].leased /\ proc[p].leased \in BOOLEAN
      BY <1>1, <1>2, TypeParts DEF Shape, Activating
    <2> QED
      BY <1>1, <2>1, <2>2 DEF Shape, Idle
  <1>4. proc'[p] = Idle /\ Others(p)
    BY <1>1, <1>2, IdleIs, ProcSet
  <1>5. \A h \in Procs : Carried(h)' => Carried(h)
    BY <1>2 DEF Carried
  <1>6. Shape(p)' /\ Resolves(p)' /\ Restores(p)' /\ Holds(p)'
    BY <1>4, IdleShape
  <1>7. ASSUME CarefulHost PROVE CarefulInv'
    <2>1. CarefulInv /\ Restores(p)
      BY <1>7 DEF RestoreInv, CarefulInv
    <2>2. Db(Root) = proc[p].container /\ ~settled
      BY <1>2, <1>3, <2>1 DEF Restores, Activating
    <2>3. Db(Root)' = Db(Root) /\ PreviousDb' = PreviousDb
      BY <1>2 DEF Db, PreviousDb
    <2>4. Kept'
      BY <1>2, <2>1, <2>2, <2>3 DEF CarefulInv, Kept
    <2>5. Survivor' \in {current'} \cup attempted'
      BY <1>2, <2>2, <2>3, SurvivorIs
    <2>6. \A q \in Procs \ {p} : proc[q].pc = "idle"
      BY <1>1, <1>3 DEF RestoreBase, Offline
    <2> QED
      BY <1>1, <1>4, <1>6, <2>4, <2>5, <2>6, LoneStep
  <1>8. current' \in Databases
    BY <1>2, <1>3 DEF Databases
  <1> QED
    BY <1>1, <1>2, <1>3, <1>4, <1>5, <1>6, <1>7, <1>8, HistoryTyped, IdleIs, DiskStep
    DEF restoreBudgets

-----------------------------------------------------------------------------
(* The invariant of opens and restores holds, and what it says.            *)

LEMMA InitRestore == RestoreInit => RestoreInv
  <1> SUFFICES ASSUME RestoreInit PROVE RestoreInv
    OBVIOUS
  <1> DEFINE d == [EmptyDir EXCEPT !.db = Original, !.containers = Taken]
  <1>1. /\ host \in Hosts /\ previous = <<>> /\ marker = Absent
        /\ proc = [p \in Procs |-> Idle] /\ taken = Taken /\ current = Original
        /\ attempted = {} /\ served = Original /\ settled = TRUE
        /\ killed = 0 /\ faulted = 0 /\ restores = 0
        /\ fs = [path \in Paths |-> IF path = Root THEN d ELSE Absent]
    BY DEF RestoreInit
  <1>2. d \in Directories /\ d.db = Original /\ d.holder = Absent /\ d # Absent
    <2>1. Original \in Databases /\ Taken \subseteq Containers
      BY NamesAssumption DEF Databases
    <2>2. d \in Directories /\ d.db = Original /\ d.holder = Absent
      BY <2>1, EmptyDirIs DEF Directories
    <2> QED
      BY <2>2, NamesAssumption
  <1> HIDE DEF d
  <1>3. /\ fs \in [Paths -> Directories \cup {Absent}] /\ fs[Root] = d
        /\ \A path \in Paths : fs[path] = d \/ fs[path] = Absent
    BY <1>1, <1>2, PathFacts
  <1>4. RestoreTypeOK
    <2>1. proc \in [Procs -> ProcRecords] /\ previous \in Seq(Directories)
      BY <1>1, IdleIs
    <2>2. Original \in Databases /\ Taken \subseteq Containers
      BY NamesAssumption DEF Databases
    <2> QED
      BY <1>1, <1>3, <2>1, <2>2 DEF RestoreTypeOK, ProcRecords
  <1>5. ASSUME NEW p \in Procs
        PROVE  Shape(p) /\ Resolves(p) /\ Restores(p) /\ Holds(p) /\ proc[p].pc = "idle"
               /\ proc[p].job = "none"
    <2>1. proc[p] = Idle
      BY <1>1
    <2> QED
      BY <2>1, IdleIs DEF Shape, Resolves, Restores, Holds, OpenPcs, Resolving, Activating
  <1>6. NoStrandedLease
    BY <1>1, <1>2, <1>3 DEF NoStrandedLease
  <1>7. RestoreBase
    BY <1>4, <1>5, <1>6 DEF RestoreBase, Offline
  <1>8. CarefulInv
    <2>1. Db(Root) = Original
      BY <1>2, <1>3 DEF Db
    <2> QED
      BY <1>1, <1>5, <2>1, SurvivorIs DEF CarefulInv, Lone, Kept
  <1> QED
    BY <1>7, <1>8 DEF RestoreInv

LEMMA StillRestore ==
  ASSUME RestoreInv, UNCHANGED restoreVars
  PROVE  RestoreInv'
  <1>1. RestoreBase'
    BY DEF RestoreInv, RestoreBase, RestoreTypeOK, Shape, Offline, NoStrandedLease, restoreVars
  <1>2. CarefulHost' => CarefulInv'
    BY DEF RestoreInv, CarefulHost, CarefulInv, Resolves, Restores, Holds, Lone, Kept,
           Survivor, Ready, Db, PreviousDb, restoreVars
  <1> QED
    BY <1>1, <1>2 DEF RestoreInv

LEMMA RestoreStepKeeps ==
  ASSUME RestoreInv, [RestoreNext]_restoreVars
  PROVE  RestoreInv'
  <1>1. CASE UNCHANGED restoreVars
    BY <1>1, StillRestore
  <1>2. CASE RestoreNext
    <2> PICK p \in Procs :
          \/ OpenBegin(p) \/ OpenStep(p) \/ Close(p)
          \/ \E b \in Containers : CreateBackup(p, b) \/ RestoreBegin(p, b)
          \/ RestoreStep(p)
          \/ Fault(p) \/ KillProcess(p)
      BY <1>2 DEF RestoreNext
    <2>1. CASE OpenBegin(p)
      BY <2>1, OpenBeginKeeps
    <2>2. CASE OpenStep(p)
      <3>1. CASE Acquire(p, "acquire", "probe") \/ Acquire(p, "reacquire", "inspect")
        BY <3>1, AcquireKeeps
      <3>2. CASE DataRootInUse(p) \/ SwapFails(p) \/ InstallFails(p)
        BY <3>2, ProcessEnds
      <3>3. CASE ProbeMarker(p) \/ ReadMarker(p)
        BY <3>3, ProbeMarkerKeeps, ReadMarkerKeeps
      <3>4. CASE Retain(p, "retain", "swap")
        BY <3>4, RetainKeeps
      <3>5. CASE Swap(p, "swap", "unmark")
        BY <3>5, SwapKeeps
      <3>6. CASE DiscardCandidate(p) \/ Unmark(p)
        BY <3>6, DiscardKeeps, UnmarkKeeps
      <3>7. CASE Prune(p) \/ Install(p)
        BY <3>7, PruneKeeps, InstallKeeps
      <3> QED
        BY <2>2, <3>1, <3>2, <3>3, <3>4, <3>5, <3>6, <3>7 DEF OpenStep
    <2>3. CASE Close(p) \/ Fault(p) \/ KillProcess(p)
      BY <2>3, ProcessEnds
    <2>4. CASE \E b \in Containers : CreateBackup(p, b) \/ RestoreBegin(p, b)
      BY <2>4, CreateBackupKeeps, RestoreBeginKeeps
    <2>5. CASE RestoreStep(p)
      <3>1. CASE CopyContainer(p) \/ CloseCandidate(p) \/ FinalizeCandidate(p)
        BY <3>1, CopyContainerKeeps, CloseCandidateKeeps, FinalizeKeeps
      <3>2. CASE ActivateMark(p) \/ ActivateDone(p)
        BY <3>2, ActivateMarkKeeps, ActivateDoneKeeps
      <3>3. CASE Retain(p, "activate_retain", "activate_swap")
        BY <3>3, RetainKeeps
      <3>4. CASE Swap(p, "activate_swap", "activate_done")
        BY <3>4, SwapKeeps
      <3> QED
        BY <2>5, <3>1, <3>2, <3>3, <3>4 DEF RestoreStep
    <2> QED
      BY <2>1, <2>2, <2>3, <2>4, <2>5
  <1> QED
    BY <1>1, <1>2

LEMMA RestoreInvHolds == RestoreSpec => []RestoreInv
  <1>1. RestoreInv /\ [RestoreNext]_restoreVars => RestoreInv'
    BY RestoreStepKeeps
  <1> QED
    BY InitRestore, <1>1, PTL DEF RestoreSpec

\* What a restore and the opens around it guarantee at every instant, also one
\* at which a process is killed: what the next open would serve is the database
\* the last completed call left or the container of a restore begun since; what
\* the last kernel served is on disk until another is open; an open kernel has
\* settled what was pending and alone holds the root; and no lock outlives its
\* holder.
THEOREM RestoreIsSafe == RestoreSpec => []RestoreSafety
  <1>1. RestoreInv => RestoreSafety
    <2> SUFFICES ASSUME RestoreInv PROVE RestoreSafety
      OBVIOUS
    <2>1. RestoreTypeOK /\ NoStrandedLease /\ RestoreBase
      BY DEF RestoreInv, RestoreBase
    <2>2. KillSafe
      BY DEF KillSafe, RestoreInv, CarefulInv
    <2>3. PreviousRetained
      <3> SUFFICES ASSUME CarefulHost
                   PROVE  \/ \E path \in Paths : fs[path] # Absent /\ fs[path].db = served
                          \/ \E i \in DOMAIN previous : previous[i].db = served
        BY DEF PreviousRetained
      <3>1. (Db(Root) = served \/ PreviousDb = served) /\ served # Absent
        BY HistoryTyped DEF RestoreInv, CarefulInv, Kept
      <3>2. CASE Db(Root) = served
        BY <3>1, <3>2, PathFacts DEF Db
      <3>3. CASE PreviousDb = served
        <4>1. previous # <<>> /\ previous \in Seq(Directories)
          BY <2>1, <3>1, <3>3 DEF PreviousDb, RestoreTypeOK
        <4>2. Len(previous) \in DOMAIN previous
          BY <4>1
        <4> QED
          BY <3>3, <4>1, <4>2 DEF PreviousDb
      <3> QED
        BY <3>1, <3>2, <3>3
    <2>4. OpenSettles
      <3> SUFFICES ASSUME CarefulHost, NEW p \in Procs, proc[p].pc = "opened"
                   PROVE  marker = Absent /\ Len(previous) <= 1
        BY DEF OpenSettles, ProcAt
      <3>1. Resolves(p) /\ Shape(p) /\ proc[p] \in ProcRecords
        BY <2>1, TypeParts DEF RestoreInv, CarefulInv, RestoreBase
      <3>2. proc[p].job = "open"
        BY <3>1 DEF Shape, ProcRecords
      <3> QED
        BY <3>1, <3>2 DEF Resolves
    <2>5. LeaseExclusive
      <3>1. ASSUME CarefulHost, NEW p \in Procs, proc[p].pc = "opened"
            PROVE  fs[Root] # Absent /\ fs[Root].holder = p
        <4>1. Holds(p) /\ Shape(p) /\ proc[p] \in ProcRecords
          BY <2>1, <3>1, TypeParts DEF RestoreInv, CarefulInv, RestoreBase
        <4>2. proc[p].job = "open" /\ proc[p].leased
          BY <3>1, <4>1 DEF Shape, ProcRecords
        <4> QED
          BY <4>1, <4>2 DEF Holds
      <3> QED
        BY <3>1 DEF LeaseExclusive, ProcAt
    <2> QED
      BY <2>1, <2>2, <2>3, <2>4, <2>5 DEF RestoreSafety
  <1> QED
    BY <1>1, RestoreInvHolds, PTL

\* Only an open that has inspected the root opens a kernel.
OpensNone == \A r \in Procs : proc'[r].pc = "opened" => proc[r].pc = "opened"

LEMMA OpensNoneSet ==
  ASSUME RestoreInv, NEW p \in Procs, NEW x \in ProcRecords,
         proc' = [proc EXCEPT ![p] = x], x.pc # "opened"
  PROVE  OpensNone
  <1>1. proc'[p] = x /\ Others(p)
    BY HistoryTyped, ProcSet
  <1> QED
    BY <1>1 DEF OpensNone, Others

LEMMA GotoOpensNone ==
  ASSUME RestoreInv, NEW p \in Procs, NEW c \in ProcPcs, Goto(p, c), c # "opened"
  PROVE  OpensNone
  BY GotoIs, OpensNoneSet

LEMMA OpenedByInstall ==
  ASSUME RestoreInv, RestoreNext, NEW r \in Procs, proc[r].pc # "opened",
         proc'[r].pc = "opened"
  PROVE  Install(r)
  <1>1. ~OpensNone
    BY DEF OpensNone
  <1> PICK p \in Procs :
        \/ OpenBegin(p) \/ OpenStep(p) \/ Close(p)
        \/ \E b \in Containers : CreateBackup(p, b) \/ RestoreBegin(p, b)
        \/ RestoreStep(p)
        \/ Fault(p) \/ KillProcess(p)
    BY DEF RestoreNext
  <1>2. proc[p] \in ProcRecords /\ Shape(p)
    BY HistoryTyped, TypeParts DEF RestoreBase
  <1>3. CASE OpenBegin(p)
    <2> DEFINE a == "acquire"
               j == "open"
               x == [Idle EXCEPT !.pc = a, !.job = j]
    <2>1. a \in ProcPcs /\ a # "opened" /\ j \in {"none", "open", "restore"}
      BY DEF ProcPcs, Staging
    <2>2. proc' = [proc EXCEPT ![p] = x]
      BY <1>3 DEF OpenBegin
    <2> HIDE DEF a, j
    <2>3. x \in ProcRecords /\ x.pc = a
      BY <2>1, IdleIs DEF ProcRecords, ProcPcs
    <2> HIDE DEF x
    <2> QED
      BY <1>1, <2>1, <2>2, <2>3, OpensNoneSet
  <1>4. CASE \E c \in {"acquire", "reacquire"}, n \in {"probe", "inspect"} : Acquire(p, c, n)
    <2> PICK c \in {"acquire", "reacquire"}, n \in {"probe", "inspect"} : Acquire(p, c, n)
      BY <1>4
    <2>1. n \in ProcPcs /\ n # "opened"
      BY DEF ProcPcs, Staging
    <2>2. proc' = [proc EXCEPT ![p] = AtLeased(proc[p], n, TRUE)]
      BY DEF Acquire, AtLeased
    <2>3. /\ AtLeased(proc[p], n, TRUE) \in ProcRecords
          /\ AtLeased(proc[p], n, TRUE).pc = n
      BY <1>2, <2>1, ProcLeased
    <2> QED
      BY <1>1, <2>1, <2>2, <2>3, OpensNoneSet
  <1>5. CASE DataRootInUse(p) \/ SwapFails(p) \/ InstallFails(p) \/ Close(p) \/ Fault(p)
             \/ KillProcess(p) \/ ActivateDone(p)
    <2>1. proc' = [proc EXCEPT ![p] = Idle]
      BY <1>5
      DEF DataRootInUse, SwapFails, InstallFails, Close, Fault, KillProcess, ActivateDone,
          Failed
    <2> QED
      BY <1>1, <2>1, IdleIs, OpensNoneSet
  <1>6. CASE ProbeMarker(p)
    <2>1. "resolve" \in ProcPcs
      BY DEF ProcPcs, Staging
    <2>2. CASE proc' = [proc EXCEPT ![p] = AtLeased(proc[p], "resolve", FALSE)]
      BY <1>1, <1>2, <2>1, <2>2, ProcLeased, OpensNoneSet
    <2>3. CASE Goto(p, "resolve")
      BY <1>1, <2>1, <2>3, GotoOpensNone
    <2> QED
      BY <1>6, <2>2, <2>3 DEF ProbeMarker, AtLeased
  <1>7. CASE ReadMarker(p)
    <2> DEFINE c == IF marker = Absent THEN "prune"
                    ELSE IF Ready(marker) THEN "retain" ELSE "discard"
    <2>1. proc' = [proc EXCEPT ![p] = AtFound(proc[p], c, marker)]
      BY <1>7 DEF ReadMarker, AtFound
    <2>2. c \in ProcPcs /\ c # "opened"
      BY DEF ProcPcs, Staging
    <2>3. marker \in Paths \cup {Absent}
      BY HistoryTyped, PathFacts
    <2> HIDE DEF c
    <2> QED
      BY <1>1, <1>2, <2>1, <2>2, <2>3, ProcFound, OpensNoneSet
  <1>8. CASE \E c \in {"swap", "activate_swap", "unmark", "activate_done", "prune", "inspect",
                       "reacquire", "acquire", "activate"} : Goto(p, c)
    <2> PICK c \in {"swap", "activate_swap", "unmark", "activate_done", "prune", "inspect",
                    "reacquire", "acquire", "activate"} : Goto(p, c)
      BY <1>8
    <2>1. c \in ProcPcs /\ c # "opened"
      BY DEF ProcPcs, Staging
    <2> QED
      BY <1>1, <2>1, GotoOpensNone
  <1>9. CASE Install(p)
    <2> DEFINE n == IF proc[p].job = "open" THEN "opened" ELSE "checked"
    <2>1. Goto(p, n) /\ n \in ProcPcs
      BY <1>9 DEF Install, ProcPcs, Staging
    <2> HIDE DEF n
    <2>2. Others(p)
      BY <2>1, GotoIs
    <2> QED
      BY <1>9, <2>2 DEF Others
  <1>10. CASE \E b \in Containers : CreateBackup(p, b)
    BY <1>1, <1>10 DEF CreateBackup, OpensNone
  <1>11. CASE \E b \in Containers : RestoreBegin(p, b)
    <2> PICK b \in Containers : RestoreBegin(p, b)
      BY <1>11
    <2> DEFINE c == restores + 1
    <2>1. proc' = [proc EXCEPT ![p] = AtRestore(c, b)]
      BY DEF RestoreBegin, AtRestore
    <2>2. c \in Paths
      <3>1. host.restores \in 0 .. MaxRestores /\ restores \in Nat /\ MaxRestores \in Nat
        BY HistoryTyped, HostAssumption, PathFacts
      <3>2. restores < host.restores
        BY DEF RestoreBegin
      <3> QED
        BY <3>1, <3>2 DEF Paths
    <2> HIDE DEF c
    <2> QED
      BY <1>1, <2>1, <2>2, ProcRestore, OpensNoneSet
  <1>12. CASE CloseCandidate(p)
    <2>1. "finalize" \in ProcPcs
      BY DEF ProcPcs
    <2>2. proc' = [proc EXCEPT ![p] = AtLeased(proc[p], "finalize", FALSE)]
      BY <1>12 DEF CloseCandidate, AtLeased
    <2> QED
      BY <1>1, <1>2, <2>1, <2>2, ProcLeased, OpensNoneSet
  <1>13. CASE ActivateMark(p)
    <2>1. "activate_retain" \in ProcPcs
      BY DEF ProcPcs
    <2>2. proc[p].candidate \in Paths \cup {Absent}
      BY <1>2 DEF ProcRecords
    <2>3. proc' = [proc EXCEPT ![p] = AtTarget(proc[p], "activate_retain", Root,
                                               proc[p].candidate)]
      BY <1>13 DEF ActivateMark, AtTarget
    <2> QED
      BY <1>1, <1>2, <2>1, <2>2, <2>3, PathFacts, ProcTarget, OpensNoneSet
  <1>14. CASE DiscardCandidate(p) \/ Unmark(p) \/ Prune(p)
              \/ Retain(p, "retain", "swap") \/ Swap(p, "swap", "unmark")
    BY <1>8, <1>14 DEF DiscardCandidate, Unmark, Prune, Retain, Swap
  <1>15. CASE CopyContainer(p) \/ FinalizeCandidate(p)
              \/ Retain(p, "activate_retain", "activate_swap")
              \/ Swap(p, "activate_swap", "activate_done")
    BY <1>8, <1>15 DEF CopyContainer, FinalizeCandidate, Retain, Swap
  <1> QED
    BY <1>3, <1>4, <1>5, <1>6, <1>7, <1>9, <1>10, <1>11, <1>12, <1>13, <1>14, <1>15
    DEF OpenStep, RestoreStep

\* open, for a host that starts one kernel while an activation is pending: a
\* kernel is opened on what survived, the database the last completed call left
\* or the container of a restore begun since, and on nothing else.
THEOREM OpensAreVerified ==
  RestoreSpec => [][CarefulHost => \A p \in Procs :
                      ~ProcAt(p, "opened") /\ proc'[p].pc = "opened" =>
                      served' \in {current} \cup attempted]_restoreVars
  <1>1. ASSUME RestoreInv, RestoreNext, CarefulHost, NEW p \in Procs,
               ~ProcAt(p, "opened"), proc'[p].pc = "opened"
        PROVE  served' \in {current} \cup attempted
    <2>1. Install(p)
      BY <1>1, OpenedByInstall DEF ProcAt
    <2>2. /\ CarefulInv /\ Resolves(p) /\ Shape(p) /\ proc[p] \in ProcRecords
      BY <1>1, HistoryTyped, TypeParts DEF RestoreInv, CarefulInv, RestoreBase
    <2>3. proc[p].pc = "inspect" /\ marker = Absent /\ Survivor = Db(Root)
      BY <2>1, <2>2, SurvivorIs DEF Install, ProcAt, Resolves
    <2>4. proc[p].job = "open"
      <3>1. CASE proc[p].job # "open"
        <4>1. Goto(p, "checked") /\ "checked" \in ProcPcs
          BY <2>1, <3>1 DEF Install, ProcPcs, Staging
        <4>2. OpensNone
          BY <1>1, <4>1, GotoOpensNone
        <4> QED
          BY <1>1, <4>2 DEF OpensNone, ProcAt
      <3> QED
        BY <3>1
    <2>5. Db(Root) \in {current} \cup attempted /\ Db(Root) # Absent
      BY <1>1, <2>2, <2>3, HistoryTyped DEF CarefulInv
    <2>6. served' = Db(Root)
      BY <2>1, <2>2, <2>4, <2>5 DEF Install, Shape, Db
    <2> QED
      BY <2>5, <2>6
  <1>2. RestoreInv /\ [RestoreNext]_restoreVars =>
          [CarefulHost => \A p \in Procs :
             ~ProcAt(p, "opened") /\ proc'[p].pc = "opened" =>
             served' \in {current} \cup attempted]_restoreVars
    BY <1>1
  <1> QED
    BY <1>2, RestoreInvHolds, PTL DEF RestoreSpec

-----------------------------------------------------------------------------
(* The asset store.  Every registered asset keeps its file unless its key   *)
(* is published again, for any number of ids, keys, blobs, calls, kills and *)
(* faults.                                                                  *)

\* The registered keys whose file nobody replaced.
Held == Referenced \ reused

\* What the call in progress holds of the store.  A publish has renamed the
\* file into place before it inserts, and a registered key under it is then
\* among the reused ones; a delete unlinks a key that its row has left.
CallInv ==
    /\ call.pc \in {"temp", "insert"} => call.id \in Ids /\ call.blob \in Blobs
    /\ call.pc # "idle" => call.key \in Keys
    /\ call.pc \in {"insert", "undo", "unlink"} => call.key \notin Held
    /\ call.pc = "temp" => temps > 0
    /\ call.pc = "insert" => files[call.key] = call.blob

\* publish_asset: the relative key names one asset; two rows never share a
\* file, so deleting one asset takes no other's.
KeysUnique ==
    \A i, j \in Ids : rows[i] # None /\ rows[j] # None /\ i # j =>
        rows[i].key # rows[j].key

StoreInv == TypeOK /\ KeysUnique /\ RegisteredIntact /\ CallInv

-----------------------------------------------------------------------------

\* A registered key is the key of some row.
LEMMA ReferencedKey ==
    ASSUME NEW key
    PROVE  key \in Referenced <=> \E id \in Ids : rows[id] # None
                                                  /\ rows[id].key = key
BY DEF Referenced

\* The empty store satisfies the invariant.
LEMMA InitStore == Init => StoreInv
BY NoneAssumption
   DEF Init, StoreInv, TypeOK, KeysUnique, RegisteredIntact, CallInv, NoCall

\* publish_asset writes its temp file under any key.
LEMMA PublishTempStore ==
    ASSUME StoreInv,
           NEW id \in Ids, NEW key \in Keys, NEW blob \in Blobs,
           PublishTemp(id, key, blob)
    PROVE  StoreInv'
<1>1. TypeOK'
  BY DEF StoreInv, TypeOK, PublishTemp
<1>2. Referenced' = Referenced
  BY DEF PublishTemp, Referenced
<1>3. KeysUnique' /\ RegisteredIntact'
  BY DEF StoreInv, KeysUnique, RegisteredIntact, PublishTemp
<1>4. CallInv'
  BY <1>2 DEF StoreInv, TypeOK, PublishTemp, CallInv
<1> QED BY <1>1, <1>3, <1>4 DEF StoreInv

\* The rename touches only the call's own key, reused when it is registered.
LEMMA PublishRenameStore == StoreInv /\ PublishRename => StoreInv'
<1> SUFFICES ASSUME StoreInv, PublishRename PROVE StoreInv'
  OBVIOUS
<1>1. call.key \in Keys /\ call.blob \in Blobs /\ call.id \in Ids
  BY DEF StoreInv, CallInv, PublishRename, At
<1>2. Referenced' = Referenced /\ Held' = Held \ {call.key}
  BY DEF PublishRename, Referenced, Held
<1>3. TypeOK'
  BY <1>1 DEF StoreInv, TypeOK, CallInv, PublishRename, At, budgets
<1>4. KeysUnique'
  BY DEF StoreInv, KeysUnique, PublishRename
<1>5. RegisteredIntact'
  <2> SUFFICES ASSUME NEW id \in Ids, rows[id] # None, rows[id].key \notin reused'
               PROVE  files'[rows[id].key] = rows[id].blob
    BY DEF RegisteredIntact, PublishRename
  <2>1. rows[id].key \in Referenced
    BY ReferencedKey
  <2>2. rows[id].key # call.key /\ rows[id].key \notin reused
    BY <2>1 DEF PublishRename
  <2>3. rows[id].key \in Keys /\ files[rows[id].key] = rows[id].blob
    BY <2>2 DEF StoreInv, TypeOK, RegisteredIntact
  <2> QED BY <1>1, <2>2, <2>3 DEF PublishRename, StoreInv, TypeOK
<1>6. CallInv'
  BY <1>1, <1>2 DEF PublishRename, CallInv, StoreInv, TypeOK
<1> QED BY <1>3, <1>4, <1>5, <1>6 DEF StoreInv

\* The INSERT registers the file that the rename put there, under a key of
\* its own.
LEMMA PublishInsertStore == StoreInv /\ PublishInsert => StoreInv'
<1> SUFFICES ASSUME StoreInv, PublishInsert PROVE StoreInv'
  OBVIOUS
<1> DEFINE asset == [key |-> call.key, blob |-> call.blob]
<1>1. /\ call.id \in Ids /\ call.blob \in Blobs /\ call.key \in Keys
      /\ call.key \notin Referenced
      /\ files[call.key] = call.blob
  BY DEF StoreInv, CallInv, PublishInsert, At, Inserts
<1>2. /\ asset \in [key : Keys, blob : Blobs]
      /\ asset.key = call.key /\ asset.blob = call.blob
  BY <1>1
<1>3. rows' = [rows EXCEPT ![call.id] = asset]
  BY DEF PublishInsert
<1> HIDE DEF asset
<1>4. \A id \in Ids : rows'[id] = IF id = call.id THEN asset ELSE rows[id]
  BY <1>1, <1>3 DEF StoreInv, TypeOK
<1>5. \A id \in Ids : rows[id] # None => rows[id].key # call.key
  BY <1>1, ReferencedKey
<1>6. TypeOK'
  BY <1>2, <1>3 DEF StoreInv, TypeOK, PublishInsert, Return, NoCall, budgets
<1>7. KeysUnique'
  BY <1>2, <1>4, <1>5 DEF StoreInv, KeysUnique
<1>8. RegisteredIntact'
  BY <1>1, <1>2, <1>4 DEF StoreInv, RegisteredIntact, PublishInsert
<1>9. CallInv'
  BY DEF CallInv, PublishInsert, Return, NoCall
<1> QED BY <1>6, <1>7, <1>8, <1>9 DEF StoreInv

\* Steps that change nothing of the store but, at most, drop temp files, and
\* whose call goes on with the same key or returns.
LEMMA QuietStore ==
    ASSUME StoreInv,
           UNCHANGED <<rows, files, reused>>, TypeOK',
           \/ call' = NoCall
           \/ /\ call.pc = "insert"
              /\ call'.pc = "undo" /\ call'.key = call.key
           \/ UNCHANGED <<call, temps>>
    PROVE  StoreInv'
<1>1. Held' = Held
  BY DEF Referenced, Held
<1>2. KeysUnique' /\ RegisteredIntact'
  BY DEF StoreInv, KeysUnique, RegisteredIntact
<1>3. CallInv'
  <2>1. CASE call' = NoCall
    BY <2>1 DEF CallInv, NoCall
  <2>2. CASE call.pc = "insert" /\ call'.pc = "undo" /\ call'.key = call.key
    BY <1>1, <2>2 DEF StoreInv, CallInv
  <2>3. CASE UNCHANGED <<call, temps>>
    BY <1>1, <2>3 DEF StoreInv, CallInv
  <2> QED BY <2>1, <2>2, <2>3
<1> QED BY <1>2, <1>3 DEF StoreInv

\* Removing the file of a key that no row has, or that was reused, harms no
\* other asset.
LEMMA RemovalStore ==
    ASSUME StoreInv, NEW STATE K, K \subseteq Keys, K \cap Held = {},
           UNCHANGED <<rows, reused>>, TypeOK',
           (call' = call /\ call.pc = "idle") \/ call' = NoCall,
           files' = [key \in Keys |-> IF key \in K THEN None ELSE files[key]]
    PROVE  StoreInv'
<1>1. KeysUnique'
  BY DEF StoreInv, KeysUnique
<1>2. RegisteredIntact'
  <2> SUFFICES ASSUME NEW id \in Ids, rows[id] # None, rows[id].key \notin reused
               PROVE  files'[rows[id].key] = rows[id].blob
    BY DEF RegisteredIntact
  <2>1. rows[id].key \in Held
    BY ReferencedKey DEF Held
  <2>2. rows[id].key \in Keys /\ files[rows[id].key] = rows[id].blob
    BY DEF StoreInv, TypeOK, RegisteredIntact
  <2> QED BY <2>1, <2>2
<1>3. CallInv'
  BY DEF CallInv, NoCall
<1> QED BY <1>1, <1>2, <1>3 DEF StoreInv

\* remove_file, after a failed INSERT or a deleted row.
LEMMA RemoveFileStore ==
    ASSUME StoreInv, NEW pc \in {"undo", "unlink"}, RemoveFile(pc)
    PROVE  StoreInv'
<1>1. call.key \in Keys /\ call.key \notin Held
  BY DEF StoreInv, CallInv, RemoveFile, At
<1>2. TypeOK'
  BY <1>1 DEF StoreInv, TypeOK, RemoveFile, Return, NoCall, budgets
<1>3. files' = [key \in Keys |-> IF key \in {call.key} THEN None ELSE files[key]]
  BY <1>1 DEF StoreInv, TypeOK, RemoveFile
<1>4. {call.key} \subseteq Keys /\ {call.key} \cap Held = {}
  BY <1>1
<1> QED BY <1>2, <1>3, <1>4, RemovalStore DEF RemoveFile, Return

\* delete_asset: the key that the row leaves belongs to no other row.
LEMMA DeleteRowStore ==
    ASSUME StoreInv, NEW id \in Ids, DeleteRow(id)
    PROVE  StoreInv'
<1>1. rows[id] # None /\ rows[id].key \in Keys
  BY DEF StoreInv, TypeOK, DeleteRow
<1>2. \A i \in Ids : rows'[i] = IF i = id THEN None ELSE rows[i]
  BY DEF StoreInv, TypeOK, DeleteRow
<1>3. TypeOK'
  <2>1. call' = [pc |-> "unlink", id |-> None, key |-> rows[id].key,
                 blob |-> None]
    BY DEF DeleteRow, NoCall
  <2>2. rows' \in [Ids -> [key : Keys, blob : Blobs] \cup {None}]
    BY DEF StoreInv, TypeOK, DeleteRow
  <2>3. call' \in [pc : {"idle", "temp", "insert", "undo", "unlink"},
                   id : Ids \cup {None}, key : Keys \cup {None},
                   blob : Blobs \cup {None}]
    BY <1>1, <2>1
  <2>4. /\ UNCHANGED <<files, temps, aged, kills, faults>>
        /\ calls' = calls + 1 /\ reused' \subseteq reused
    BY DEF DeleteRow
  <2> QED BY <2>2, <2>3, <2>4 DEF StoreInv, TypeOK
<1>4. KeysUnique' /\ RegisteredIntact'
  BY <1>2 DEF StoreInv, KeysUnique, RegisteredIntact, DeleteRow
<1>5. call'.pc = "unlink" /\ call'.key = rows[id].key
  BY DEF DeleteRow, NoCall
<1>6. rows[id].key \notin Held'
  BY <1>1, <1>2 DEF Referenced, Held, StoreInv, KeysUnique
<1>7. CallInv'
  BY <1>1, <1>5, <1>6 DEF CallInv
<1> QED BY <1>3, <1>4, <1>7 DEF StoreInv

\* gc_orphans removes unreferenced files only.
LEMMA GcStore == StoreInv /\ (GcOrphans \/ GcInterrupted) => StoreInv'
<1> SUFFICES ASSUME StoreInv, GcOrphans \/ GcInterrupted PROVE StoreInv'
  OBVIOUS
<1> DEFINE Orphans == {key \in Keys : Orphan(key)}
<1>1. Orphans \subseteq Keys /\ Orphans \cap Held = {}
  BY DEF Orphan, Held
<1>2. CASE GcOrphans
  <2>1. files' = [key \in Keys |-> IF key \in Orphans THEN None ELSE files[key]]
    BY <1>2 DEF GcOrphans
  <2>2. TypeOK'
    BY <1>2 DEF StoreInv, TypeOK, GcOrphans, budgets
  <2> QED BY <1>1, <1>2, <2>1, <2>2, RemovalStore DEF GcOrphans, At
<1>3. CASE GcInterrupted
  <2>1. PICK removed \in SUBSET Orphans :
          /\ files' = [key \in Keys |->
                         IF key \in removed THEN None ELSE files[key]]
          /\ aged' = aged \ removed
    BY <1>3 DEF GcInterrupted
  <2>2. TypeOK'
    BY <1>3, <2>1 DEF StoreInv, TypeOK, GcInterrupted
  <2> QED BY <1>1, <1>3, <2>1, <2>2, RemovalStore DEF GcInterrupted, At
<1> QED BY <1>2, <1>3

\* The invariant is inductive.
LEMMA NextStore == ASSUME StoreInv, [Next]_vars PROVE StoreInv'
<1>1. CASE \E id \in Ids, key \in Keys, blob \in Blobs :
             PublishTemp(id, key, blob)
  BY <1>1, PublishTempStore
<1>2. CASE \E id \in Ids : DeleteRow(id)
  BY <1>2, DeleteRowStore
<1>3. CASE PublishRename
  BY <1>3, PublishRenameStore
<1>4. CASE PublishInsert
  BY <1>4, PublishInsertStore
<1>5. CASE PublishConflict
  <2>1. TypeOK'
    BY <1>5 DEF StoreInv, TypeOK, PublishConflict, store, budgets
  <2> QED BY <1>5, <2>1, QuietStore
           DEF PublishConflict, At, store, StoreInv, TypeOK
<1>6. CASE RemoveFile("undo") \/ RemoveFile("unlink")
  BY <1>6, RemoveFileStore
<1>7. CASE PublishAborted
  <2>1. TypeOK'
    BY <1>7 DEF StoreInv, TypeOK, CallInv, PublishAborted, At, Return, NoCall
  <2> QED BY <1>7, <2>1, QuietStore DEF PublishAborted, Return
<1>8. CASE InsertFault
  <2>1. TypeOK'
    BY <1>8 DEF StoreInv, TypeOK, InsertFault, store
  <2> QED BY <1>8, <2>1, QuietStore
           DEF InsertFault, At, store, StoreInv, TypeOK
<1>9. CASE RemoveIgnored
  <2>1. TypeOK'
    BY <1>9 DEF StoreInv, TypeOK, RemoveIgnored, Return, NoCall, store
  <2> QED BY <1>9, <2>1, QuietStore DEF RemoveIgnored, Return, store
<1>10. CASE GcOrphans \/ GcInterrupted
  BY <1>10, GcStore
<1>11. CASE \E key \in Keys : Age(key)
  <2>1. TypeOK'
    BY <1>11 DEF StoreInv, TypeOK, Age, budgets
  <2> QED BY <1>11, <2>1, QuietStore DEF Age
<1>12. CASE Kill
  <2>1. TypeOK'
    BY <1>12 DEF StoreInv, TypeOK, Kill, Return, NoCall, store
  <2> QED BY <1>12, <2>1, QuietStore DEF Kill, Return, store
<1>13. CASE UNCHANGED vars
  <2>1. TypeOK'
    BY <1>13 DEF StoreInv, TypeOK, vars
  <2> QED BY <1>13, <2>1, QuietStore DEF vars
<1> QED
  BY <1>1, <1>2, <1>3, <1>4, <1>5, <1>6, <1>7, <1>8, <1>9, <1>10, <1>11,
     <1>12, <1>13 DEF Next, Writer

\* publish_asset, delete_asset and gc_orphans: whatever callers publish, a
\* registered asset whose key was not published again has its file with its
\* content after every step, kill and fault.
THEOREM RegistrySound == Spec => []RegisteredIntact
<1>1. StoreInv /\ [Next]_vars => StoreInv'
  BY NextStore
<1>2. StoreInv => RegisteredIntact
  BY DEF StoreInv
<1> QED BY <1>1, <1>2, InitStore, PTL DEF Spec
=============================================================================
