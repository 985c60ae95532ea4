---------------------------- MODULE KernelProofs ----------------------------
(***************************************************************************)
(* Parts of the plugin kernel in the web client and of the plugin SDK,     *)
(* proved for every value of their constants: the draft writer (the        *)
(* committed message is whole, rows only grow), the event relay (no event  *)
(* passed over, sound cursors, a bounded window), the session (the reader  *)
(* gets what was written, calls settle once), the consent ledger (answers  *)
(* come from decisions), the frames of plugins (what is gone is gone       *)
(* whole, only what is due goes) and the roles of windows (each plugin     *)
(* knows its own).                                                         *)
(***************************************************************************)
EXTENDS KernelSession, DraftWriter, EventRelay, WindowRoles, PluginGrants, PluginFrames,
        FiniteSetTheorems, WellFoundedInduction, TLAPS

-----------------------------------------------------------------------------
(* The draft writer.                                                       *)

Requests == [kind : {"patch", "commit", "delete"}, text : Nat, seq : Nat]
DraftRecords == [live : BOOLEAN, text : Nat, seq : Nat, dirty : BOOLEAN,
                 timer : BOOLEAN, queued : Nat]
RowRecords == [text : Nat, seq : Nat, committed : BOOLEAN]

DraftTypeOK ==
    /\ draft \in DraftRecords
    /\ flush \in [seq : Nat, text : Nat]
    /\ ending \in {"none", "flushing", "tail", "posting", "failed", "committed",
                   "aborting", "deleting", "deleted"}
    /\ wire \subseteq Requests
    /\ row \in RowRecords \cup {NoRow}
    /\ message \in Nat \cup {-1}
    /\ overlapped \in BOOLEAN

Patches == {p \in wire : p.kind = "patch"}

\* Texts grow with their sequence numbers, on the wire and in the row, up to
\* the client's own: the order of arrival does not matter.
WireInv ==
    /\ \A p \in Patches : p.seq <= draft.seq /\ p.text <= draft.text /\ p.seq > 0
    /\ \A p \in wire : p.kind = "commit" => p = CommitRequest
    /\ \A p, q \in Patches : /\ p.seq < q.seq => p.text <= q.text
                             /\ p.seq = q.seq => p.text = q.text

RowInv ==
    row # NoRow =>
      /\ row.seq <= draft.seq /\ row.text <= draft.text
      /\ \A p \in Patches : p.seq > row.seq => row.text <= p.text
      /\ \A p \in Patches : p.seq <= row.seq => p.text <= row.text

\* The PATCH under way is the last one sent; once it has arrived, the row has
\* its text.  Without an overlap that text is all there is.
FlushInv ==
    flush # NoFlush =>
      /\ flush.seq = draft.seq /\ flush.seq > 0 /\ flush.text <= draft.text
      /\ ~overlapped => flush.text = draft.text
      /\ \A p \in Patches : p.seq = flush.seq => p.text = flush.text
      /\ Arrived /\ row # NoRow => row.text = flush.text
      /\ \A p \in Patches : p.text <= flush.text
      /\ row # NoRow => row.text <= flush.text

\* A clean draft is in its row, and only a clean draft is committed.
CleanInv ==
    /\ ~overlapped /\ ~draft.dirty /\ row # NoRow => row.text = draft.text
    /\ CommitRequest \in wire => ~draft.dirty /\ ~draft.live
    /\ ending \in {"posting", "committed"} => ~draft.dirty
    /\ draft.live <=> ending = "none"
    /\ ending = "tail" => flush # NoFlush
    /\ message # -1 => ~draft.live /\ (~overlapped => message = draft.text)
    /\ ending = "committed" => message # -1

DraftInv == DraftTypeOK /\ WireInv /\ RowInv /\ FlushInv /\ CleanInv

LEMMA InitDraft == DraftInit => DraftInv
  <1> SUFFICES ASSUME DraftInit PROVE DraftInv
    OBVIOUS
  <1>1. DraftTypeOK
    BY DEF DraftInit, DraftTypeOK, NoFlush, DraftRecords, RowRecords
  <1>2. WireInv /\ RowInv /\ FlushInv
    BY DEF DraftInit, WireInv, RowInv, FlushInv, Patches
  <1>3. CleanInv
    BY DEF DraftInit, CleanInv
  <1> QED
    BY <1>1, <1>2, <1>3 DEF DraftInv

LEMMA NextDraft == DraftInv /\ [DraftNext]_draftVars => DraftInv'
  <1> SUFFICES ASSUME DraftInv, [DraftNext]_draftVars PROVE DraftInv'
    OBVIOUS
  <1> USE DEF DraftInv, DraftTypeOK, WireInv, RowInv, FlushInv, CleanInv,
         NoFlush, Patches, DraftRecords, RowRecords, Requests, Arrived, PatchRequest, CommitRequest,
         DeleteRequest
  <1>1. CASE FlushTimer
    <2> DEFINE no == FALSE
               n == draft.queued + 1
    <2>1. /\ draft' = [draft EXCEPT !.timer = no, !.queued = n]
          /\ no \in BOOLEAN /\ n \in Nat
          /\ UNCHANGED <<flush, ending, wire, row, message, overlapped>>
      BY <1>1 DEF FlushTimer
    <2> HIDE DEF no, n
    <2>2. /\ draft' \in DraftRecords
          /\ draft'.text = draft.text /\ draft'.seq = draft.seq
          /\ draft'.dirty = draft.dirty /\ draft'.live = draft.live
      BY <2>1
    <2> QED
      BY <2>1, <2>2
  <1>2. CASE FlushDraft
    <2> DEFINE n == draft.queued - 1
               m == draft.seq + 1
    <2>1. /\ draft' = [[draft EXCEPT !.queued = n] EXCEPT !.seq = m]
          /\ n \in Nat /\ m \in Nat
          /\ flush' = [seq |-> draft.seq + 1, text |-> draft.text]
          /\ wire' = wire \cup {PatchRequest(draft.text, draft.seq + 1)}
          /\ UNCHANGED <<ending, row, message, overlapped>>
      BY <1>2 DEF FlushDraft, SendPatch
    <2>2. /\ draft' \in DraftRecords
          /\ draft'.text = draft.text /\ draft'.seq = draft.seq + 1
          /\ draft'.dirty = draft.dirty /\ draft'.live = draft.live
      <3> HIDE DEF n
      <3> QED
        BY <2>1
    <2>3. DraftTypeOK' /\ WireInv'
      BY <2>1, <2>2
    <2>4. RowInv' /\ FlushInv'
      BY <2>1, <2>2
    <2>5. CleanInv'
      BY <2>1, <2>2
    <2> QED
      BY <2>3, <2>4, <2>5
  <1>3. CASE FlushEnds
    <2> DEFINE no == FALSE
    <2>1. /\ flush # NoFlush /\ flush' = NoFlush /\ ending # "tail" /\ no = FALSE
          /\ UNCHANGED <<ending, wire, row, message, overlapped>>
          /\ draft' = draft \/ (Arrived /\ row # NoRow /\ draft' = [draft EXCEPT !.dirty = no])
      BY <1>3 DEF FlushEnds
    <2>2. /\ draft' \in DraftRecords
          /\ draft'.text = draft.text /\ draft'.seq = draft.seq /\ draft'.live = draft.live
          /\ draft'.queued = draft.queued
          /\ draft'.dirty = draft.dirty \/ (Arrived /\ row # NoRow /\ ~draft'.dirty)
      <3>1. CASE draft' = draft
        BY <3>1
      <3>2. CASE Arrived /\ row # NoRow /\ draft' = [draft EXCEPT !.dirty = no]
        <4> HIDE DEF no
        <4> QED
          BY <2>1, <3>2
      <3> QED
        BY <2>1, <3>1, <3>2
    <2>3. DraftTypeOK' /\ WireInv'
      BY <2>1, <2>2
    <2>4. RowInv' /\ FlushInv'
      BY <2>1, <2>2
    <2>5. CleanInv'
      BY <2>1, <2>2
    <2> QED
      BY <2>3, <2>4, <2>5
  <1>4. CASE CommitTail
    BY <1>4 DEF CommitTail, SendPatch, Post
  <1>5. CASE TailEnds
    <2>1. CASE /\ Arrived /\ row # NoRow /\ Post
               /\ draft' = [draft EXCEPT !.dirty = FALSE]
      <3> DEFINE no == FALSE
      <3>1. draft' = [draft EXCEPT !.dirty = no] /\ no = FALSE
        BY <2>1
      <3> HIDE DEF no
      <3>2. /\ draft' \in DraftRecords
            /\ draft'.text = draft.text /\ draft'.seq = draft.seq
            /\ ~draft'.dirty /\ draft'.live = draft.live
        BY <3>1
      <3>3. DraftTypeOK' /\ WireInv' /\ RowInv' /\ FlushInv'
        BY <1>5, <2>1, <3>2 DEF TailEnds, Post
      <3>4. CleanInv'
        BY <1>5, <2>1, <3>2 DEF TailEnds, Post
      <3> QED
        BY <3>3, <3>4
    <2>2. CASE ending' = "failed" /\ UNCHANGED <<draft, wire>>
      BY <1>5, <2>2 DEF TailEnds
    <2> QED
      BY <1>5, <2>1, <2>2 DEF TailEnds
  <1>6. CASE CommitEnds
    BY <1>6 DEF CommitEnds
  <1>7. CASE AbortDeletes \/ DeleteEnds \/ SweepRow
    BY <1>7 DEF AbortDeletes, DeleteEnds, SweepRow
  <1>8. ASSUME NEW p \in wire, Arrive(p) PROVE DraftInv'
    <2>1. /\ wire' = wire \ {p} /\ UNCHANGED <<draft, flush, ending, overlapped>>
      BY <1>8 DEF Arrive
    <2>2. CASE row = NoRow /\ row' = row /\ message' = message
      BY <2>1, <2>2
    <2>3. CASE row # NoRow /\ p.kind = "patch" /\ row' = UpdateRow(p) /\ message' = message
      <3>1. CASE p.seq <= row.seq
        BY <2>1, <2>3, <3>1 DEF UpdateRow
      <3>2. CASE p.seq > row.seq
        <4>1. row' = [row EXCEPT !.text = p.text, !.seq = p.seq]
          BY <2>3, <3>2 DEF UpdateRow
        <4>2. row' \in RowRecords /\ row'.text = p.text /\ row'.seq = p.seq
          BY <2>3, <4>1
        <4>3. DraftTypeOK' /\ WireInv' /\ RowInv'
          BY <2>1, <2>3, <3>2, <4>2
        <4>4. FlushInv'
          BY <2>1, <2>3, <3>2, <4>2
        <4>5. CleanInv'
          BY <2>1, <2>3, <3>2, <4>2
        <4> QED
          BY <4>3, <4>4, <4>5
      <3> QED
        BY <2>3, <3>1, <3>2
    <2>4. CASE row # NoRow /\ p.kind = "commit" /\ CommitRow
      <3>1. CASE row.committed
        BY <2>1, <2>4, <3>1 DEF CommitRow
      <3>2. CASE ~row.committed
        <4>1. message' = row.text /\ row' = [row EXCEPT !.committed = TRUE]
          BY <2>4, <3>2 DEF CommitRow
        <4>2. row' \in RowRecords /\ row'.text = row.text /\ row'.seq = row.seq
          BY <2>4, <4>1
        <4>3. p = CommitRequest
          BY <2>4
        <4>4. DraftTypeOK' /\ WireInv' /\ RowInv' /\ FlushInv'
          BY <2>1, <2>4, <4>1, <4>2
        <4>5. CleanInv'
          BY <2>1, <2>4, <4>1, <4>2, <4>3
        <4> QED
          BY <4>4, <4>5
      <3> QED
        BY <3>1, <3>2
    <2>5. CASE row' = NoRow /\ message' = message
      BY <2>1, <2>5
    <2> QED
      BY <1>8, <2>2, <2>3, <2>4, <2>5 DEF Arrive
  <1>9. ASSUME NEW p \in wire, LoseRequest(p) PROVE DraftInv'
    BY <1>9 DEF LoseRequest
  <1>10. CASE AppendText
    <2> DEFINE yes == TRUE
               n == draft.text + 1
    <2>1. /\ draft.live /\ yes = TRUE /\ yes \in BOOLEAN
          /\ n = draft.text + 1 /\ n \in Nat
          /\ draft' = [draft EXCEPT !.text = n, !.dirty = yes, !.timer = yes]
          /\ overlapped' = (overlapped \/ flush # NoFlush)
          /\ UNCHANGED <<flush, ending, wire, row, message>>
      BY <1>10 DEF AppendText
    <2>2. /\ draft' \in DraftRecords
          /\ draft'.text = draft.text + 1 /\ draft'.seq = draft.seq
          /\ draft'.dirty /\ draft'.live = draft.live
      <3> HIDE DEF yes, n
      <3> QED
        BY <2>1
    <2>3. DraftTypeOK' /\ WireInv' /\ RowInv'
      BY <2>1, <2>2
    <2>4. FlushInv'
      BY <2>1, <2>2
    <2>5. CleanInv'
      BY <2>1, <2>2
    <2> QED
      BY <2>3, <2>4, <2>5
  <1>11. CASE CommitDraft \/ AbortDraft
    <2> DEFINE no == FALSE
    <2>1. /\ draft.live /\ draft' = [draft EXCEPT !.live = no, !.timer = no] /\ no = FALSE
          /\ no \in BOOLEAN /\ ending' \in {"flushing", "aborting"}
          /\ UNCHANGED <<flush, wire, row, message, overlapped>>
      BY <1>11 DEF CommitDraft, AbortDraft
    <2>2. /\ draft' \in DraftRecords /\ ~draft'.live
          /\ draft'.text = draft.text /\ draft'.seq = draft.seq /\ draft'.dirty = draft.dirty
      <3> HIDE DEF no
      <3> QED
        BY <2>1
    <2>3. DraftTypeOK' /\ WireInv'
      BY <2>1, <2>2
    <2>4. RowInv' /\ FlushInv'
      BY <2>1, <2>2
    <2>5. CleanInv'
      BY <2>1, <2>2
    <2> QED
      BY <2>3, <2>4, <2>5
  <1>12. CASE DisposeDrafts
    <2> DEFINE no == FALSE
    <2>1. /\ draft.live /\ no = FALSE
          /\ draft' = [draft EXCEPT !.live = no, !.timer = no]
          /\ ending' = "deleting" /\ wire' = wire \cup {DeleteRequest}
          /\ UNCHANGED <<flush, row, message, overlapped>>
      BY <1>12 DEF DisposeDrafts
    <2>2. /\ draft' \in DraftRecords
          /\ draft'.text = draft.text /\ draft'.seq = draft.seq
          /\ draft'.dirty = draft.dirty /\ ~draft'.live
      <3> HIDE DEF no
      <3> QED
        BY <2>1
    <2>3. DraftTypeOK' /\ WireInv' /\ RowInv' /\ FlushInv'
      BY <2>1, <2>2
    <2>4. CleanInv'
      BY <2>1, <2>2
    <2> QED
      BY <2>3, <2>4
  <1>13. CASE UNCHANGED draftVars
    BY <1>13 DEF draftVars
  <1> QED
    BY <1>1, <1>2, <1>3, <1>4, <1>5, <1>6, <1>7, <1>8, <1>9, <1>10, <1>11, <1>12,
       <1>13 DEF DraftNext, DraftRuns

\* A plugin whose commit of a draft is acknowledged finds all its text in the
\* message, however PATCHes, failures and late arrivals interleave, unless it
\* appended while a PATCH was under way (chat.draft.commit, flushDraft).
THEOREM CommitsAreWhole == DraftSpec => []CommitWholeUnlessOverlapped
  <1>1. DraftInv => CommitWholeUnlessOverlapped
    BY DEF DraftInv, CleanInv, CommitWholeUnlessOverlapped, CommitWhole
  <1> QED
    BY <1>1, InitDraft, NextDraft, PTL DEF DraftSpec

\* Late, repeated and reordered PATCHes neither take text out of a row nor
\* bring a deleted or swept draft back (MessageDraftRepository.update).
THEOREM RowsOnlyGrow == DraftSpec => NoRollback
  <1> DEFINE Grows == /\ row = NoRow => row' = NoRow
                      /\ row # NoRow /\ row' # NoRow => row.text <= row'.text
  <1>1. DraftInv /\ [DraftNext]_draftVars => [Grows]_draftVars
    <2> SUFFICES ASSUME DraftInv, DraftNext PROVE Grows
      OBVIOUS
    <2>1. ASSUME row # NoRow PROVE row.text \in Nat /\ row.text <= row.text
      BY <2>1 DEF DraftInv, DraftTypeOK, RowRecords
    <2>2. ASSUME NEW p \in wire, Arrive(p) PROVE Grows
      <3>1. CASE row = NoRow
        BY <2>2, <3>1 DEF Arrive
      <3>2. CASE row # NoRow
        <4>0. row \in RowRecords /\ p \in Requests
          BY <3>2 DEF DraftInv, DraftTypeOK
        <4>1. CASE p.kind = "patch" /\ row' = UpdateRow(p)
          <5>1. p.seq > row.seq => row.text <= p.text
            BY <3>2, <4>1 DEF DraftInv, RowInv, Patches
          <5> QED
            BY <2>1, <3>2, <4>0, <4>1, <5>1 DEF UpdateRow, RowRecords, Requests
        <4>2. CASE CommitRow
          BY <2>1, <3>2, <4>0, <4>2 DEF CommitRow, RowRecords
        <4>3. CASE row' = NoRow
          BY <3>2, <4>3
        <4> QED
          BY <2>2, <3>2, <4>1, <4>2, <4>3 DEF Arrive
      <3> QED
        BY <3>1, <3>2
    <2>3. CASE row' = row
      BY <2>1, <2>3
    <2>4. CASE SweepRow
      BY <2>4 DEF SweepRow
    <2> QED
      BY <2>2, <2>3, <2>4 DEF DraftNext, DraftRuns, FlushTimer, FlushDraft, FlushEnds,
         CommitTail, TailEnds, CommitEnds, AbortDeletes, DeleteEnds, AppendText,
         CommitDraft, AbortDraft, DisposeDrafts, LoseRequest
  <1> QED
    BY <1>1, InitDraft, NextDraft, PTL DEF DraftSpec, NoRollback

-----------------------------------------------------------------------------
(* The event relay.                                                        *)

SubRecords == [last : Nat, unacked : SUBSET Nat, paused : BOOLEAN]

RelayTypeOK ==
    /\ low \in Nat \ {0} /\ head \in Nat /\ low <= head + 1
    /\ since \in Nat
    /\ sub # NoSub => sub \in SubRecords /\ IsFiniteSet(sub.unacked)

\* What has left the history since the subscription started was delivered, or
\* is accounted for.
LeftAccounted ==
    sub # NoSub => \A seq \in since + 1 .. low - 1 : seq \in got \cup evicted \cup lost

RelayInv ==
    RelayTypeOK /\ LeftAccounted /\ NothingSkipped /\ CursorSoundUnlessBlank /\ WindowBound

LEMMA MaxOfPair ==
  ASSUME NEW a \in Int, NEW b \in Int
  PROVE  Max({a, b}) \in Int /\ Max({a, b}) >= a /\ Max({a, b}) >= b
  <1>1. \E x \in {a, b} : \A y \in {a, b} : x >= y
    <2>1. CASE a >= b
      BY <2>1
    <2>2. CASE b >= a
      BY <2>2
    <2> QED
      BY <2>1, <2>2
  <1> QED
    BY <1>1 DEF Max

\* The first record that is pending, and what deliver sends from it on.
First(s, l) == IF l > s.last THEN l ELSE s.last + 1
Room(s) == InFlight - Cardinality(s.unacked)

LEMMA SentIs ==
  ASSUME NEW s, s \in SubRecords, IsFiniteSet(s.unacked), NEW l \in Nat \ {0}, NEW h \in Nat
  PROVE  /\ Pending(s, l, h) = First(s, l) .. h
         /\ Sent(s, l, h) = IF s.paused THEN {}
                            ELSE {seq \in First(s, l) .. h : seq - First(s, l) < Room(s)}
  <1> DEFINE a == First(s, l)
  <1>1. s.last \in Nat /\ a \in Nat \ {0}
    BY DEF SubRecords, First
  <1>2. Pending(s, l, h) = a .. h
    BY <1>1 DEF Pending, First
  <1>3. ASSUME NEW seq \in a .. h
        PROVE  Cardinality({t \in a .. h : t < seq}) = seq - a
    <2>1. {t \in a .. h : t < seq} = a .. seq - 1
      BY <1>1
    <2> HIDE DEF a
    <2>2. Cardinality(a .. seq - 1) = seq - a
      BY <1>1, FS_Interval
    <2> QED
      BY <2>1, <2>2
  <1> QED
    BY <1>2, <1>3 DEF Sent, Room

\* deliver passes over nothing that is retained, and fills the window at most.
LEMMA DeliverSound ==
  ASSUME NEW s, s \in SubRecords, IsFiniteSet(s.unacked), NEW l \in Nat \ {0}, NEW h \in Nat,
         Cardinality(s.unacked) <= InFlight
  PROVE  LET d == Delivered(s, l, h) IN
         /\ d \in SubRecords /\ IsFiniteSet(d.unacked)
         /\ Cardinality(d.unacked) <= InFlight
         /\ \A seq \in s.last + 1 .. d.last : seq < l \/ seq \in Sent(s, l, h)
  <1> DEFINE a == First(s, l)
             S == Sent(s, l, h)
             k == Room(s)
             d == Delivered(s, l, h)
             m == IF a + k - 1 < h THEN a + k - 1 ELSE h
  <1>1. /\ s.last \in Nat /\ s.unacked \in SUBSET Nat /\ s.paused \in BOOLEAN
        /\ a \in Nat \ {0} /\ a > s.last /\ a >= l /\ (a > l => a = s.last + 1)
    BY DEF SubRecords, First
  <1>2. Cardinality(s.unacked) \in Nat /\ InFlight \in Nat
    BY FS_CardinalityType, RelayAssumption
  <1>3. k \in Nat /\ k + Cardinality(s.unacked) = InFlight /\ m \in Int
    BY <1>1, <1>2 DEF Room
  <1>4. S = {} \/ S = a .. m
    <2>1. CASE s.paused
      BY <2>1, SentIs
    <2>2. CASE ~s.paused
      <3>1. S = {seq \in a .. h : seq - a < k}
        BY <2>2, SentIs
      <3> HIDE DEF S, a, k
      <3>2. ASSUME NEW x \in Int PROVE x \in S <=> x \in a .. m
        BY <1>1, <1>3, <3>1
      <3>3. S \subseteq Int /\ a .. m \subseteq Int
        BY <1>1, <1>3, <3>1
      <3> QED
        BY <3>2, <3>3
    <2> QED
      BY <2>1, <2>2
  <1>5. /\ d.last = Max(S \cup {s.last}) /\ d.unacked = s.unacked \cup S
        /\ d.paused \in BOOLEAN
        /\ d = [last |-> d.last, unacked |-> d.unacked, paused |-> d.paused]
    BY <1>1 DEF Delivered
  <1> HIDE DEF S, a, k, d
  <1>6. IsFiniteSet(S) /\ Cardinality(S) <= k /\ S \subseteq Nat
    <2>1. CASE S = {}
      BY <1>3, <2>1, FS_EmptySet
    <2>2. CASE S = a .. m
      <3>1. /\ IsFiniteSet(a .. m)
            /\ Cardinality(a .. m) = IF a > m THEN 0 ELSE m - a + 1
        <4>1. a \in Int /\ m \in Int
          BY <1>1, <1>3
        <4> HIDE DEF m
        <4> QED
          BY <4>1, FS_Interval
      <3> QED
        BY <1>1, <1>3, <2>2, <3>1
    <2> QED
      BY <1>4, <2>1, <2>2
  <1>7. IsFiniteSet(d.unacked) /\ Cardinality(d.unacked) <= InFlight
    <2>1. /\ IsFiniteSet(s.unacked \cup S)
          /\ Cardinality(s.unacked \cup S)
               = Cardinality(s.unacked) + Cardinality(S) - Cardinality(s.unacked \cap S)
      BY <1>6, FS_Union
    <2>2. Cardinality(s.unacked \cap S) \in Nat /\ Cardinality(S) \in Nat
      <3>1. IsFiniteSet(s.unacked \cap S)
        BY <1>6, FS_Subset
      <3> QED
        BY <1>6, <3>1, FS_CardinalityType
    <2> QED
      BY <1>2, <1>3, <1>5, <1>6, <2>1, <2>2
  <1>8. /\ d.last \in Nat
        /\ \A seq \in s.last + 1 .. d.last : seq < l \/ seq \in S
    <2>1. CASE S = {} \/ m < a
      <3>1. S \cup {s.last} = {s.last}
        BY <1>1, <1>3, <1>4, <2>1
      <3>2. d.last = s.last
        BY <1>1, <1>5, <3>1 DEF Max
      <3> QED
        BY <1>1, <3>2
    <2>2. CASE S = a .. m /\ a <= m
      <3> HIDE DEF m
      <3>1. \A x \in S \cup {s.last} : m >= x
        BY <1>1, <1>3, <2>2
      <3>2. m \in S \cup {s.last} /\ \A x \in S \cup {s.last} : x \in Int
        BY <1>1, <1>3, <2>2
      <3>3. \A x \in S \cup {s.last} : (\A y \in S \cup {s.last} : x >= y) => x = m
        BY <1>3, <3>1, <3>2
      <3>4. Max(S \cup {s.last}) = m
        BY <3>1, <3>2, <3>3 DEF Max
      <3>5. d.last = m /\ m \in Nat
        BY <1>1, <1>3, <1>5, <2>2, <3>4
      <3>6. ASSUME NEW seq \in s.last + 1 .. d.last PROVE seq < l \/ seq \in S
        BY <1>1, <1>3, <2>2, <3>5
      <3> QED
        BY <3>5, <3>6
    <2> QED
      BY <1>1, <1>3, <1>4, <2>1, <2>2
  <1>9. d \in SubRecords
    BY <1>1, <1>5, <1>6, <1>8 DEF SubRecords
  <1> QED
    BY <1>7, <1>8, <1>9 DEF S, d

\* One delivery of the subscription s, after which the history starts at l.
LEMMA DeliverStep ==
  ASSUME NEW s, s \in SubRecords, IsFiniteSet(s.unacked),
         Cardinality(s.unacked) <= InFlight,
         NEW l \in Nat \ {0}, NEW h \in Nat, NEW start \in Nat, NEW set,
         \A seq \in start + 1 .. s.last : seq \in set,
         \A seq \in start + 1 .. l - 1 : seq \in set
  PROVE  LET d == Delivered(s, l, h) IN
         /\ d \in SubRecords /\ IsFiniteSet(d.unacked)
         /\ Cardinality(d.unacked) <= InFlight
         /\ \A seq \in start + 1 .. d.last : seq \in set \cup Sent(s, l, h)
  <1> DEFINE d == Delivered(s, l, h)
  <1>1. /\ d \in SubRecords /\ IsFiniteSet(d.unacked)
        /\ Cardinality(d.unacked) <= InFlight
        /\ \A seq \in s.last + 1 .. d.last : seq < l \/ seq \in Sent(s, l, h)
    BY DeliverSound
  <1>2. s.last \in Nat /\ d.last \in Nat
    BY <1>1 DEF SubRecords
  <1> HIDE DEF d
  <1>3. ASSUME NEW seq \in start + 1 .. d.last PROVE seq \in set \cup Sent(s, l, h)
    <2>1. CASE seq <= s.last
      BY <1>2, <2>1
    <2>2. CASE seq > s.last /\ seq < l
      BY <1>2, <2>2
    <2>3. CASE seq > s.last /\ ~(seq < l)
      BY <1>1, <1>2, <2>3
    <2> QED
      BY <1>2, <2>1, <2>2, <2>3
  <1> QED
    BY <1>1, <1>3 DEF d

LEMMA InitRelay == RelayInit => RelayInv
  <1> SUFFICES ASSUME RelayInit PROVE RelayInv
    OBVIOUS
  <1> QED
    BY DEF RelayInit, RelayInv, RelayTypeOK, LeftAccounted, NothingSkipped,
           CursorSoundUnlessBlank, CursorSound, WindowBound

\* A step that evicts up to l and does not deliver.
LEMMA EvictStep ==
  ASSUME RelayInv, NEW l \in Nat, low <= l, Evict(l), head' \in Nat, l <= head' + 1,
         sub' = sub, UNCHANGED <<since, lost, blank, got>>
  PROVE  RelayInv'
  <1>0. since' = since /\ low' = l
    BY DEF Evict
  <1>1. RelayTypeOK'
    <2>1. low \in Nat \ {0} /\ since \in Nat
      BY DEF RelayInv, RelayTypeOK
    <2>2. since' \in Nat /\ l # 0
      BY <1>0, <2>1
    <2>3. l <= head' + 1 /\ head' \in Nat
      OBVIOUS
    <2>4. low' \in Nat \ {0} /\ head' \in Nat /\ low' <= head' + 1
      BY <1>0, <2>2, <2>3
    <2>5. sub' # NoSub => sub' \in SubRecords /\ IsFiniteSet(sub'.unacked)
      BY DEF RelayInv, RelayTypeOK
    <2> QED
      BY <2>2, <2>4, <2>5 DEF RelayTypeOK
  <1>2. LeftAccounted' /\ NothingSkipped'
    BY DEF RelayInv, RelayTypeOK, LeftAccounted, NothingSkipped, Evict
  <1>3. CursorSoundUnlessBlank' /\ WindowBound'
    BY DEF RelayInv, CursorSoundUnlessBlank, CursorSound, WindowBound
  <1> QED
    BY <1>1, <1>2, <1>3 DEF RelayInv

LEMMA NextRelay == RelayInv /\ [RelayNext]_relayVars => RelayInv'
  <1> SUFFICES ASSUME RelayInv, [RelayNext]_relayVars PROVE RelayInv'
    OBVIOUS
  <1>0. /\ low \in Nat \ {0} /\ head \in Nat /\ low <= head + 1 /\ since \in Nat
        /\ sub # NoSub => /\ sub \in SubRecords /\ IsFiniteSet(sub.unacked)
                          /\ Cardinality(sub.unacked) <= InFlight
                          /\ \A seq \in since + 1 .. sub.last : seq \in got \cup evicted \cup lost
                          /\ \A seq \in since + 1 .. low - 1 : seq \in got \cup evicted \cup lost
    BY DEF RelayInv, RelayTypeOK, LeftAccounted, NothingSkipped, WindowBound
  <1>1. CASE RecordAppEvent
    <2>1. PICK l \in Max({low, head + 2 - PerEvent}) .. head + 1 :
            /\ Evict(l)
            /\ IF sub # NoSub /\ allowed
               THEN DeliverNow(sub, l, head + 1) ELSE UNCHANGED <<sub, got>>
      BY <1>1 DEF RecordAppEvent
    <2>2. head' = head + 1 /\ UNCHANGED <<allowed, resumes, startVars>>
      BY <1>1 DEF RecordAppEvent
    <2>3. l \in Nat \ {0} /\ low <= l /\ l <= head' + 1 /\ head' \in Nat
      <3>1. Max({low, head + 2 - PerEvent}) \in Int /\ Max({low, head + 2 - PerEvent}) >= low
        BY <1>0, MaxOfPair, RelayAssumption
      <3> QED
        BY <1>0, <2>2, <3>1
    <2>4. CASE sub = NoSub \/ ~allowed
      BY <2>1, <2>2, <2>3, <2>4, EvictStep DEF startVars
    <2>5. CASE sub # NoSub /\ allowed
      <3> DEFINE set == got \cup evicted' \cup lost
      <3>1. /\ sub' = Delivered(sub, l, head + 1) /\ got' = got \cup Sent(sub, l, head + 1)
            /\ low' = l /\ evicted' = evicted \cup {seq \in low .. l - 1 : seq \notin got}
            /\ since' = since /\ lost' = lost /\ blank' = blank
        BY <2>1, <2>2, <2>5 DEF DeliverNow, Evict, startVars
      <3>2. /\ \A seq \in since + 1 .. sub.last : seq \in set
            /\ \A seq \in since + 1 .. l - 1 : seq \in set
        BY <1>0, <2>3, <2>5, <3>1
      <3> HIDE DEF set
      <3>3. /\ sub' \in SubRecords /\ IsFiniteSet(sub'.unacked)
            /\ Cardinality(sub'.unacked) <= InFlight
            /\ \A seq \in since + 1 .. sub'.last : seq \in set \cup Sent(sub, l, head + 1)
        BY <1>0, <2>3, <2>5, <3>1, <3>2, DeliverStep
      <3>4. RelayTypeOK' /\ WindowBound'
        BY <1>0, <2>3, <3>1, <3>3 DEF RelayTypeOK, WindowBound
      <3>5. LeftAccounted' /\ NothingSkipped'
        BY <3>1, <3>2, <3>3 DEF LeftAccounted, NothingSkipped, set
      <3>6. CursorSoundUnlessBlank'
        BY <3>1 DEF RelayInv, CursorSoundUnlessBlank, CursorSound
      <3> QED
        BY <3>4, <3>5, <3>6 DEF RelayInv
    <2> QED
      BY <2>4, <2>5
  <1>2. CASE OthersRecorded
    BY <1>0, <1>2, EvictStep DEF OthersRecorded, startVars
  <1>3. CASE Subscribe
    <2>1. UNCHANGED <<low, head>>
      BY <1>3 DEF Subscribe
    <2>2. CASE sub = NoSub
      <3> DEFINE from == IF low <= head THEN head ELSE 0
      <3>1. /\ sub' = Subscribed(from) /\ since' = head /\ lost' = {} /\ from \in Nat
            /\ from <= head
        BY <1>0, <1>3, <2>2 DEF Subscribe
      <3> HIDE DEF from
      <3>2. /\ sub' \in SubRecords /\ IsFiniteSet(sub'.unacked)
            /\ Cardinality(sub'.unacked) = 0 /\ sub'.last = from
        BY <3>1, FS_EmptySet DEF Subscribed, SubRecords
      <3>3. RelayTypeOK' /\ WindowBound'
        BY <1>0, <2>1, <3>1, <3>2, RelayAssumption DEF RelayTypeOK, WindowBound
      <3>4. LeftAccounted' /\ NothingSkipped' /\ CursorSoundUnlessBlank'
        BY <1>0, <2>1, <3>1, <3>2
        DEF LeftAccounted, NothingSkipped, CursorSoundUnlessBlank, CursorSound
      <3> QED
        BY <3>3, <3>4 DEF RelayInv
    <2>3. CASE sub # NoSub
      <3> DEFINE set == got \cup evicted \cup lost
      <3>1. /\ sub' = Delivered(sub, low, head) /\ got' = got \cup Sent(sub, low, head)
            /\ UNCHANGED <<since, evicted, lost, blank>>
        BY <1>3, <2>3 DEF Subscribe, DeliverNow
      <3>2. /\ \A seq \in since + 1 .. sub.last : seq \in set
            /\ \A seq \in since + 1 .. low - 1 : seq \in set
        BY <1>0, <2>3
      <3> HIDE DEF set
      <3>3. /\ sub' \in SubRecords /\ IsFiniteSet(sub'.unacked)
            /\ Cardinality(sub'.unacked) <= InFlight
            /\ \A seq \in since + 1 .. sub'.last : seq \in set \cup Sent(sub, low, head)
        BY <1>0, <2>3, <3>1, <3>2, DeliverStep
      <3>4. RelayTypeOK' /\ WindowBound'
        BY <1>0, <2>1, <3>1, <3>3 DEF RelayTypeOK, WindowBound
      <3>5. LeftAccounted' /\ NothingSkipped'
        BY <2>1, <3>1, <3>2, <3>3 DEF LeftAccounted, NothingSkipped, set
      <3>6. CursorSoundUnlessBlank'
        BY <3>1 DEF RelayInv, CursorSoundUnlessBlank, CursorSound
      <3> QED
        BY <3>4, <3>5, <3>6 DEF RelayInv
    <2> QED
      BY <2>2, <2>3
  <1>4. ASSUME NEW c \in 0 .. head, Resume(c) PROVE RelayInv'
    <2> DEFINE s == Subscribed(c)
               set == c + 1 .. low - 1
    <2>1. /\ sub' = Delivered(s, low, head) /\ got' = Sent(s, low, head) /\ since' = c
          /\ lost' = set /\ blank' = (low > head) /\ CursorAccepted(c)
          /\ UNCHANGED <<low, head>>
      BY <1>4 DEF Resume
    <2>2. /\ s \in SubRecords /\ IsFiniteSet(s.unacked) /\ Cardinality(s.unacked) <= InFlight
          /\ s.last = c
      BY FS_EmptySet, RelayAssumption DEF Subscribed, SubRecords
    <2>3. /\ \A seq \in c + 1 .. s.last : seq \in set
          /\ \A seq \in c + 1 .. low - 1 : seq \in set
          /\ c \in Nat
      BY <1>0, <2>2
    <2> HIDE DEF s, set
    <2>4. /\ sub' \in SubRecords /\ IsFiniteSet(sub'.unacked)
          /\ Cardinality(sub'.unacked) <= InFlight
          /\ \A seq \in c + 1 .. sub'.last : seq \in set \cup Sent(s, low, head)
      BY <1>0, <2>1, <2>2, <2>3, DeliverStep
    <2>5. RelayTypeOK' /\ WindowBound'
      BY <1>0, <2>1, <2>4 DEF RelayTypeOK, WindowBound
    <2>6. LeftAccounted' /\ NothingSkipped'
      BY <2>1, <2>3, <2>4 DEF LeftAccounted, NothingSkipped
    <2>7. CursorSoundUnlessBlank'
      <3>1. CASE low <= head
        BY <1>0, <2>1, <2>3, <3>1
        DEF CursorSoundUnlessBlank, CursorSound, CursorAccepted, set
      <3>2. CASE low > head
        BY <2>1, <3>2 DEF CursorSoundUnlessBlank
      <3> QED
        BY <1>0, <3>1, <3>2
    <2> QED
      BY <2>5, <2>6, <2>7 DEF RelayInv
  <1>5. ASSUME NEW seq \in 1 .. head, Ack(seq) PROVE RelayInv'
    <2> DEFINE acked == [sub EXCEPT !.unacked = @ \ {seq}]
               set == got \cup evicted \cup lost
    <2>1. /\ sub # NoSub /\ UNCHANGED <<low, head, since, lost, blank, evicted>>
      BY <1>5 DEF Ack, startVars
    <2>2. /\ acked \in SubRecords /\ acked.last = sub.last
          /\ acked.unacked = sub.unacked \ {seq} /\ acked.paused = sub.paused
      BY <1>0, <2>1 DEF SubRecords
    <2>3. IsFiniteSet(acked.unacked) /\ Cardinality(acked.unacked) <= InFlight
      <3>1. /\ IsFiniteSet(sub.unacked \ {seq})
            /\ Cardinality(sub.unacked \ {seq}) <= Cardinality(sub.unacked)
        BY <1>0, <2>1, FS_Subset
      <3>2. /\ Cardinality(sub.unacked \ {seq}) \in Nat /\ Cardinality(sub.unacked) \in Nat
            /\ InFlight \in Nat
        BY <1>0, <2>1, <3>1, FS_CardinalityType, RelayAssumption
      <3> QED
        BY <1>0, <2>1, <2>2, <3>1, <3>2
    <2>4. CASE sub' = acked /\ UNCHANGED got
      <3> HIDE DEF acked
      <3> QED
        BY <1>0, <2>1, <2>2, <2>3, <2>4 DEF RelayInv, RelayTypeOK, WindowBound,
           LeftAccounted, NothingSkipped, CursorSoundUnlessBlank, CursorSound
    <2>5. CASE DeliverNow([acked EXCEPT !.paused = FALSE], low, head)
      <3> DEFINE no == FALSE
                 s == [acked EXCEPT !.paused = no]
      <3>1. sub' = Delivered(s, low, head) /\ got' = got \cup Sent(s, low, head)
        BY <2>5 DEF DeliverNow
      <3>2. /\ s \in SubRecords /\ s.unacked = acked.unacked /\ s.last = sub.last
        <4>1. no \in BOOLEAN
          OBVIOUS
        <4> HIDE DEF no, acked
        <4> QED
          BY <2>2, <4>1 DEF SubRecords
      <3>3. /\ \A q \in since + 1 .. s.last : q \in set
            /\ \A q \in since + 1 .. low - 1 : q \in set
        BY <1>0, <2>1, <3>2
      <3> HIDE DEF set, s, acked
      <3>4. /\ sub' \in SubRecords /\ IsFiniteSet(sub'.unacked)
            /\ Cardinality(sub'.unacked) <= InFlight
            /\ \A q \in since + 1 .. sub'.last : q \in set \cup Sent(s, low, head)
        BY <1>0, <2>3, <3>1, <3>2, <3>3, DeliverStep
      <3>5. RelayTypeOK' /\ WindowBound'
        BY <1>0, <2>1, <3>4 DEF RelayTypeOK, WindowBound
      <3>6. LeftAccounted' /\ NothingSkipped'
        BY <2>1, <3>1, <3>3, <3>4 DEF LeftAccounted, NothingSkipped, set
      <3>7. CursorSoundUnlessBlank'
        BY <2>1 DEF RelayInv, CursorSoundUnlessBlank, CursorSound
      <3> QED
        BY <3>5, <3>6, <3>7 DEF RelayInv
    <2> QED
      BY <1>5, <2>4, <2>5 DEF Ack
  <1>6. CASE Unsubscribe
    BY <1>6 DEF Unsubscribe, startVars, RelayInv, RelayTypeOK, WindowBound,
       LeftAccounted, NothingSkipped, CursorSoundUnlessBlank, CursorSound
  <1>7. CASE SetAllowed
    BY <1>7 DEF SetAllowed, startVars, RelayInv, RelayTypeOK, WindowBound,
       LeftAccounted, NothingSkipped, CursorSoundUnlessBlank, CursorSound
  <1>8. CASE UNCHANGED relayVars
    BY <1>8 DEF relayVars, RelayInv, RelayTypeOK, WindowBound,
       LeftAccounted, NothingSkipped, CursorSoundUnlessBlank, CursorSound
  <1> QED
    BY <1>1, <1>2, <1>3, <1>4, <1>5, <1>6, <1>7, <1>8 DEF RelayNext, AckSome

\* A subscription to app events passes over nothing that the history held, a
\* cursor is accepted only when nothing after it is lost (unless nothing was
\* retained), and unacknowledged deliveries never exceed maxInFlight, for
\* every history length and window (kernel/events.ts deliver, subscribe, ack).
THEOREM RelayIsSound == RelaySpec => []RelaySound
  <1>1. RelayInv => RelaySound
    BY DEF RelayInv, RelaySound
  <1> QED
    BY <1>1, InitRelay, NextRelay, PTL DEF RelaySpec

-----------------------------------------------------------------------------
(* The session: what the reader gets is what the writer wrote.             *)

\* A finite set of numbers has a greatest one.
LEMMA MaxIs ==
  ASSUME NEW L \in Nat, NEW S \in SUBSET (0 .. L), S # {}
  PROVE  Max(S) \in S
  <1> DEFINE T == {L - n : n \in S}
  <1>1. T \subseteq Nat /\ T # {}
    <2>1. \A n \in S : n \in Nat /\ L - n \in Nat
      OBVIOUS
    <2>2. T \subseteq Nat
      BY <2>1
    <2>3. T # {}
      <3>1. PICK n \in S : TRUE
        OBVIOUS
      <3>2. L - n \in T
        BY <3>1
      <3> QED
        BY <3>2
    <2> QED
      BY <2>2, <2>3
  <1>2. PICK x \in T : \A y \in T : ~(<<y, x>> \in OpToRel(<, Nat))
    BY <1>1, NatLessThanWellFounded, WFMin
  <1>3. \A y \in T : ~(y < x)
    BY <1>1, <1>2 DEF OpToRel
  <1>4. PICK m \in S : x = L - m
    BY <1>2
  <1>5. \A n \in S : m >= n
    <2> TAKE n \in S
    <2>1. L - n \in T /\ n \in Nat /\ m \in Nat
      OBVIOUS
    <2>2. ~(L - n < L - m)
      BY <1>3, <1>4, <2>1
    <2> QED
      BY <2>1, <2>2
  <1> QED
    BY <1>5 DEF Max

-----------------------------------------------------------------------------
(* The inductive invariant of the session.                                 *)

Envelopes ==
    {RequestOf(c) : c \in Calls} \cup {CancelOf(c) : c \in Calls}
      \cup {ChunkOf(m[1], m[2]) : m \in Nat \X Nat}
      \cup {[kind |-> "stream.open"], [kind |-> "stream.end"], [kind |-> "stream.error"]}
IsChunk(e) == e.kind = "stream.chunk"
OfStream(e) == e.kind \in {"stream.open", "stream.chunk", "stream.end", "stream.error"}

\* The two ends of the stream, as far as the order of the chunks needs them.
Outs(o) == [open : BOOLEAN, credit : {o.credit}, queue : Seq(Nat), queued : {o.queued},
            seq : Nat, sent : {o.sent}, ended : BOOLEAN, errored : BOOLEAN]
Ins(i) == [open : BOOLEAN, known : BOOLEAN, granted : {i.granted}, buffered : Seq(Nat),
           next : Nat, total : {i.total}, ended : BOOLEAN, failed : BOOLEAN]

SessionTyped ==
    /\ calls \in [Calls -> {"idle", "pending"} \cup Settled]
    /\ toB \in Seq(Envelopes)
    /\ downA \in BOOLEAN /\ downB \in BOOLEAN
    /\ out \in Outs(out) /\ in \in Ins(in)
    /\ writer \in {"idle", "full", "woken", "drained"}
    /\ reader \in {"idle", "pulling", "failed", "ended"}
    /\ written \in Seq(Nat) /\ read \in Seq(Nat)

Began == out.open \/ out.ended \/ out.errored

\* The n-th chunk is the number n: what the producer wrote is what went out and
\* what waits in the queue.
Produced ==
    /\ \A i \in DOMAIN written : written[i] = i
    /\ out.seq + Len(out.queue) = Len(written)
    /\ \A i \in DOMAIN out.queue : out.queue[i] = out.seq + i
    /\ out.ended => writer = "idle"
    /\ ~downA => /\ ~Began => out = NoOut
                 /\ writer # "idle" => Began

\* Chunks travel in order, and nothing is written once the end is on the way.
Travelling ==
    /\ \A j \in DOMAIN toB : IsChunk(toB[j]) =>
         toB[j].chunk = toB[j].seq + 1 /\ toB[j].seq < out.seq
    /\ \A j, k \in DOMAIN toB : j < k /\ IsChunk(toB[j]) /\ IsChunk(toB[k]) =>
         toB[j].seq < toB[k].seq
    /\ \A j \in DOMAIN toB : toB[j].kind = "stream.end" => out.ended
    /\ downB => toB = <<>>

\* The stream is opened once, before everything else of it.
Opening ==
    /\ \A j, k \in DOMAIN toB : toB[j].kind = "stream.open" /\ OfStream(toB[k]) => j <= k
    /\ in.known => \A j \in DOMAIN toB : toB[j].kind # "stream.open"
    /\ ~in.known => \A k \in DOMAIN toB : OfStream(toB[k]) =>
         \E j \in DOMAIN toB : j <= k /\ toB[j].kind = "stream.open"
    /\ ~downA /\ ~Began => ~in.known /\ \A k \in DOMAIN toB : ~OfStream(toB[k])
    /\ ~downA /\ ~downB /\ Began /\ ~in.known =>
         \E j \in DOMAIN toB : toB[j].kind = "stream.open"

\* A reader that is not closed finds no gap: when it meets the envelope at j
\* of the port, from the chunk next on, it has come to n.
ComesTo(port, next, n, j) ==
    next = n \/ \E k \in DOMAIN port : k < j /\ IsChunk(port[k]) /\ port[k].seq + 1 = n
InOpen == in.open \/ ~in.known
Contiguous == InOpen =>
    /\ \A j \in DOMAIN toB : IsChunk(toB[j]) => ComesTo(toB, in.next, toB[j].seq, j)
    /\ \A j \in DOMAIN toB : toB[j].kind = "stream.end" => ComesTo(toB, in.next, Len(written), j)
    /\ ~downA /\ ~downB => ComesTo(toB, in.next, out.seq, Len(toB) + 1)

\* What was read, and what waits to be, is what came, in order.
Consumed ==
    /\ ~in.known => in = NoIn /\ read = <<>>
    /\ \A i \in DOMAIN read : read[i] = i
    /\ \A i \in DOMAIN in.buffered : in.buffered[i] = Len(read) + i
    /\ in.open => in.known /\ Len(read) + Len(in.buffered) = in.next
    /\ Len(read) + Len(in.buffered) <= Len(written)
    /\ in.ended => /\ ~in.open /\ out.ended
                   /\ Len(read) + Len(in.buffered) = Len(written)
    /\ reader = "pulling" => in.buffered = <<>>
    /\ reader = "ended" => in.ended /\ in.buffered = <<>>

SessionInv ==
    /\ SessionTyped /\ Produced /\ Travelling /\ Opening /\ Contiguous /\ Consumed
    /\ DisposeSettles

LEMMA EnvelopeIs ==
  ASSUME NEW e \in Envelopes
  PROVE  /\ e.kind \in {"rpc.request", "rpc.cancel", "stream.open", "stream.chunk",
                        "stream.end", "stream.error"}
         /\ IsChunk(e) => e.seq \in Nat /\ e.chunk \in Nat
  <1>1. CASE \E c \in Calls : e = RequestOf(c) \/ e = CancelOf(c)
    BY <1>1 DEF RequestOf, CancelOf, IsChunk
  <1>2. CASE \E m \in Nat \X Nat : e = ChunkOf(m[1], m[2])
    BY <1>2 DEF ChunkOf, IsChunk
  <1>3. CASE e \in {[kind |-> "stream.open"], [kind |-> "stream.end"],
                    [kind |-> "stream.error"]}
    BY <1>3 DEF IsChunk
  <1> QED
    BY <1>1, <1>2, <1>3 DEF Envelopes

LEMMA ChunkIs ==
  ASSUME NEW s \in Nat, NEW i \in Nat
  PROVE  /\ ChunkOf(s, i) \in Envelopes /\ IsChunk(ChunkOf(s, i))
         /\ ChunkOf(s, i).kind = "stream.chunk"
         /\ ChunkOf(s, i).seq = s /\ ChunkOf(s, i).chunk = i
  <1>1. ChunkOf(s, i) \in Envelopes
    <2> DEFINE m == <<s, i>>
    <2>1. m \in Nat \X Nat /\ m[1] = s /\ m[2] = i
      OBVIOUS
    <2> HIDE DEF m
    <2>2. ChunkOf(m[1], m[2]) \in Envelopes
      BY <2>1 DEF Envelopes
    <2> QED
      BY <2>1, <2>2
  <1> QED
    BY <1>1 DEF ChunkOf, IsChunk

\* Envelopes are posted at the end of the port.
LEMMA Joined ==
  ASSUME NEW S, NEW s \in Seq(S), NEW t \in Seq(S)
  PROVE  /\ s \o t \in Seq(S) /\ Len(s \o t) = Len(s) + Len(t)
         /\ \A j \in DOMAIN s : j \in DOMAIN (s \o t) /\ (s \o t)[j] = s[j]
         /\ \A k \in DOMAIN t : Len(s) + k \in DOMAIN (s \o t) /\ (s \o t)[Len(s) + k] = t[k]
         /\ \A j \in DOMAIN (s \o t) :
              j \in DOMAIN s \/ \E k \in DOMAIN t : j = Len(s) + k
  <1>1. s \o t \in Seq(S) /\ Len(s \o t) = Len(s) + Len(t)
    OBVIOUS
  <1>2. /\ DOMAIN s = 1 .. Len(s) /\ DOMAIN t = 1 .. Len(t)
        /\ DOMAIN (s \o t) = 1 .. Len(s) + Len(t) /\ Len(s) \in Nat /\ Len(t) \in Nat
    BY <1>1
  <1>3. \A j \in DOMAIN s : j \in DOMAIN (s \o t) /\ (s \o t)[j] = s[j]
    BY <1>2
  <1>4. \A k \in DOMAIN t : Len(s) + k \in DOMAIN (s \o t) /\ (s \o t)[Len(s) + k] = t[k]
    BY <1>2
  <1>5. ASSUME NEW j \in DOMAIN (s \o t), j \notin DOMAIN s
        PROVE  \E k \in DOMAIN t : j = Len(s) + k
    <2>1. j - Len(s) \in DOMAIN t /\ j = Len(s) + (j - Len(s))
      BY <1>2, <1>5
    <2> QED
      BY <2>1
  <1> QED
    BY <1>1, <1>3, <1>4, <1>5

\* A step of side A that posts n chunks of the queue, and what else es holds.
Posting(n, es) ==
    /\ toB' = PostTo(toB, downA \/ downB, es)
    /\ out'.seq = out.seq + n /\ n <= Len(es)
    /\ \A i \in 1 .. n : es[i] = ChunkOf(out.seq + i - 1, out.seq + i)
    /\ \A i \in DOMAIN es : /\ i > n => ~IsChunk(es[i]) /\ es[i].kind # "stream.open"
                            /\ es[i].kind = "stream.end" =>
                                 out'.ended /\ Len(written') = out'.seq
                            /\ OfStream(es[i]) => downA \/ Began
    /\ Began => Began'
    /\ ~downA /\ Began' => Began
    /\ out.ended => out'.ended /\ written' = written
    /\ Len(written) <= Len(written')
    /\ UNCHANGED <<downA, downB, in, reader, read>>

LEMMA PostingIs ==
  ASSUME SessionInv, NEW n \in Nat, NEW es \in Seq(Envelopes), Posting(n, es),
         ~downA, ~downB
  PROVE  /\ toB' \in Seq(Envelopes) /\ Len(toB') = Len(toB) + Len(es)
         /\ \A j \in DOMAIN toB : j \in DOMAIN toB' /\ toB'[j] = toB[j]
         /\ \A k \in DOMAIN es : Len(toB) + k \in DOMAIN toB' /\ toB'[Len(toB) + k] = es[k]
         /\ \A j \in DOMAIN toB' : j \in DOMAIN toB \/ \E k \in DOMAIN es : j = Len(toB) + k
         /\ \A k \in 1 .. n : /\ k \in DOMAIN es /\ IsChunk(es[k])
                              /\ es[k].kind = "stream.chunk"
                              /\ es[k].seq = out.seq + k - 1 /\ es[k].chunk = out.seq + k
         /\ \A k \in DOMAIN es : k \in Nat /\ k >= 1 /\ (IsChunk(es[k]) <=> k <= n)
         /\ \A j \in DOMAIN toB : j \in Nat /\ 1 <= j /\ j <= Len(toB)
         /\ out.seq \in Nat /\ out'.seq = out.seq + n /\ Len(toB) \in Nat
  <1>1. toB \in Seq(Envelopes) /\ out.seq \in Nat /\ toB' = toB \o es
    BY DEF SessionInv, SessionTyped, Outs, Posting, PostTo
  <1>2. /\ toB' \in Seq(Envelopes) /\ Len(toB') = Len(toB) + Len(es)
        /\ \A j \in DOMAIN toB : j \in DOMAIN toB' /\ toB'[j] = toB[j]
        /\ \A k \in DOMAIN es : Len(toB) + k \in DOMAIN toB' /\ toB'[Len(toB) + k] = es[k]
        /\ \A j \in DOMAIN toB' : j \in DOMAIN toB \/ \E k \in DOMAIN es : j = Len(toB) + k
    BY <1>1, Joined
  <1>3. /\ \A k \in DOMAIN es : k \in Nat /\ k >= 1
        /\ \A j \in DOMAIN toB : j \in Nat /\ 1 <= j /\ j <= Len(toB)
        /\ Len(toB) \in Nat /\ DOMAIN es = 1 .. Len(es) /\ Len(es) \in Nat /\ n <= Len(es)
    BY <1>1 DEF Posting
  <1>4. ASSUME NEW k \in 1 .. n
        PROVE  /\ k \in DOMAIN es /\ IsChunk(es[k]) /\ es[k].kind = "stream.chunk"
               /\ es[k].seq = out.seq + k - 1 /\ es[k].chunk = out.seq + k
    <2>1. es[k] = ChunkOf(out.seq + k - 1, out.seq + k)
      BY DEF Posting
    <2>2. out.seq + k - 1 \in Nat /\ out.seq + k \in Nat /\ k \in DOMAIN es
      BY <1>1, <1>3
    <2> QED
      BY <2>1, <2>2, ChunkIs
  <1>5. ASSUME NEW k \in DOMAIN es PROVE IsChunk(es[k]) <=> k <= n
    <2>1. CASE k <= n
      <3>1. k \in 1 .. n
        BY <1>3, <2>1
      <3> QED
        BY <1>4, <2>1, <3>1
    <2>2. CASE ~(k <= n)
      <3>1. k > n
        BY <1>3, <2>2
      <3> QED
        BY <2>2, <3>1 DEF Posting
    <2> QED
      BY <2>1, <2>2
  <1> QED
    BY <1>1, <1>2, <1>3, <1>4, <1>5 DEF Posting

LEMMA PostedTravelling ==
  ASSUME SessionInv, NEW n \in Nat, NEW es \in Seq(Envelopes), Posting(n, es)
  PROVE  Travelling'
  <1>0. /\ \A j \in DOMAIN toB : IsChunk(toB[j]) =>
             toB[j].chunk = toB[j].seq + 1 /\ toB[j].seq < out.seq /\ toB[j].seq \in Nat
        /\ out.seq \in Nat /\ out'.seq = out.seq + n
    <2>1. \A j \in DOMAIN toB : toB[j] \in Envelopes
      BY DEF SessionInv, SessionTyped
    <2> QED
      BY <2>1, EnvelopeIs DEF SessionInv, Travelling, Posting, SessionTyped, Outs
  <1>1. CASE downA \/ downB
    BY <1>0, <1>1 DEF SessionInv, Travelling, Posting, PostTo
  <1>2. CASE ~downA /\ ~downB
    <2>a. /\ toB' \in Seq(Envelopes) /\ Len(toB') = Len(toB) + Len(es)
          /\ \A j \in DOMAIN toB : j \in DOMAIN toB' /\ toB'[j] = toB[j]
          /\ \A k \in DOMAIN es : Len(toB) + k \in DOMAIN toB' /\ toB'[Len(toB) + k] = es[k]
          /\ \A j \in DOMAIN toB' : j \in DOMAIN toB \/ \E k \in DOMAIN es : j = Len(toB) + k
          /\ \A k \in 1 .. n : /\ k \in DOMAIN es /\ IsChunk(es[k])
                               /\ es[k].kind = "stream.chunk"
                               /\ es[k].seq = out.seq + k - 1 /\ es[k].chunk = out.seq + k
          /\ \A k \in DOMAIN es : k \in Nat /\ k >= 1 /\ (IsChunk(es[k]) <=> k <= n)
          /\ \A j \in DOMAIN toB : j \in Nat /\ 1 <= j /\ j <= Len(toB)
          /\ out.seq \in Nat /\ out'.seq = out.seq + n /\ Len(toB) \in Nat
      BY <1>2, PostingIs
    <2>0. ASSUME NEW k \in 1 .. n
          PROVE  es[k].seq = out.seq + k - 1 /\ es[k].chunk = out.seq + k
      <3>1. es[k] = ChunkOf(out.seq + k - 1, out.seq + k)
        BY DEF Posting
      <3>2. out.seq + k - 1 \in Nat /\ out.seq + k \in Nat
        BY <1>0
      <3> QED
        BY <3>1, <3>2, ChunkIs
    <2>1. ASSUME NEW j \in DOMAIN toB', IsChunk(toB'[j])
          PROVE  /\ toB'[j].chunk = toB'[j].seq + 1 /\ toB'[j].seq < out'.seq
                 /\ j \notin DOMAIN toB => toB'[j].seq >= out.seq
      <3>1. CASE j \in DOMAIN toB
        BY <1>0, <1>2, <2>1, <3>1, <2>a
      <3>2. CASE \E k \in DOMAIN es : j = Len(toB) + k
        <4>1. PICK k \in DOMAIN es : j = Len(toB) + k
          BY <3>2
        <4>2. k \in 1 .. n /\ toB'[j] = es[k]
          BY <1>2, <2>1, <4>1, <2>a
        <4>3. es[k].seq = out.seq + k - 1 /\ es[k].chunk = out.seq + k
          BY <2>0, <4>2
        <4> QED
          BY <1>0, <4>2, <4>3
      <3>3. j \in DOMAIN toB \/ \E k \in DOMAIN es : j = Len(toB) + k
        BY <1>2, <2>a
      <3> QED
        BY <3>1, <3>2, <3>3
    <2>2. ASSUME NEW j \in DOMAIN toB', NEW k \in DOMAIN toB', j < k,
                 IsChunk(toB'[j]), IsChunk(toB'[k])
          PROVE  toB'[j].seq < toB'[k].seq
      <3>1. CASE k \in DOMAIN toB
        <4>1. j \in DOMAIN toB
          <5>1. Len(toB) \in Nat /\ DOMAIN toB = 1 .. Len(toB)
            BY DEF SessionInv, SessionTyped
          <5>2. k \in 1 .. Len(toB) /\ j \in Nat \ {0}
            BY <1>2, <2>2, <3>1, <5>1
          <5> QED
            BY <2>2, <5>1, <5>2
        <4> QED
          BY <1>2, <2>2, <3>1, <4>1, <2>a DEF SessionInv, Travelling
      <3>2. CASE k \notin DOMAIN toB /\ j \in DOMAIN toB
        <4>1. toB'[j] = toB[j] /\ toB[j].seq < out.seq /\ toB[j].seq \in Nat
          BY <1>0, <1>2, <2>2, <3>2, <2>a
        <4>2. toB'[k].seq >= out.seq
          BY <2>1, <2>2, <3>2
        <4>3. toB'[k].seq \in Nat
          <5>1. toB'[k] \in Envelopes
            BY <1>2, <2>a
          <5> QED
            BY <2>2, <5>1, EnvelopeIs
        <4> QED
          BY <1>0, <4>1, <4>2, <4>3
      <3>3. CASE k \notin DOMAIN toB /\ j \notin DOMAIN toB
        <4>1. PICK a \in DOMAIN es, b \in DOMAIN es : j = Len(toB) + a /\ k = Len(toB) + b
          BY <1>2, <3>3, <2>a
        <4>2. a \in 1 .. n /\ b \in 1 .. n /\ a < b /\ toB'[j] = es[a] /\ toB'[k] = es[b]
          BY <1>2, <2>2, <4>1, <2>a
        <4>3. es[a].seq = out.seq + a - 1 /\ es[b].seq = out.seq + b - 1
          BY <2>0, <4>2
        <4> QED
          BY <1>0, <4>2, <4>3
      <3> QED
        BY <3>1, <3>2, <3>3
    <2>3. ASSUME NEW j \in DOMAIN toB', toB'[j].kind = "stream.end" PROVE out'.ended
      <3>1. CASE j \in DOMAIN toB
        <4>1. toB'[j] = toB[j]
          BY <1>2, <3>1, <2>a
        <4> QED
          BY <2>3, <3>1, <4>1 DEF SessionInv, Travelling, Posting
      <3>2. CASE \E k \in DOMAIN es : j = Len(toB) + k
        <4>1. PICK k \in DOMAIN es : j = Len(toB) + k
          BY <3>2
        <4>2. toB'[j] = es[k]
          BY <1>2, <4>1, <2>a
        <4> QED
          BY <2>3, <4>2 DEF Posting
      <3>3. j \in DOMAIN toB \/ \E k \in DOMAIN es : j = Len(toB) + k
        BY <1>2, <2>a
      <3> QED
        BY <3>1, <3>2, <3>3
    <2> QED
      BY <1>2, <2>1, <2>2, <2>3 DEF Travelling, Posting
  <1> QED
    BY <1>1, <1>2

LEMMA PostedOpening ==
  ASSUME SessionInv, NEW n \in Nat, NEW es \in Seq(Envelopes), Posting(n, es)
  PROVE  Opening'
  <1>1. CASE downA \/ downB
    BY <1>1 DEF SessionInv, Opening, Posting, PostTo
  <1>2. CASE ~downA /\ ~downB
    <2>a. /\ toB' \in Seq(Envelopes) /\ Len(toB') = Len(toB) + Len(es)
          /\ \A j \in DOMAIN toB : j \in DOMAIN toB' /\ toB'[j] = toB[j]
          /\ \A k \in DOMAIN es : Len(toB) + k \in DOMAIN toB' /\ toB'[Len(toB) + k] = es[k]
          /\ \A j \in DOMAIN toB' : j \in DOMAIN toB \/ \E k \in DOMAIN es : j = Len(toB) + k
          /\ \A k \in 1 .. n : /\ k \in DOMAIN es /\ IsChunk(es[k])
                               /\ es[k].kind = "stream.chunk"
                               /\ es[k].seq = out.seq + k - 1 /\ es[k].chunk = out.seq + k
          /\ \A k \in DOMAIN es : k \in Nat /\ k >= 1 /\ (IsChunk(es[k]) <=> k <= n)
          /\ \A j \in DOMAIN toB : j \in Nat /\ 1 <= j /\ j <= Len(toB)
          /\ out.seq \in Nat /\ out'.seq = out.seq + n /\ Len(toB) \in Nat
      BY <1>2, PostingIs
    <2>1. ASSUME NEW k \in DOMAIN es
          PROVE  es[k].kind # "stream.open" /\ (OfStream(es[k]) => Began)
      <3>1. OfStream(es[k]) => Began
        BY <1>2 DEF Posting
      <3>2. k \in Nat /\ k >= 1 /\ (k > n => es[k].kind # "stream.open")
        BY <1>2, <2>a DEF Posting
      <3>3. k <= n => es[k].kind = "stream.chunk"
        <4>1. k <= n => k \in 1 .. n
          BY <3>2
        <4> QED
          BY <1>2, <4>1, <2>a
      <3>4. k <= n \/ k > n
        BY <3>2
      <3> QED
        BY <3>1, <3>2, <3>3, <3>4
    <2>2. ASSUME NEW j \in DOMAIN toB', toB'[j].kind = "stream.open"
          PROVE  j \in DOMAIN toB /\ toB[j].kind = "stream.open" /\ toB'[j] = toB[j]
      <3>1. \A k \in DOMAIN es : toB'[Len(toB) + k] = es[k]
        BY <1>2, <2>a
      <3>2. j \in DOMAIN toB \/ \E k \in DOMAIN es : j = Len(toB) + k
        BY <1>2, <2>a
      <3>3. j \in DOMAIN toB
        BY <2>1, <2>2, <3>1, <3>2
      <3> QED
        BY <1>2, <2>2, <3>3, <2>a
    <2>3. ASSUME NEW k \in DOMAIN toB', k \notin DOMAIN toB
          PROVE  /\ OfStream(toB'[k]) => Began
                 /\ \A j \in DOMAIN toB : j <= k
      <3>1. PICK a \in DOMAIN es : k = Len(toB) + a
        BY <1>2, <2>3, <2>a
      <3> QED
        BY <1>2, <2>1, <3>1, <2>a
    <2>4. ASSUME NEW j \in DOMAIN toB', NEW k \in DOMAIN toB',
                 toB'[j].kind = "stream.open", OfStream(toB'[k])
          PROVE  j <= k
      BY <1>2, <2>2, <2>3, <2>4, <2>a DEF SessionInv, Opening
    <2>5. in'.known => \A j \in DOMAIN toB' : toB'[j].kind # "stream.open"
      BY <2>2 DEF SessionInv, Opening, Posting
    <2>6. ASSUME ~in'.known, NEW k \in DOMAIN toB', OfStream(toB'[k])
          PROVE  \E j \in DOMAIN toB' : j <= k /\ toB'[j].kind = "stream.open"
      <3>1. ~in.known
        BY <2>6 DEF Posting
      <3>2. CASE k \in DOMAIN toB
        <4>1. toB'[k] = toB[k]
          BY <1>2, <3>2, <2>a
        <4>2. PICK j \in DOMAIN toB : j <= k /\ toB[j].kind = "stream.open"
          BY <2>6, <3>1, <3>2, <4>1 DEF SessionInv, Opening
        <4> QED
          BY <1>2, <4>2, <2>a
      <3>3. CASE k \notin DOMAIN toB
        <4>1. PICK j \in DOMAIN toB : toB[j].kind = "stream.open"
          BY <1>2, <2>3, <2>6, <3>1, <3>3 DEF SessionInv, Opening
        <4> QED
          BY <1>2, <2>3, <3>3, <4>1, <2>a
      <3> QED
        BY <3>2, <3>3
    <2>7. ~downA' /\ ~Began' => ~in'.known /\ \A k \in DOMAIN toB' : ~OfStream(toB'[k])
      <3> SUFFICES ASSUME ~Began'
                   PROVE  ~in'.known /\ \A k \in DOMAIN toB' : ~OfStream(toB'[k])
        OBVIOUS
      <3>1. ~Began
        BY DEF Posting
      <3>2. ~in.known /\ \A k \in DOMAIN toB : ~OfStream(toB[k])
        BY <1>2, <3>1 DEF SessionInv, Opening
      <3> QED
        BY <1>2, <2>3, <3>1, <3>2, <2>a DEF Posting
    <2>8. ~downA' /\ ~downB' /\ Began' /\ ~in'.known =>
            \E j \in DOMAIN toB' : toB'[j].kind = "stream.open"
      <3> SUFFICES ASSUME Began', ~in'.known
                   PROVE  \E j \in DOMAIN toB' : toB'[j].kind = "stream.open"
        OBVIOUS
      <3>1. PICK j \in DOMAIN toB : toB[j].kind = "stream.open"
        BY <1>2 DEF SessionInv, Opening, Posting
      <3> QED
        BY <1>2, <3>1, <2>a
    <2> QED
      BY <2>4, <2>5, <2>6, <2>7, <2>8 DEF Opening
  <1> QED
    BY <1>1, <1>2

LEMMA PostedContiguous ==
  ASSUME SessionInv, NEW n \in Nat, NEW es \in Seq(Envelopes), Posting(n, es)
  PROVE  Contiguous'
  <1> DEFINE Next(m, j) == ComesTo(toB', in'.next, m, j)
  <1> SUFFICES ASSUME InOpen'
               PROVE  /\ \A j \in DOMAIN toB' : IsChunk(toB'[j]) => Next(toB'[j].seq, j)
                      /\ \A j \in DOMAIN toB' : toB'[j].kind = "stream.end" =>
                           Next(Len(written'), j)
                      /\ ~downA' /\ ~downB' => Next(out'.seq, Len(toB') + 1)
    BY DEF Contiguous
  <1>0. InOpen /\ in'.next = in.next
    BY DEF InOpen, Posting
  <1>1. \A j \in DOMAIN toB : toB[j].kind = "stream.end" => Len(written') = Len(written)
    BY DEF SessionInv, Travelling, Posting
  <1>2. CASE downA \/ downB
    <2>1. toB' = toB
      BY <1>2 DEF Posting, PostTo
    <2>2. /\ \A j \in DOMAIN toB : IsChunk(toB[j]) => ComesTo(toB, in.next, toB[j].seq, j)
          /\ \A j \in DOMAIN toB : toB[j].kind = "stream.end" =>
               ComesTo(toB, in.next, Len(written), j)
      BY <1>0 DEF SessionInv, Contiguous
    <2>3. downA' \/ downB'
      BY <1>2 DEF Posting
    <2>4. \A j \in DOMAIN toB' : IsChunk(toB'[j]) => Next(toB'[j].seq, j)
      BY <1>0, <2>1, <2>2
    <2>5. \A j \in DOMAIN toB' : toB'[j].kind = "stream.end" => Next(Len(written'), j)
      BY <1>0, <1>1, <2>1, <2>2
    <2> QED
      BY <2>3, <2>4, <2>5
  <1>3. CASE ~downA /\ ~downB
    <2>0. /\ \A k \in 1 .. n : k \in DOMAIN es /\ es[k].seq = out.seq + k - 1 /\ IsChunk(es[k])
          /\ \A k \in DOMAIN es : /\ Len(toB) + k \in DOMAIN toB'
                                  /\ toB'[Len(toB) + k] = es[k] /\ k \in Nat /\ k >= 1
                                  /\ (IsChunk(es[k]) <=> k <= n)
          /\ \A j \in DOMAIN toB' : j \in DOMAIN toB \/ \E k \in DOMAIN es : j = Len(toB) + k
          /\ out.seq \in Nat /\ out'.seq = out.seq + n /\ Len(toB) \in Nat
      BY <1>3, PostingIs, SMTT(30)
    <2>1. /\ \A j \in DOMAIN toB : j \in DOMAIN toB' /\ toB'[j] = toB[j] /\ j \in Nat
                                   /\ j <= Len(toB)
          /\ Len(toB') = Len(toB) + Len(es) /\ Len(es) \in Nat
      BY <1>3, PostingIs
    <2>2. /\ \A j \in DOMAIN toB : IsChunk(toB[j]) => ComesTo(toB, in.next, toB[j].seq, j)
          /\ \A j \in DOMAIN toB : toB[j].kind = "stream.end" =>
               ComesTo(toB, in.next, Len(written), j)
          /\ ComesTo(toB, in.next, out.seq, Len(toB) + 1)
      BY <1>0, <1>3 DEF SessionInv, Contiguous
    \* What was reached in the port is reached at the same place, or later.
    <2>3. ASSUME NEW i \in Nat, NEW j \in Nat, NEW m, i <= j, ComesTo(toB, in.next, m, i)
          PROVE  Next(m, j)
      <3>1. CASE in.next = m
        BY <1>0, <3>1 DEF ComesTo
      <3>2. CASE \E k \in DOMAIN toB : k < i /\ IsChunk(toB[k]) /\ toB[k].seq + 1 = m
        <4>1. PICK k \in DOMAIN toB : k < i /\ IsChunk(toB[k]) /\ toB[k].seq + 1 = m
          BY <3>2
        <4>2. k \in DOMAIN toB' /\ toB'[k] = toB[k] /\ k \in Nat
          BY <2>1
        <4>3. k < j
          BY <2>3, <4>1, <4>2
        <4> QED
          BY <4>1, <4>2, <4>3 DEF ComesTo
      <3> QED
        BY <2>3, <3>1, <3>2 DEF ComesTo
    \* A reader comes to the next chunk of the queue, and over each posted one.
    <2>4. ASSUME NEW k \in 1 .. n + 1, NEW j \in Nat, Len(toB) + k <= j
          PROVE  Next(out.seq + k - 1, j)
      <3>1. CASE k = 1
        <4>1. Len(toB) + 1 \in Nat /\ Len(toB) + 1 <= j /\ out.seq + k - 1 = out.seq
          BY <2>0, <2>4, <3>1
        <4>2. Next(out.seq, j)
          BY <2>2, <2>3, <4>1
        <4> QED
          BY <4>1, <4>2
      <3>2. CASE k # 1
        <4>1. k - 1 \in 1 .. n
          BY <3>2
        <4>2. k - 1 \in DOMAIN es /\ es[k - 1].seq = out.seq + (k - 1) - 1 /\ IsChunk(es[k - 1])
          BY <2>0, <4>1
        <4>3. Len(toB) + (k - 1) \in DOMAIN toB' /\ toB'[Len(toB) + (k - 1)] = es[k - 1]
          BY <2>0, <4>2
        <4>4. Len(toB) + (k - 1) < j /\ es[k - 1].seq + 1 = out.seq + k - 1
          <5>1. Len(toB) \in Nat /\ out.seq \in Nat /\ k \in Nat
            BY <2>0
          <5>2. Len(toB) + (k - 1) < Len(toB) + k /\ out.seq + (k - 1) - 1 + 1 = out.seq + k - 1
            BY <5>1
          <5>3. Len(toB) + (k - 1) < j
            BY <2>4, <5>1, <5>2
          <5> QED
            BY <4>2, <5>2, <5>3
        <4> QED
          BY <4>2, <4>3, <4>4 DEF ComesTo
      <3> QED
        BY <3>1, <3>2
    <2> HIDE DEF Next
    <2>5. ASSUME NEW j \in DOMAIN toB', IsChunk(toB'[j])
          PROVE  Next(toB'[j].seq, j)
      <3>1. CASE j \in DOMAIN toB
        <4>1. toB'[j] = toB[j] /\ ComesTo(toB, in.next, toB[j].seq, j) /\ j \in Nat /\ j <= j
          BY <2>1, <2>2, <2>5, <3>1
        <4> QED
          BY <2>3, <4>1
      <3>2. CASE \E k \in DOMAIN es : j = Len(toB) + k
        <4>1. PICK k \in DOMAIN es : j = Len(toB) + k
          BY <3>2
        <4>2. toB'[j] = es[k] /\ k \in 1 .. n
          BY <2>0, <2>5, <4>1
        <4>3. k \in 1 .. n + 1 /\ j \in Nat /\ Len(toB) + k <= j
          <5>1. Len(toB) \in Nat
            BY <2>0
          <5> QED
            BY <4>1, <4>2, <5>1
        <4>4. Next(out.seq + k - 1, j)
          BY <2>4, <4>3
        <4>5. toB'[j].seq = out.seq + k - 1
          BY <2>0, <4>2
        <4> QED
          BY <4>4, <4>5
      <3> QED
        BY <2>0, <3>1, <3>2
    <2>6. ASSUME NEW j \in DOMAIN toB', toB'[j].kind = "stream.end"
          PROVE  Next(Len(written'), j)
      <3>1. CASE j \in DOMAIN toB
        <4>1. toB'[j] = toB[j] /\ j \in Nat /\ j <= j
          BY <2>1, <3>1
        <4>2. ComesTo(toB, in.next, Len(written), j) /\ Len(written') = Len(written)
          BY <1>1, <2>2, <2>6, <3>1, <4>1
        <4>3. Next(Len(written), j)
          BY <2>3, <4>1, <4>2
        <4> QED
          BY <4>2, <4>3
      <3>2. CASE \E k \in DOMAIN es : j = Len(toB) + k
        <4>1. PICK k \in DOMAIN es : j = Len(toB) + k
          BY <3>2
        <4>2. toB'[j] = es[k] /\ k > n
          <5>1. toB'[j] = es[k] /\ k \in Nat /\ n \in Nat
            BY <2>0, <4>1
          <5>2. ~IsChunk(es[k])
            BY <2>6, <5>1 DEF IsChunk
          <5> QED
            BY <2>0, <4>1, <5>1, <5>2
        <4>3. Len(written') = out.seq + n
          BY <2>0, <2>6, <4>2 DEF Posting
        <4>4. n + 1 \in 1 .. n + 1 /\ j \in Nat /\ Len(toB) + (n + 1) <= j
          BY <2>0, <4>1, <4>2
        <4>5. Next(out.seq + (n + 1) - 1, j)
          BY <2>4, <4>4
        <4>6. out.seq + (n + 1) - 1 = Len(written')
          BY <2>0, <4>3
        <4> QED
          BY <4>5, <4>6
      <3> QED
        BY <2>0, <3>1, <3>2
    <2>7. Next(out'.seq, Len(toB') + 1)
      <3>1. n + 1 \in 1 .. n + 1 /\ Len(toB') + 1 \in Nat /\ Len(toB) + (n + 1) <= Len(toB') + 1
        BY <2>0, <2>1 DEF Posting
      <3>2. out.seq + (n + 1) - 1 = out'.seq
        BY <2>0
      <3>3. Next(out.seq + (n + 1) - 1, Len(toB') + 1)
        BY <2>4, <3>1
      <3> QED
        BY <3>2, <3>3
    <2> QED
      BY <2>5, <2>6, <2>7
  <1> QED
    BY <1>2, <1>3

LEMMA PostedConsumed ==
  ASSUME SessionInv, NEW n \in Nat, NEW es \in Seq(Envelopes), Posting(n, es),
         written' \in Seq(Nat)
  PROVE  Consumed'
  <1>1. in' = in /\ read' = read /\ reader' = reader /\ Len(written) <= Len(written')
        /\ (out.ended => out'.ended /\ written' = written)
    BY DEF Posting
  <1>2. Len(read) \in Nat /\ Len(in.buffered) \in Nat /\ Len(written) \in Nat
        /\ Len(written') \in Nat
    BY DEF SessionInv, SessionTyped, Ins
  <1> QED
    BY <1>1, <1>2 DEF SessionInv, Consumed

LEMMA Posted ==
  ASSUME SessionInv, NEW n \in Nat, NEW es \in Seq(Envelopes), Posting(n, es),
         SessionTyped', Produced', DisposeSettles'
  PROVE  SessionInv'
  <1>1. written' \in Seq(Nat)
    BY DEF SessionTyped
  <1> QED
    BY <1>1, PostedTravelling, PostedOpening, PostedContiguous, PostedConsumed DEF SessionInv

LEMMA KindsApart ==
  /\ [kind |-> "stream.open"] \in Envelopes /\ [kind |-> "stream.end"] \in Envelopes
  /\ [kind |-> "stream.error"] \in Envelopes
  /\ \A c \in Calls : /\ RequestOf(c) \in Envelopes /\ CancelOf(c) \in Envelopes
                      /\ ~OfStream(RequestOf(c)) /\ ~OfStream(CancelOf(c))
                      /\ ~IsChunk(RequestOf(c)) /\ ~IsChunk(CancelOf(c))
  /\ \A e : ~OfStream(e) => e.kind # "stream.end" /\ e.kind # "stream.open" /\ ~IsChunk(e)
  BY DEF Envelopes, RequestOf, CancelOf, OfStream, IsChunk

\* What pumpOutbound sends, and what it leaves in the queue.
LEMMA SendableIs ==
  ASSUME NEW state, state.queue \in Seq(Nat)
  PROVE  Sendable(state) \in 0 .. Len(state.queue)
  <1> DEFINE S == {n \in 0 .. Len(state.queue) : Fits(state, n)}
  <1>1. Len(state.queue) \in Nat
    OBVIOUS
  <1>2. 0 \in S
    <2>1. 0 \in 0 .. Len(state.queue) /\ 1 .. 0 = {}
      BY <1>1
    <2> QED
      BY <2>1 DEF Fits
  <1>3. S \in SUBSET (0 .. Len(state.queue)) /\ S # {}
    BY <1>2
  <1>4. Max(S) \in S
    <2> HIDE DEF S
    <2> QED
      BY <1>1, <1>3, MaxIs
  <1> QED
    BY <1>4 DEF Sendable

LEMMA PumpSendsIs ==
  ASSUME NEW state, state.queue \in Seq(Nat), state.seq \in Nat,
         \A i \in DOMAIN state.queue : state.queue[i] = state.seq + i
  PROVE  LET n == Sendable(state) es == PumpSends(state) IN
         /\ es \in Seq(Envelopes) /\ n <= Len(es)
         /\ \A i \in 1 .. n : es[i] = ChunkOf(state.seq + i - 1, state.seq + i)
         /\ \A i \in DOMAIN es : i > n => es[i] = [kind |-> "stream.end"] /\ Closes(state, n)
  <1> DEFINE n == Sendable(state)
             chunks == [i \in 1 .. n |-> ChunkOf(state.seq + i - 1, state.queue[i])]
  <1>1. n \in 0 .. Len(state.queue) /\ n \in Nat
    BY SendableIs
  <1> HIDE DEF n
  <1>2. \A i \in 1 .. n : /\ state.queue[i] = state.seq + i
                          /\ state.seq + i - 1 \in Nat /\ state.seq + i \in Nat
    <2> TAKE i \in 1 .. n
    <2>1. i \in DOMAIN state.queue /\ i \in Nat /\ i >= 1
      BY <1>1
    <2> QED
      BY <2>1
  <1>3. \A i \in 1 .. n : /\ chunks[i] = ChunkOf(state.seq + i - 1, state.seq + i)
                          /\ chunks[i] \in Envelopes
    <2> TAKE i \in 1 .. n
    <2>1. chunks[i] = ChunkOf(state.seq + i - 1, state.seq + i)
      BY <1>2
    <2>2. state.seq + i - 1 \in Nat /\ state.seq + i \in Nat
      BY <1>2
    <2> QED
      BY <2>1, <2>2, ChunkIs
  <1>4. chunks \in Seq(Envelopes) /\ Len(chunks) = n
    <2>1. n \in Nat /\ chunks \in [1 .. n -> Envelopes]
      BY <1>1, <1>3
    <2> HIDE DEF chunks
    <2> QED
      BY <2>1
  <1> HIDE DEF chunks
  <1>5. CASE Closes(state, n)
    <2> DEFINE es == Append(chunks, [kind |-> "stream.end"])
    <2>1. PumpSends(state) = es
      BY <1>5 DEF PumpSends, n, chunks
    <2>2. /\ es \in Seq(Envelopes) /\ Len(es) = n + 1
          /\ \A i \in 1 .. n : es[i] = chunks[i]
          /\ es[n + 1] = [kind |-> "stream.end"]
      BY <1>1, <1>4, KindsApart
    <2>3. \A i \in DOMAIN es : i > n => i = n + 1
      BY <1>1, <2>2
    <2> HIDE DEF es
    <2>4. n <= Len(es)
      BY <1>1, <2>2
    <2>5. \A i \in 1 .. n : es[i] = ChunkOf(state.seq + i - 1, state.seq + i)
      BY <1>3, <2>2
    <2>6. \A i \in DOMAIN es : i > n => es[i] = [kind |-> "stream.end"] /\ Closes(state, n)
      BY <1>5, <2>2, <2>3
    <2> QED
      BY <2>1, <2>2, <2>4, <2>5, <2>6 DEF n
  <1>6. CASE ~Closes(state, n)
    <2>1. PumpSends(state) = chunks
      BY <1>6 DEF PumpSends, n, chunks
    <2>2. \A i \in DOMAIN chunks : ~(i > n)
      BY <1>1, <1>4
    <2> QED
      BY <1>1, <1>3, <1>4, <2>1, <2>2 DEF n
  <1> QED
    BY <1>5, <1>6

LEMMA PumpStateIs ==
  ASSUME NEW state, state \in Outs(state)
  PROVE  LET n == Sendable(state) o == PumpState(state) IN
         /\ o \in Outs(o)
         /\ o.queue = SubSeq(state.queue, n + 1, Len(state.queue)) /\ o.seq = state.seq + n
         /\ o.open = (state.open /\ ~Closes(state, n))
         /\ o.ended = state.ended /\ o.errored = state.errored
  <1> DEFINE n == Sendable(state)
             more == SumFunction([i \in 1 .. n |-> Sizes[state.queue[i]]])
             sent == state.sent + more
             queue == SubSeq(state.queue, n + 1, Len(state.queue))
             seq == state.seq + n
             open == state.open /\ ~Closes(state, n)
  <1>1. n \in 0 .. Len(state.queue) /\ n \in Nat
    BY SendableIs DEF Outs
  <1>2. queue \in Seq(Nat) /\ seq \in Nat /\ open \in BOOLEAN
    <2>1. state.queue \in Seq(Nat) /\ state.seq \in Nat /\ state.open \in BOOLEAN
      BY DEF Outs
    <2> QED
      BY <1>1, <2>1 DEF Closes
  <1>3. PumpState(state) = [state EXCEPT !.queue = queue, !.seq = seq, !.sent = sent,
                                         !.open = open]
    BY DEF PumpState
  <1> HIDE DEF queue, seq, sent, open
  <1>4. /\ PumpState(state) \in [open : BOOLEAN, credit : {state.credit}, queue : Seq(Nat),
              queued : {state.queued}, seq : Nat, sent : {sent}, ended : BOOLEAN,
              errored : BOOLEAN]
        /\ PumpState(state).queue = queue /\ PumpState(state).seq = seq
        /\ PumpState(state).sent = sent
        /\ PumpState(state).credit = state.credit /\ PumpState(state).queued = state.queued
        /\ PumpState(state).open = open
        /\ PumpState(state).ended = state.ended /\ PumpState(state).errored = state.errored
    BY <1>2, <1>3 DEF Outs
  <1> QED
    BY <1>4 DEF Outs, queue, seq, open

LEMMA SubSeqIs ==
  ASSUME NEW q \in Seq(Nat), NEW n \in 0 .. Len(q)
  PROVE  LET r == SubSeq(q, n + 1, Len(q)) IN
         /\ r \in Seq(Nat) /\ Len(r) = Len(q) - n
         /\ \A i \in DOMAIN r : n + i \in DOMAIN q /\ r[i] = q[n + i]
  BY SMTT(30)

\* A producer's step that hands a new state of its stream to pumpOutbound.
LEMMA Pumped ==
  ASSUME SessionInv, NEW state, state \in Outs(state), PumpOutbound(state),
         state.seq = out.seq, state.open = out.open,
         state.ended = out.ended, state.errored = out.errored,
         \A i \in DOMAIN state.queue : state.queue[i] = out.seq + i,
         written' \in Seq(Nat), Len(written) <= Len(written'),
         \A i \in DOMAIN written' : written'[i] = i,
         out.seq + Len(state.queue) = Len(written'),
         out.ended => written' = written /\ writer' = "idle",
         writer' \in {"idle", "full", "woken", "drained"},
         ~downA => Began,
         UNCHANGED <<calls, downA, downB, in, reader, read>>
  PROVE  SessionInv'
  <1> DEFINE n == Sendable(state)
             es == PumpSends(state)
  <1>1. state.queue \in Seq(Nat) /\ state.seq \in Nat /\ out.seq \in Nat
    BY DEF Outs
  <1>2. n \in 0 .. Len(state.queue) /\ n \in Nat
    BY <1>1, SendableIs
  <1>3. /\ es \in Seq(Envelopes) /\ n <= Len(es)
        /\ \A i \in 1 .. n : es[i] = ChunkOf(out.seq + i - 1, out.seq + i)
        /\ \A i \in DOMAIN es : i > n => es[i] = [kind |-> "stream.end"] /\ Closes(state, n)
    BY <1>1, PumpSendsIs
  <1>4. /\ out' \in Outs(out') /\ out'.queue = SubSeq(state.queue, n + 1, Len(state.queue))
        /\ out'.seq = out.seq + n /\ out'.open = (out.open /\ ~Closes(state, n))
        /\ out'.ended = out.ended /\ out'.errored = out.errored
    BY PumpStateIs DEF PumpOutbound
  <1>5. toB' = PostTo(toB, downA \/ downB, es)
    BY DEF PumpOutbound, PostB
  <1> HIDE DEF n, es
  <1>6. /\ Len(out'.queue) = Len(state.queue) - n
        /\ \A i \in DOMAIN out'.queue : out'.queue[i] = out'.seq + i
    <2> DEFINE q == state.queue
               r == SubSeq(q, n + 1, Len(q))
    <2>1. q \in Seq(Nat) /\ n \in 0 .. Len(q) /\ out'.queue = r
      BY <1>1, <1>2, <1>4
    <2>2. /\ r \in Seq(Nat) /\ Len(r) = Len(q) - n
          /\ \A i \in DOMAIN r : n + i \in DOMAIN q /\ r[i] = q[n + i]
      BY <2>1, SubSeqIs
    <2> HIDE DEF r
    <2>3. ASSUME NEW i \in DOMAIN r PROVE r[i] = out'.seq + i
      <3>1. q[n + i] = out.seq + (n + i)
        BY <2>2
      <3>2. i \in Nat
        BY <2>2
      <3>3. out.seq + (n + i) = (out.seq + n) + i
        BY <1>1, <1>2, <3>2
      <3> QED
        BY <1>4, <2>2, <3>1, <3>3
    <2> QED
      BY <2>1, <2>2, <2>3
  <1>7. Began => Began'
    BY <1>4 DEF Began, Closes
  <1>8. Closes(state, n) => out'.ended /\ Len(written') = out'.seq
    BY <1>1, <1>2, <1>4 DEF Closes
  <1>9. \A i \in DOMAIN es : i > n => /\ ~IsChunk(es[i]) /\ es[i].kind # "stream.open"
                                      /\ out'.ended /\ Len(written') = out'.seq
    BY <1>3, <1>8 DEF IsChunk
  <1>10. \A i \in DOMAIN es : es[i].kind = "stream.end" => i > n
    <2> TAKE i \in DOMAIN es
    <2>1. i \in Nat /\ i >= 1
      BY <1>3
    <2>2. i <= n => es[i] = ChunkOf(out.seq + i - 1, out.seq + i)
      <3>1. i <= n => i \in 1 .. n
        BY <1>2, <2>1
      <3> QED
        BY <1>3, <3>1
    <2> QED
      BY <1>2, <2>1, <2>2 DEF ChunkOf
  <1>11. Posting(n, es)
    BY <1>3, <1>4, <1>5, <1>7, <1>9, <1>10 DEF Posting
  <1>12. toB' \in Seq(Envelopes)
    <2>1. toB \in Seq(Envelopes)
      BY DEF SessionInv, SessionTyped
    <2> QED
      BY <1>3, <1>5, <2>1 DEF PostTo
  <1>13. SessionTyped'
    BY <1>4, <1>12 DEF SessionInv, SessionTyped
  <1>14. Produced'
    <2>1. out'.seq + Len(out'.queue) = Len(written')
      <3> DEFINE queued == Len(state.queue)
                 rest == Len(out'.queue)
                 made == Len(written')
      <3>1. queued \in Nat /\ out.seq \in Nat /\ n \in Nat
        BY <1>1, <1>2
      <3>2. rest = queued - n /\ out'.seq = out.seq + n /\ out.seq + queued = made
        BY <1>4, <1>6
      <3> HIDE DEF queued, rest, made
      <3>3. out'.seq + rest = made
        BY <3>1, <3>2
      <3> QED
        BY <3>3 DEF rest, made
    <2> QED
      BY <1>4, <1>6, <1>7, <2>1 DEF Produced
  <1>15. DisposeSettles'
    BY DEF SessionInv, DisposeSettles
  <1> QED
    BY <1>2, <1>3, <1>11, <1>13, <1>14, <1>15, Posted

LEMMA ProcEnqueue ==
  ASSUME SessionInv, EnqueueChunk(Len(written) + 1), ~out.ended, ~downA => Began,
         UNCHANGED <<calls, downA, downB, in, reader, read>>
  PROVE  SessionInv'
  <1> DEFINE i == Len(written) + 1
             queued == out.queued + Sizes[i]
             state == [out EXCEPT !.queue = Append(out.queue, i), !.queued = queued]
  <1>1. /\ written \in Seq(Nat) /\ out.queue \in Seq(Nat) /\ out.seq \in Nat
        /\ out \in Outs(out) /\ i \in Nat
    BY DEF SessionInv, SessionTyped, Outs
  <1>2. out.seq + Len(out.queue) = Len(written) /\ Len(out.queue) \in Nat
        /\ \A k \in DOMAIN out.queue : out.queue[k] = out.seq + k
    BY <1>1 DEF SessionInv, Produced
  <1>3. /\ written' = Append(written, i) /\ PumpOutbound(state)
        /\ writer' \in {"idle", "full", "woken", "drained"}
    BY DEF EnqueueChunk
  <1> HIDE DEF queued
  <1>4. Append(out.queue, i) \in Seq(Nat)
    BY <1>1
  <1>5. /\ state \in [open : BOOLEAN, credit : {out.credit}, queue : Seq(Nat),
              queued : {queued}, seq : Nat, sent : {out.sent}, ended : BOOLEAN,
              errored : BOOLEAN]
        /\ state.queue = Append(out.queue, i) /\ state.seq = out.seq /\ state.open = out.open
        /\ state.ended = out.ended /\ state.errored = out.errored
        /\ state.credit = out.credit /\ state.sent = out.sent /\ state.queued = queued
    BY <1>1, <1>4 DEF Outs
  <1>6. state \in Outs(state)
    BY <1>5 DEF Outs
  <1> HIDE DEF state
  <1>7. Len(state.queue) = Len(out.queue) + 1
        /\ \A k \in DOMAIN state.queue : state.queue[k] = out.seq + k
    <2>1. /\ DOMAIN out.queue = 1 .. Len(out.queue)
          /\ DOMAIN state.queue = 1 .. Len(out.queue) + 1
          /\ Len(state.queue) = Len(out.queue) + 1
          /\ \A k \in DOMAIN out.queue : state.queue[k] = out.queue[k]
          /\ state.queue[Len(out.queue) + 1] = i
      BY <1>1, <1>5, SMTT(30)
    <2>2. \A k \in DOMAIN state.queue : k \in DOMAIN out.queue \/ k = Len(out.queue) + 1
      BY <1>2, <2>1
    <2>3. i = out.seq + (Len(out.queue) + 1)
      BY <1>1, <1>2
    <2> QED
      BY <1>2, <2>1, <2>2, <2>3
  <1>8. /\ written' \in Seq(Nat) /\ Len(written') = Len(written) + 1
        /\ \A k \in DOMAIN written' : written'[k] = k
    <2>1. /\ written' \in Seq(Nat) /\ Len(written') = Len(written) + 1
          /\ DOMAIN written = 1 .. Len(written) /\ DOMAIN written' = 1 .. Len(written) + 1
          /\ \A k \in DOMAIN written : written'[k] = written[k]
          /\ written'[Len(written) + 1] = i /\ Len(written) \in Nat
      BY <1>1, <1>3
    <2>2. \A k \in DOMAIN written' : k \in DOMAIN written \/ k = Len(written) + 1
      BY <2>1
    <2>3. \A k \in DOMAIN written : written[k] = k
      BY DEF SessionInv, Produced
    <2> QED
      BY <2>1, <2>2, <2>3
  <1> HIDE DEF i
  <1>9. out.seq + Len(state.queue) = Len(written') /\ Len(written) <= Len(written')
    BY <1>1, <1>2, <1>7, <1>8
  <1> QED
    BY <1>3, <1>5, <1>6, <1>7, <1>8, <1>9, Pumped

LEMMA ProcWrite ==
  ASSUME SessionInv, WriteChunk \/ WriteResumes
  PROVE  SessionInv'
  <1>1. CASE WriteChunk /\ out.queued + Sizes[Len(written) + 1] > MaxBuffered
    <2>1. /\ writer' = "full" /\ ~out.ended /\ out # NoOut
          /\ UNCHANGED <<calls, toB, downA, downB, out, in, reader, read, written>>
      BY <1>1 DEF WriteChunk, rpcVars
    <2>2. SessionTyped'
      BY <2>1 DEF SessionInv, SessionTyped
    <2>3. Produced' /\ Travelling' /\ Opening' /\ DisposeSettles'
      BY <2>1 DEF SessionInv, Produced, Travelling, Opening, DisposeSettles, Began
    <2>4. Contiguous'
      BY <2>1 DEF SessionInv, Contiguous, InOpen
    <2>5. Consumed'
      BY <2>1 DEF SessionInv, Consumed
    <2> QED
      BY <2>2, <2>3, <2>4, <2>5 DEF SessionInv
  <1>2. CASE WriteChunk /\ ~(out.queued + Sizes[Len(written) + 1] > MaxBuffered)
    <2>1. /\ EnqueueChunk(Len(written) + 1) /\ ~out.ended /\ out # NoOut
          /\ UNCHANGED <<calls, downA, downB, in, reader, read>>
      BY <1>2 DEF WriteChunk, rpcVars
    <2>2. ~downA => Began
      BY <2>1 DEF SessionInv, Produced
    <2> QED
      BY <2>1, <2>2, ProcEnqueue
  <1>3. CASE WriteResumes
    <2>1. /\ EnqueueChunk(Len(written) + 1) /\ writer = "woken"
          /\ UNCHANGED <<calls, downA, downB, in, reader, read>>
      BY <1>3 DEF WriteResumes, rpcVars
    <2>2. ~out.ended /\ (~downA => Began)
      BY <2>1 DEF SessionInv, Produced
    <2> QED
      BY <2>1, <2>2, ProcEnqueue
  <1> QED
    BY <1>1, <1>2, <1>3

\* A step of side A that posts one envelope, not a chunk, and no opening.
LEMMA ProcPosts ==
  ASSUME SessionInv, NEW e \in Envelopes, PostB(<<e>>) \/ toB' = toB,
         ~IsChunk(e), e.kind # "stream.open",
         e.kind = "stream.end" /\ PostB(<<e>>) => out'.ended /\ Len(written) = out.seq,
         OfStream(e) => downA \/ Began,
         Began => Began', ~downA /\ Began' => Began, out.ended => out'.ended,
         out'.seq = out.seq, out'.queue = out.queue, out' \in Outs(out'),
         ~Began /\ ~downA => out' = out, out'.ended => writer = "idle",
         calls' \in [Calls -> {"idle", "pending"} \cup Settled],
         downA => \A c \in Calls : calls'[c] = "pending" => calls[c] = "pending",
         UNCHANGED <<downA, downB, in, reader, read, written, writer>>
  PROVE  SessionInv'
  <1>1. toB \in Seq(Envelopes) /\ out.seq \in Nat
    BY DEF SessionInv, SessionTyped, Outs
  <1>2. toB' \in Seq(Envelopes)
    <2>1. toB \o <<e>> \in Seq(Envelopes)
      BY <1>1
    <2> QED
      BY <1>1, <2>1 DEF PostB, PostTo
  <1>3. SessionTyped'
    BY <1>2 DEF SessionInv, SessionTyped
  <1>4. Produced'
    BY DEF SessionInv, Produced
  <1>5. DisposeSettles'
    BY DEF SessionInv, DisposeSettles
  <1>6. CASE PostB(<<e>>)
    <2> DEFINE es == <<e>>
    <2>1. /\ es \in Seq(Envelopes) /\ 0 <= Len(es) /\ 1 .. 0 = {}
          /\ \A i \in DOMAIN es : es[i] = e
      OBVIOUS
    <2> HIDE DEF es
    <2>2. /\ toB' = PostTo(toB, downA \/ downB, es) /\ out'.seq = out.seq + 0
      BY <1>1, <1>6 DEF PostB, es
    <2>3. Posting(0, es)
      BY <1>6, <2>1, <2>2 DEF Posting
    <2> QED
      BY <1>3, <1>4, <1>5, <2>1, <2>3, Posted
  <1>7. CASE toB' = toB
    <2> DEFINE es == <<>>
    <2>1. /\ es \in Seq(Envelopes) /\ 0 <= Len(es) /\ 1 .. 0 = {} /\ DOMAIN es = {}
          /\ toB \o es = toB
      BY <1>1
    <2> HIDE DEF es
    <2>2. /\ toB' = PostTo(toB, downA \/ downB, es) /\ out'.seq = out.seq + 0
      BY <1>1, <1>7, <2>1 DEF PostTo
    <2>3. Posting(0, es)
      BY <2>1, <2>2 DEF Posting
    <2> QED
      BY <1>3, <1>4, <1>5, <2>1, <2>3, Posted
  <1> QED
    BY <1>6, <1>7

LEMMA ProcCall ==
  ASSUME SessionInv, NEW c \in Calls, CallPeer(c) \/ CancelRequest(c)
  PROVE  SessionInv'
  <1>1. /\ UNCHANGED <<downA, downB, out, writer, in, reader, written, read>>
        /\ PostB(<<RequestOf(c)>>) \/ PostB(<<CancelOf(c)>>)
        /\ \/ calls' = [calls EXCEPT ![c] = "pending"] /\ ~downA
           \/ calls' = [calls EXCEPT ![c] = "cancelled"]
    BY DEF CallPeer, CancelRequest, streamVars
  <1>2. /\ calls' \in [Calls -> {"idle", "pending"} \cup Settled]
        /\ downA => \A d \in Calls : calls'[d] = "pending" => calls[d] = "pending"
    BY <1>1 DEF SessionInv, SessionTyped, Settled
  <1>3. /\ Began' = Began /\ out' \in Outs(out') /\ (out'.ended => writer = "idle")
        /\ out'.ended = out.ended /\ out'.seq = out.seq /\ out'.queue = out.queue
    BY <1>1 DEF SessionInv, SessionTyped, Produced, Began
  <1>4. PICK e \in {RequestOf(c), CancelOf(c)} : PostB(<<e>>)
    BY <1>1
  <1>5. /\ e \in Envelopes /\ ~IsChunk(e) /\ e.kind # "stream.open" /\ e.kind # "stream.end"
        /\ ~OfStream(e)
    BY KindsApart
  <1> QED
    BY <1>1, <1>2, <1>3, <1>4, <1>5, ProcPosts

LEMMA ProcEnd ==
  ASSUME SessionInv, EndStream \/ FailStream
  PROVE  SessionInv'
  <1>1. /\ out # NoOut /\ ~out.ended /\ ~out.errored
        /\ UNCHANGED <<calls, downA, downB, in, reader, read, written, writer>>
        /\ out \in Outs(out) /\ out.seq \in Nat
    BY DEF EndStream, FailStream, rpcVars, SessionInv, SessionTyped, Outs
  <1>2. ~downA => Began
    BY <1>1 DEF SessionInv, Produced
  <1>3. calls' \in [Calls -> {"idle", "pending"} \cup Settled]
    BY <1>1 DEF SessionInv, SessionTyped
  <1>4. CASE EndStream
    <2> DEFINE f == [kind |-> "stream.end"]
    <2>1. \/ out' = [out EXCEPT !.ended = TRUE, !.open = FALSE]
          \/ out' = [out EXCEPT !.ended = TRUE]
      BY <1>4 DEF EndStream
    <2>2. writer = "idle"
      BY <1>4 DEF EndStream
    <2>3. /\ out' \in [open : BOOLEAN, credit : {out.credit}, queue : Seq(Nat),
              queued : {out.queued}, seq : Nat, sent : {out.sent}, ended : BOOLEAN,
              errored : BOOLEAN]
          /\ out'.seq = out.seq /\ out'.queue = out.queue /\ out'.ended
          /\ out'.credit = out.credit /\ out'.sent = out.sent /\ out'.queued = out.queued
      BY <1>1, <2>1 DEF Outs
    <2>4. out' \in Outs(out') /\ Began'
      BY <2>3 DEF Outs, Began
    <2>5. out.queue = <<>> => Len(written) = out.seq
      BY <1>1 DEF SessionInv, Produced
    <2>6. f \in Envelopes /\ ~IsChunk(f) /\ f.kind # "stream.open"
      BY KindsApart DEF IsChunk
    <2>7. IF out.queue = <<>> THEN PostB(<<f>>) ELSE toB' = toB
      BY <1>4 DEF EndStream
    <2> HIDE DEF f
    <2>8. CASE out.queue = <<>>
      BY <1>1, <1>2, <1>3, <2>2, <2>3, <2>4, <2>5, <2>6, <2>7, <2>8, ProcPosts
    <2>9. CASE out.queue # <<>>
      <3> DEFINE g == [kind |-> "stream.error"]
      <3>1. /\ g \in Envelopes /\ ~IsChunk(g) /\ g.kind # "stream.open"
            /\ g.kind # "stream.end" /\ toB' = toB
        BY <2>7, <2>9, KindsApart DEF IsChunk
      <3> HIDE DEF g
      <3> QED
        BY <1>1, <1>2, <1>3, <2>2, <2>3, <2>4, <3>1, ProcPosts
    <2> QED
      BY <2>8, <2>9
  <1>5. CASE FailStream
    <2> DEFINE g == [kind |-> "stream.error"]
    <2>1. PostB(<<g>>) /\ out' = [out EXCEPT !.errored = TRUE, !.open = FALSE]
      BY <1>5 DEF FailStream
    <2>2. /\ g \in Envelopes /\ ~IsChunk(g) /\ g.kind # "stream.open"
          /\ g.kind # "stream.end"
      BY KindsApart DEF IsChunk
    <2>3. /\ out' \in [open : BOOLEAN, credit : {out.credit}, queue : Seq(Nat),
              queued : {out.queued}, seq : Nat, sent : {out.sent}, ended : BOOLEAN,
              errored : BOOLEAN]
          /\ out'.seq = out.seq /\ out'.queue = out.queue /\ ~out'.ended /\ out'.errored
          /\ out'.credit = out.credit /\ out'.sent = out.sent /\ out'.queued = out.queued
      BY <1>1, <2>1 DEF Outs
    <2>4. out' \in Outs(out') /\ Began'
      BY <2>3 DEF Outs, Began
    <2> HIDE DEF g
    <2> QED
      BY <1>1, <1>2, <1>3, <2>1, <2>2, <2>3, <2>4, ProcPosts
  <1> QED
    BY <1>4, <1>5

\* Credit from the reader; without an open stream nothing happens.
LEMMA ProcCredit ==
  ASSUME SessionInv, NEW e, OnCredit(e),
         UNCHANGED <<calls, downA, downB, in, reader, read, written>>
  PROVE  SessionInv'
  <1>1. /\ out \in Outs(out) /\ out.seq \in Nat /\ out.queue \in Seq(Nat)
        /\ written \in Seq(Nat)
        /\ out.seq + Len(out.queue) = Len(written)
        /\ \A i \in DOMAIN out.queue : out.queue[i] = out.seq + i
        /\ \A i \in DOMAIN written : written[i] = i
        /\ out.ended => writer = "idle"
        /\ writer \in {"idle", "full", "woken", "drained"}
    BY DEF SessionInv, SessionTyped, Outs, Produced
  <1>2. CASE ~out.open
    <2>1. UNCHANGED <<calls, toB, downA, downB, out, in, reader, read, written, writer>>
      BY <1>2 DEF OnCredit
    <2>2. SessionTyped'
      BY <2>1 DEF SessionInv, SessionTyped
    <2>3. Produced' /\ Travelling' /\ Opening' /\ DisposeSettles'
      BY <2>1 DEF SessionInv, Produced, Travelling, Opening, DisposeSettles, Began
    <2>4. Contiguous'
      BY <2>1 DEF SessionInv, Contiguous, InOpen
    <2>5. Consumed'
      BY <2>1 DEF SessionInv, Consumed
    <2> QED
      BY <2>2, <2>3, <2>4, <2>5 DEF SessionInv
  <1>3. CASE out.open
    <2> DEFINE credit == out.credit + e.bytes
               state == [out EXCEPT !.credit = credit]
    <2>1. PumpOutbound(state) /\ writer' = IF PumpWakes(state) THEN Woken ELSE writer
      BY <1>3 DEF OnCredit
    <2> HIDE DEF credit
    <2>2. /\ state \in [open : BOOLEAN, credit : {credit}, queue : Seq(Nat),
              queued : {out.queued}, seq : Nat, sent : {out.sent}, ended : BOOLEAN,
              errored : BOOLEAN]
          /\ state.queue = out.queue /\ state.seq = out.seq /\ state.open = out.open
          /\ state.ended = out.ended /\ state.errored = out.errored
          /\ state.credit = credit /\ state.sent = out.sent /\ state.queued = out.queued
      BY <1>1 DEF Outs
    <2>3. state \in Outs(state)
      BY <2>2 DEF Outs
    <2>4. Began
      BY <1>3 DEF Began
    <2> HIDE DEF state
    <2>5. /\ writer' \in {"idle", "full", "woken", "drained"}
          /\ out.ended => writer' = "idle"
      BY <1>1, <2>1 DEF Woken
    <2>6. Len(written) <= Len(written') /\ written' = written
      BY <1>1
    <2> QED
      BY <1>1, <2>1, <2>2, <2>3, <2>4, <2>5, <2>6, Pumped
  <1> QED
    BY <1>2, <1>3

\* Envelopes are taken from the head of the port.
LEMMA TailIs ==
  ASSUME NEW S, NEW q \in Seq(S), q # <<>>
  PROVE  /\ Tail(q) \in Seq(S) /\ Len(Tail(q)) = Len(q) - 1 /\ Len(q) \in Nat /\ Len(q) >= 1
         /\ 1 \in DOMAIN q /\ Head(q) = q[1] /\ q[1] \in S
         /\ \A j \in DOMAIN Tail(q) : /\ j \in Nat /\ j >= 1 /\ j + 1 \in DOMAIN q
                                      /\ Tail(q)[j] = q[j + 1]
         /\ \A j \in DOMAIN q : j \in Nat /\ j >= 1
                                /\ (j # 1 => j - 1 \in DOMAIN Tail(q) /\ Tail(q)[j - 1] = q[j])
  <1>1. /\ Tail(q) \in Seq(S) /\ Len(Tail(q)) = Len(q) - 1 /\ Len(q) \in Nat /\ Len(q) >= 1
        /\ 1 \in DOMAIN q /\ Head(q) = q[1] /\ q[1] \in S
    OBVIOUS
  <1>2. \A j \in DOMAIN Tail(q) : /\ j \in Nat /\ j >= 1 /\ j + 1 \in DOMAIN q
                                  /\ Tail(q)[j] = q[j + 1]
    OBVIOUS
  <1>3. DOMAIN q = 1 .. Len(q) /\ DOMAIN Tail(q) = 1 .. Len(q) - 1
    BY <1>1
  <1>4. ASSUME NEW j \in DOMAIN q
        PROVE  j \in Nat /\ j >= 1
                 /\ (j # 1 => j - 1 \in DOMAIN Tail(q) /\ Tail(q)[j - 1] = q[j])
    <2>1. j \in Nat /\ j >= 1 /\ (j # 1 => j - 1 \in DOMAIN Tail(q) /\ (j - 1) + 1 = j)
      BY <1>1, <1>3
    <2>2. j # 1 => Tail(q)[j - 1] = q[(j - 1) + 1]
      BY <1>2, <2>1
    <2> QED
      BY <2>1, <2>2
  <1> QED
    BY <1>1, <1>2, <1>4

\* The envelope at the head of the port is handled by side B.
LEMMA Taken ==
  ASSUME SessionInv, toB # <<>>, ~downB, toB' = Tail(toB),
         UNCHANGED <<calls, out, written, writer, downA, downB>>,
         in' \in Ins(in'), read' \in Seq(Nat),
         reader' \in {"idle", "pulling", "failed", "ended"},
         in'.known <=> (in.known \/ Head(toB).kind = "stream.open"),
         InOpen' => InOpen /\ in'.next = IF IsChunk(Head(toB)) THEN Head(toB).seq + 1 ELSE in.next,
         Consumed'
  PROVE  SessionInv'
  <1>1. toB \in Seq(Envelopes) /\ out.seq \in Nat /\ in.next \in Nat /\ written \in Seq(Nat)
    BY DEF SessionInv, SessionTyped, Outs, Ins
  <1> DEFINE e == Head(toB)
  <1>2. /\ toB' \in Seq(Envelopes) /\ Len(toB') = Len(toB) - 1 /\ Len(toB) \in Nat
        /\ 1 \in DOMAIN toB /\ e = toB[1] /\ e \in Envelopes
        /\ \A j \in DOMAIN toB' : j \in Nat /\ j >= 1 /\ j + 1 \in DOMAIN toB /\ toB'[j] = toB[j + 1]
        /\ \A j \in DOMAIN toB : /\ j \in Nat /\ j >= 1
                                 /\ j # 1 => j - 1 \in DOMAIN toB' /\ toB'[j - 1] = toB[j]
    BY <1>1, TailIs
  <1> HIDE DEF e
  <1>3. SessionTyped'
    BY <1>2 DEF SessionInv, SessionTyped
  <1>4. Produced'
    BY DEF SessionInv, Produced, Began
  <1>5. Travelling'
    <2>1. /\ \A j \in DOMAIN toB : IsChunk(toB[j]) =>
               toB[j].chunk = toB[j].seq + 1 /\ toB[j].seq < out.seq
          /\ \A j, k \in DOMAIN toB : j < k /\ IsChunk(toB[j]) /\ IsChunk(toB[k]) =>
               toB[j].seq < toB[k].seq
          /\ \A j \in DOMAIN toB : toB[j].kind = "stream.end" => out.ended
      BY DEF SessionInv, Travelling
    <2>2. \A j, k \in DOMAIN toB' : j < k => j + 1 < k + 1
      BY <1>2
    <2> QED
      BY <1>2, <2>1, <2>2 DEF Travelling
  <1>6. Opening'
    <2>1. /\ \A j, k \in DOMAIN toB : toB[j].kind = "stream.open" /\ OfStream(toB[k]) => j <= k
          /\ in.known => \A j \in DOMAIN toB : toB[j].kind # "stream.open"
          /\ ~in.known => \A k \in DOMAIN toB : OfStream(toB[k]) =>
               \E j \in DOMAIN toB : j <= k /\ toB[j].kind = "stream.open"
          /\ ~downA /\ ~Began => ~in.known /\ \A k \in DOMAIN toB : ~OfStream(toB[k])
          /\ ~downA /\ ~downB /\ Began /\ ~in.known =>
               \E j \in DOMAIN toB : toB[j].kind = "stream.open"
      BY DEF SessionInv, Opening
    <2>2. Began' = Began
      BY DEF Began
    <2>3. ASSUME NEW j \in DOMAIN toB', NEW k \in DOMAIN toB',
                 toB'[j].kind = "stream.open", OfStream(toB'[k])
          PROVE  j <= k
      <3>1. j + 1 <= k + 1
        BY <1>2, <2>1, <2>3
      <3> QED
        BY <1>2, <3>1
    <2>4. ASSUME in'.known, NEW j \in DOMAIN toB', toB'[j].kind = "stream.open"
          PROVE  FALSE
      <3>1. j + 1 \in DOMAIN toB /\ toB[j + 1].kind = "stream.open" /\ j \in Nat /\ j >= 1
        BY <1>2, <2>4
      <3>2. e.kind = "stream.open"
        BY <2>1, <2>4, <3>1 DEF e
      <3>3. OfStream(toB[1])
        BY <1>2, <3>2 DEF OfStream
      <3>4. j + 1 <= 1
        BY <1>2, <2>1, <3>1, <3>3
      <3> QED
        BY <3>1, <3>4
    <2>5. ASSUME ~in'.known, NEW k \in DOMAIN toB', OfStream(toB'[k])
          PROVE  \E j \in DOMAIN toB' : j <= k /\ toB'[j].kind = "stream.open"
      <3>1. ~in.known /\ toB[1].kind # "stream.open"
        BY <1>2, <2>5 DEF e
      <3>2. PICK j \in DOMAIN toB : j <= k + 1 /\ toB[j].kind = "stream.open"
        BY <1>2, <2>1, <2>5, <3>1
      <3>3. j - 1 \in DOMAIN toB' /\ toB'[j - 1] = toB[j] /\ j - 1 <= k
        BY <1>2, <3>1, <3>2
      <3> QED
        BY <3>2, <3>3
    <2>6. ASSUME ~downA', ~Began'
          PROVE  ~in'.known /\ \A k \in DOMAIN toB' : ~OfStream(toB'[k])
      <3>1. ~in.known /\ \A k \in DOMAIN toB : ~OfStream(toB[k])
        BY <2>1, <2>2, <2>6
      <3>2. toB[1].kind # "stream.open"
        BY <1>2, <3>1 DEF OfStream
      <3> QED
        BY <1>2, <3>1, <3>2 DEF e
    <2>7. ASSUME ~downA', ~downB', Began', ~in'.known
          PROVE  \E j \in DOMAIN toB' : toB'[j].kind = "stream.open"
      <3>1. ~in.known /\ toB[1].kind # "stream.open"
        BY <1>2, <2>7 DEF e
      <3>2. PICK j \in DOMAIN toB : toB[j].kind = "stream.open"
        BY <2>1, <2>2, <2>7, <3>1
      <3>3. j - 1 \in DOMAIN toB' /\ toB'[j - 1] = toB[j]
        BY <1>2, <3>1, <3>2
      <3> QED
        BY <3>2, <3>3
    <2> QED
      BY <2>3, <2>4, <2>5, <2>6, <2>7 DEF Opening
  <1>7. Contiguous'
    <2> SUFFICES ASSUME InOpen' PROVE Contiguous'
      BY DEF Contiguous
    <2>1. InOpen /\ in'.next = IF IsChunk(e) THEN e.seq + 1 ELSE in.next
      BY DEF e
    <2>2. /\ \A j \in DOMAIN toB : IsChunk(toB[j]) => ComesTo(toB, in.next, toB[j].seq, j)
          /\ \A j \in DOMAIN toB : toB[j].kind = "stream.end" =>
               ComesTo(toB, in.next, Len(written), j)
          /\ ~downA /\ ~downB => ComesTo(toB, in.next, out.seq, Len(toB) + 1)
      BY <2>1 DEF SessionInv, Contiguous
    <2>3. IsChunk(e) => e.seq = in.next
      <3>1. SUFFICES ASSUME IsChunk(e) PROVE e.seq = in.next
        OBVIOUS
      <3>2. ComesTo(toB, in.next, e.seq, 1)
        BY <1>2, <2>2, <3>1
      <3>3. \A k \in DOMAIN toB : ~(k < 1)
        BY <1>2
      <3> QED
        BY <3>2, <3>3 DEF ComesTo
    <2>4. ASSUME NEW m, NEW j \in Nat, ComesTo(toB, in.next, m, j + 1),
                 IsChunk(e) => m # in.next
          PROVE  ComesTo(toB', in'.next, m, j)
      <3>1. CASE in.next = m
        BY <2>1, <2>4, <3>1 DEF ComesTo
      <3>2. CASE \E k \in DOMAIN toB : k < j + 1 /\ IsChunk(toB[k]) /\ toB[k].seq + 1 = m
        <4>1. PICK k \in DOMAIN toB : k < j + 1 /\ IsChunk(toB[k]) /\ toB[k].seq + 1 = m
          BY <3>2
        <4>2. CASE k = 1
          <5>1. IsChunk(e) /\ e.seq + 1 = m
            BY <1>2, <4>1, <4>2
          <5> QED
            BY <2>1, <5>1 DEF ComesTo
        <4>3. CASE k # 1
          <5>1. k - 1 \in DOMAIN toB' /\ toB'[k - 1] = toB[k] /\ k - 1 < j
            BY <1>2, <4>1, <4>3
          <5> QED
            BY <4>1, <5>1 DEF ComesTo
        <4> QED
          BY <4>2, <4>3
      <3> QED
        BY <2>4, <3>1, <3>2 DEF ComesTo
    <2>5. IsChunk(e) => in.next \in Nat /\ in.next < out.seq /\ out.seq <= Len(written)
      <3>1. SUFFICES ASSUME IsChunk(e) PROVE in.next < out.seq /\ out.seq <= Len(written)
        BY <1>1
      <3>2. e.seq < out.seq
        BY <1>2, <3>1 DEF SessionInv, Travelling
      <3>3. out.seq + Len(out.queue) = Len(written) /\ Len(out.queue) \in Nat
        BY DEF SessionInv, SessionTyped, Produced, Outs
      <3>4. out.seq <= Len(written)
        BY <1>1, <3>3
      <3> QED
        BY <2>3, <3>1, <3>2, <3>4
    <2>6. ASSUME NEW j \in DOMAIN toB', IsChunk(toB'[j])
          PROVE  ComesTo(toB', in'.next, toB'[j].seq, j)
      <3>1. j \in Nat /\ j >= 1 /\ j + 1 \in DOMAIN toB /\ toB'[j] = toB[j + 1]
        BY <1>2
      <3>2. ComesTo(toB, in.next, toB'[j].seq, j + 1)
        BY <2>2, <2>6, <3>1
      <3>3. IsChunk(e) => toB'[j].seq # in.next
        <4>1. 1 < j + 1
          BY <3>1
        <4>2. IsChunk(e) => toB[1].seq < toB[j + 1].seq
          BY <1>2, <2>6, <3>1, <4>1 DEF SessionInv, Travelling
        <4>3. IsChunk(e) => in.next < toB'[j].seq
          BY <1>2, <2>3, <3>1, <4>2
        <4> QED
          BY <1>1, <4>3
      <3> QED
        BY <2>4, <3>1, <3>2, <3>3
    <2>7. ASSUME NEW j \in DOMAIN toB', toB'[j].kind = "stream.end"
          PROVE  ComesTo(toB', in'.next, Len(written'), j)
      <3>1. j \in Nat /\ j + 1 \in DOMAIN toB /\ toB'[j] = toB[j + 1]
        BY <1>2
      <3>2. ComesTo(toB, in.next, Len(written), j + 1)
        BY <2>2, <2>7, <3>1
      <3>3. IsChunk(e) => Len(written) # in.next
        BY <1>1, <2>5
      <3> QED
        BY <2>4, <3>1, <3>2, <3>3
    <2>8. ASSUME ~downA', ~downB' PROVE ComesTo(toB', in'.next, out'.seq, Len(toB') + 1)
      <3>1. Len(toB') + 1 \in Nat /\ (Len(toB') + 1) + 1 = Len(toB) + 1
        BY <1>2
      <3>2. ComesTo(toB, in.next, out.seq, (Len(toB') + 1) + 1)
        BY <2>2, <2>8, <3>1
      <3>3. IsChunk(e) => out.seq # in.next
        BY <1>1, <2>5
      <3>4. ComesTo(toB', in'.next, out.seq, Len(toB') + 1)
        BY <2>4, <3>1, <3>2, <3>3
      <3> QED
        BY <3>4
    <2> QED
      BY <2>6, <2>7, <2>8 DEF Contiguous
  <1>8. DisposeSettles'
    BY DEF SessionInv, DisposeSettles
  <1> QED
    BY <1>3, <1>4, <1>5, <1>6, <1>7, <1>8 DEF SessionInv

LEMMA ProcOpenStream ==
  ASSUME SessionInv, OpenStream
  PROVE  SessionInv'
  <1> DEFINE f == [kind |-> "stream.open"]
  <1>1. /\ out = NoOut /\ written = <<>> /\ ~downA /\ PostB(<<f>>)
        /\ out' = [NoOut EXCEPT !.open = TRUE]
        /\ UNCHANGED <<calls, downA, downB, writer, in, reader, written, read>>
    BY DEF OpenStream, rpcVars
  <1>2. /\ out'.open /\ ~out'.ended /\ out'.seq = 0 /\ out'.queue = <<>> /\ out' \in Outs(out')
        /\ Began' /\ ~Began /\ Len(written) = 0
    <2>1. out' = [open |-> TRUE, credit |-> 0, queue |-> <<>>, queued |-> 0, seq |-> 0,
                  sent |-> 0, ended |-> FALSE, errored |-> FALSE]
      BY <1>1 DEF NoOut
    <2>2. out'.open /\ ~out'.ended /\ out'.seq = 0 /\ out'.queue = <<>>
          /\ out'.credit = 0 /\ out'.queued = 0 /\ out'.sent = 0
      BY <2>1
    <2>3. out' \in [open : BOOLEAN, credit : {0}, queue : Seq(Nat), queued : {0}, seq : Nat,
                   sent : {0}, ended : BOOLEAN, errored : BOOLEAN]
      <3>1. <<>> \in Seq(Nat) /\ 0 \in Nat
        OBVIOUS
      <3> QED
        BY <2>1, <3>1
    <2>4. ~Began /\ Len(written) = 0
      BY <1>1 DEF NoOut, Began
    <2> QED
      BY <2>2, <2>3, <2>4 DEF Began, Outs
  <1>3. /\ ~in.known /\ \A k \in DOMAIN toB : ~OfStream(toB[k])
        /\ in = NoIn /\ in.next = 0 /\ read = <<>> /\ writer = "idle"
    BY <1>1, <1>2 DEF SessionInv, Opening, Produced, Consumed, NoIn
  <1>4. toB \in Seq(Envelopes)
    BY DEF SessionInv, SessionTyped
  <1> DEFINE es == <<f>>
  <1>5. es \in Seq(Envelopes) /\ DOMAIN es = {1} /\ es[1] = f /\ Len(es) = 1
    BY KindsApart
  <1> HIDE DEF es
  <1>6. /\ toB' \in Seq(Envelopes)
        /\ \A k \in DOMAIN toB' : OfStream(toB'[k]) =>
             toB'[k] = f /\ k = Len(toB) + 1
        /\ ~downB => /\ Len(toB) + 1 \in DOMAIN toB' /\ toB'[Len(toB) + 1] = f
        /\ downB => toB' = <<>>
    <2>1. CASE downB
      <3>1. toB' = toB /\ toB = <<>>
        BY <1>1, <2>1 DEF PostB, PostTo, SessionInv, Travelling
      <3> QED
        BY <1>4, <2>1, <3>1
    <2>2. CASE ~downB
      <3>1. toB' = toB \o es
        BY <1>1, <2>2 DEF PostB, PostTo, es
      <3>2. /\ toB' \in Seq(Envelopes)
            /\ \A j \in DOMAIN toB : j \in DOMAIN toB' /\ toB'[j] = toB[j]
            /\ \A k \in DOMAIN es : Len(toB) + k \in DOMAIN toB' /\ toB'[Len(toB) + k] = es[k]
            /\ \A j \in DOMAIN toB' : j \in DOMAIN toB \/ \E k \in DOMAIN es : j = Len(toB) + k
        BY <1>4, <1>5, <3>1, Joined
      <3> QED
        BY <1>3, <1>5, <2>2, <3>2
    <2> QED
      BY <2>1, <2>2
  <1>7. /\ f.kind = "stream.open" /\ ~IsChunk(f) /\ OfStream(f)
        /\ \A e : IsChunk(e) \/ e.kind = "stream.open" \/ e.kind = "stream.end" => OfStream(e)
    BY DEF IsChunk, OfStream
  <1> HIDE DEF f
  <1>8. SessionTyped'
    BY <1>1, <1>2, <1>6 DEF SessionInv, SessionTyped
  <1>9. Produced'
    BY <1>1, <1>2 DEF SessionInv, Produced
  <1>10. Travelling'
    BY <1>1, <1>6, <1>7 DEF Travelling
  <1>11. Opening'
    <2>0. Len(toB) + 1 \in Nat
      BY <1>4
    <2>1. \A j, k \in DOMAIN toB' : toB'[j].kind = "stream.open" /\ OfStream(toB'[k]) => j <= k
      BY <1>6, <1>7, <2>0
    <2>2. \A k \in DOMAIN toB' : OfStream(toB'[k]) =>
            \E j \in DOMAIN toB' : j <= k /\ toB'[j].kind = "stream.open"
      BY <1>6, <1>7, <2>0
    <2>3. ~downB' => \E j \in DOMAIN toB' : toB'[j].kind = "stream.open"
      BY <1>1, <1>6, <1>7
    <2> QED
      BY <1>1, <1>2, <1>3, <2>1, <2>2, <2>3 DEF Opening
  <1>12. Contiguous'
    BY <1>1, <1>2, <1>3, <1>6, <1>7 DEF Contiguous, ComesTo
  <1>13. Consumed'
    BY <1>1, <1>2, <1>3 DEF SessionInv, Consumed, NoIn
  <1>14. DisposeSettles'
    BY <1>1 DEF SessionInv, DisposeSettles
  <1> QED
    BY <1>8, <1>9, <1>10, <1>11, <1>12, <1>13, <1>14 DEF SessionInv

\* What a reader knows of the chunk at the head of the port.
LEMMA HeadIs ==
  ASSUME SessionInv, toB # <<>>, ~downB
  PROVE  LET e == Head(toB) IN
         /\ e \in Envelopes /\ e = toB[1] /\ 1 \in DOMAIN toB
         /\ e.kind = "stream.open" => ~in.known
         /\ OfStream(e) /\ e.kind # "stream.open" => in.known
         /\ IsChunk(e) /\ in.open => /\ e.seq = in.next /\ e.chunk = in.next + 1
                                     /\ in.next < Len(written)
         /\ e.kind = "stream.end" => out.ended
         /\ e.kind = "stream.end" /\ in.open => in.next = Len(written)
  <1> DEFINE e == Head(toB)
  <1>1. toB \in Seq(Envelopes) /\ out.seq \in Nat /\ in.next \in Nat /\ written \in Seq(Nat)
    BY DEF SessionInv, SessionTyped, Outs, Ins
  <1>2. /\ 1 \in DOMAIN toB /\ e = toB[1] /\ e \in Envelopes
        /\ \A j \in DOMAIN toB : j \in Nat /\ j >= 1
    BY <1>1, TailIs
  <1> HIDE DEF e
  <1>3. e.kind = "stream.open" => ~in.known
    BY <1>2 DEF SessionInv, Opening
  <1>4. OfStream(e) /\ e.kind # "stream.open" => in.known
    <2> SUFFICES ASSUME OfStream(e), ~in.known PROVE e.kind = "stream.open"
      OBVIOUS
    <2>1. PICK j \in DOMAIN toB : j <= 1 /\ toB[j].kind = "stream.open"
      BY <1>2 DEF SessionInv, Opening
    <2>2. j = 1
      BY <1>2, <2>1
    <2> QED
      BY <1>2, <2>1, <2>2
  <1>5. \A m : ComesTo(toB, in.next, m, 1) => in.next = m
    BY <1>2 DEF ComesTo
  <1>6. IsChunk(e) => e.chunk = e.seq + 1 /\ e.seq < out.seq
    BY <1>2 DEF SessionInv, Travelling
  <1>7. in.open /\ IsChunk(e) => in.next = e.seq
    BY <1>2, <1>5 DEF SessionInv, Contiguous, InOpen
  <1>8. out.seq <= Len(written)
    <2>1. out.seq + Len(out.queue) = Len(written) /\ Len(out.queue) \in Nat
      BY DEF SessionInv, SessionTyped, Produced, Outs
    <2> QED
      BY <1>1, <2>1
  <1>9. in.open /\ IsChunk(e) => e.chunk = in.next + 1 /\ in.next < Len(written)
    BY <1>1, <1>6, <1>7, <1>8
  <1>10. e.kind = "stream.end" => out.ended
    BY <1>2 DEF SessionInv, Travelling
  <1>11. in.open /\ e.kind = "stream.end" => in.next = Len(written)
    BY <1>2, <1>5 DEF SessionInv, Contiguous, InOpen
  <1> QED
    BY <1>2, <1>3, <1>4, <1>7, <1>9, <1>10, <1>11 DEF e

\* The parts of side B that the handlers start from.
LEMMA InIs ==
  ASSUME SessionInv
  PROVE  /\ in \in Ins(in) /\ in.next \in Nat /\ in.buffered \in Seq(Nat) /\ read \in Seq(Nat)
         /\ Len(in.buffered) \in Nat /\ Len(read) \in Nat /\ written \in Seq(Nat)
         /\ Len(written) \in Nat
         /\ in.open => in.known /\ Len(read) + Len(in.buffered) = in.next /\ ~in.ended
         /\ reader \in {"idle", "pulling", "failed", "ended"}
  BY SMTT(30) DEF SessionInv, SessionTyped, Consumed, Ins

\* A chunk that is appended to what was read or to what waits keeps the order.
LEMMA Appended ==
  ASSUME NEW s \in Seq(Nat), NEW k \in Nat, \A i \in DOMAIN s : s[i] = k + i
  PROVE  /\ Append(s, k + Len(s) + 1) \in Seq(Nat)
         /\ Len(Append(s, k + Len(s) + 1)) = Len(s) + 1
         /\ \A i \in DOMAIN Append(s, k + Len(s) + 1) : Append(s, k + Len(s) + 1)[i] = k + i
  <1> DEFINE x == k + Len(s) + 1
             t == Append(s, x)
  <1>1. x \in Nat /\ Len(s) \in Nat
    OBVIOUS
  <1> HIDE DEF x
  <1>2. /\ t \in Seq(Nat) /\ Len(t) = Len(s) + 1 /\ DOMAIN s = 1 .. Len(s)
        /\ DOMAIN t = 1 .. Len(s) + 1 /\ t[Len(s) + 1] = x
        /\ \A i \in DOMAIN s : t[i] = s[i]
    BY <1>1
  <1>3. \A i \in DOMAIN t : i \in DOMAIN s \/ i = Len(s) + 1
    BY <1>1, <1>2
  <1>4. x = k + (Len(s) + 1)
    BY DEF x
  <1>5. \A i \in DOMAIN t : t[i] = k + i
    BY <1>2, <1>3, <1>4
  <1> QED
    BY <1>2, <1>5 DEF x

\* An inbound stream that fails: its record keeps the rest.
LEMMA FailedIs ==
  ASSUME NEW i \in Ins(in), NEW f, f = FailedIn(i), in \in Ins(in)
  PROVE  /\ f \in Ins(f) /\ ~f.open /\ f.known = i.known /\ f.buffered = i.buffered
         /\ f.next = i.next /\ f.ended = i.ended /\ f.failed
  <1>1. /\ f \in [open : BOOLEAN, known : BOOLEAN, granted : {in.granted}, buffered : Seq(Nat),
                  next : Nat, total : {in.total}, ended : BOOLEAN, failed : BOOLEAN]
        /\ ~f.open /\ f.known = i.known /\ f.buffered = i.buffered
        /\ f.next = i.next /\ f.ended = i.ended /\ f.failed
        /\ f.granted = in.granted /\ f.total = in.total
    BY DEF Ins, FailedIn
  <1> QED
    BY <1>1 DEF Ins

\* A call's envelope leaves the stream alone.
LEMMA TakeCall ==
  ASSUME SessionInv, toB # <<>>, ~downB, toB' = Tail(toB),
         UNCHANGED <<calls, out, written, writer, downA, downB, in, reader, read>>,
         Head(toB).kind \in {"rpc.request", "rpc.cancel"}
  PROVE  SessionInv'
  <1>1. /\ in' \in Ins(in') /\ read' \in Seq(Nat)
        /\ reader' \in {"idle", "pulling", "failed", "ended"}
    BY InIs
  <1>2. ~IsChunk(Head(toB)) /\ Head(toB).kind # "stream.open"
    BY DEF IsChunk
  <1>3. in'.known <=> (in.known \/ Head(toB).kind = "stream.open")
    BY <1>2
  <1>4. InOpen' => InOpen /\ in'.next = IF IsChunk(Head(toB)) THEN Head(toB).seq + 1 ELSE in.next
    BY <1>2 DEF InOpen
  <1>5. Consumed'
    BY DEF SessionInv, Consumed
  <1> QED
    BY <1>1, <1>3, <1>4, <1>5, Taken

LEMMA TakeOpen ==
  ASSUME SessionInv, toB # <<>>, ~downB, toB' = Tail(toB), OnOpen,
         UNCHANGED <<calls, out, written, writer, downA, downB>>,
         Head(toB).kind = "stream.open"
  PROVE  SessionInv'
  <1>0. <<>> \in Seq(Nat) /\ 0 \in Nat /\ Len(<<>>) = 0
    OBVIOUS
  <1>1. /\ ~in.known /\ in = NoIn /\ in.next = 0 /\ ~in.ended /\ read = <<>>
        /\ read \in Seq(Nat) /\ Len(written) \in Nat
        /\ reader \in {"idle", "pulling", "failed", "ended"} /\ reader # "ended"
    BY HeadIs, InIs DEF SessionInv, Consumed, NoIn
  <1>2. /\ in' = [NoIn EXCEPT !.open = TRUE, !.known = TRUE, !.granted = Window]
        /\ read' = read /\ reader' = reader
    BY DEF OnOpen
  <1>3. in' = [open |-> TRUE, known |-> TRUE, granted |-> Window, buffered |-> <<>>,
               next |-> 0, total |-> 0, ended |-> FALSE, failed |-> FALSE]
    BY <1>2 DEF NoIn
  <1>4. /\ in'.open /\ in'.known /\ in'.buffered = <<>> /\ in'.next = 0 /\ ~in'.ended
        /\ in'.granted = Window /\ in'.total = 0
    BY <1>3
  <1>5. in' \in [open : BOOLEAN, known : BOOLEAN, granted : {Window}, buffered : Seq(Nat),
                 next : Nat, total : {0}, ended : BOOLEAN, failed : BOOLEAN]
    BY <1>0, <1>3
  <1>6. in' \in Ins(in')
    BY <1>4, <1>5 DEF Ins
  <1>7. ~IsChunk(Head(toB))
    BY DEF IsChunk
  <1>8. Consumed'
    BY <1>0, <1>1, <1>2, <1>4 DEF Consumed
  <1>9. InOpen' => InOpen /\ in'.next = IF IsChunk(Head(toB)) THEN Head(toB).seq + 1 ELSE in.next
    BY <1>1, <1>4, <1>7 DEF InOpen
  <1> QED
    BY <1>1, <1>2, <1>4, <1>6, <1>8, <1>9, Taken

LEMMA TakeChunk ==
  ASSUME SessionInv, toB # <<>>, ~downB, toB' = Tail(toB), OnChunk(Head(toB)),
         UNCHANGED <<calls, out, written, writer, downA, downB>>,
         Head(toB).kind = "stream.chunk"
  PROVE  SessionInv'
  <1> DEFINE e == Head(toB)
  <1>1. IsChunk(e) /\ OfStream(e) /\ e.kind # "stream.open"
    BY DEF IsChunk, OfStream
  <1>2. /\ in.known
        /\ in.open => /\ e.seq = in.next /\ e.chunk = in.next + 1 /\ in.next < Len(written)
    BY <1>1, HeadIs
  <1>3. /\ in \in Ins(in) /\ in.next \in Nat /\ in.buffered \in Seq(Nat) /\ read \in Seq(Nat)
        /\ Len(in.buffered) \in Nat /\ Len(read) \in Nat /\ Len(written) \in Nat
        /\ in.open => Len(read) + Len(in.buffered) = in.next /\ ~in.ended
        /\ reader \in {"idle", "pulling", "failed", "ended"}
    BY InIs
  <1>4. /\ \A i \in DOMAIN read : read[i] = i
        /\ \A i \in DOMAIN in.buffered : in.buffered[i] = Len(read) + i
        /\ reader = "pulling" => in.buffered = <<>>
        /\ reader = "ended" => in.ended /\ in.buffered = <<>>
        /\ Consumed
    BY DEF SessionInv, Consumed
  <1>5. CASE ~in.open
    <2>1. UNCHANGED <<in, reader, read>>
      BY <1>5 DEF OnChunk
    <2>2. Consumed'
      BY <1>4, <2>1 DEF Consumed
    <2>3. ~InOpen'
      BY <1>2, <1>5, <2>1 DEF InOpen
    <2> QED
      BY <1>1, <1>2, <1>3, <2>1, <2>2, <2>3, Taken
  <1>6. CASE in.open
    <2> DEFINE state == [in EXCEPT !.next = in.next + 1, !.total = in.total + Sizes[e.chunk],
                                   !.granted = Max({0, in.granted - Sizes[e.chunk]})]
               total == in.total + Sizes[e.chunk]
               granted0 == Max({0, in.granted - Sizes[e.chunk]})
    <2>1. e.seq = in.next /\ e.chunk = in.next + 1 /\ in.next < Len(written)
      BY <1>2, <1>6
    <2>2. InOpen /\ in.next + 1 = e.seq + 1 /\ in.next + 1 \in Nat
      BY <1>3, <1>6, <2>1 DEF InOpen
    <2>3. CASE state.total > MaxTotal
      <3>1. /\ in' = FailedIn(state) /\ read' = read
            /\ reader' = IF reader = "pulling" THEN "failed" ELSE reader
        BY <1>6, <2>1, <2>3 DEF OnChunk
      <3> HIDE DEF total, granted0
      <3>2. in' = [in EXCEPT !.next = in.next + 1, !.total = total, !.granted = granted0,
                             !.failed = TRUE, !.open = FALSE]
        BY <3>1 DEF FailedIn, total, granted0
      <3>3. /\ in' \in [open : BOOLEAN, known : BOOLEAN, granted : {granted0},
                        buffered : Seq(Nat), next : Nat, total : {total}, ended : BOOLEAN,
                        failed : BOOLEAN]
            /\ ~in'.open /\ in'.known = in.known /\ in'.buffered = in.buffered
            /\ in'.ended = in.ended /\ in'.granted = granted0 /\ in'.total = total
        BY <1>3, <2>2, <3>2 DEF Ins
      <3>4. in' \in Ins(in')
        BY <3>3 DEF Ins
      <3>5. ~InOpen'
        BY <1>2, <3>3 DEF InOpen
      <3>6. Consumed'
        <4>1. read' = read /\ reader' # "pulling" /\ (reader' = "ended" => reader = "ended")
          BY <3>1
        <4>2. ~in'.ended /\ reader' # "ended"
          BY <1>3, <1>4, <1>6, <3>3, <4>1
        <4>3. Len(read') + Len(in'.buffered) <= Len(written')
          BY <1>4, <3>3, <4>1 DEF Consumed
        <4> QED
          BY <1>2, <1>4, <3>3, <4>1, <4>2, <4>3 DEF Consumed
      <3>7. reader' \in {"idle", "pulling", "failed", "ended"}
        BY <1>3, <3>1
      <3> QED
        BY <1>1, <1>2, <1>3, <3>1, <3>3, <3>4, <3>5, <3>6, <3>7, Taken
    <2>4. CASE ~(state.total > MaxTotal) /\ reader = "pulling"
      <3>1. /\ read' = Append(read, e.chunk) /\ reader' = "idle"
            /\ in' = [state EXCEPT !.granted = Window]
        BY <1>6, <2>1, <2>4 DEF OnChunk
      <3> HIDE DEF total
      <3>2. in' = [in EXCEPT !.next = in.next + 1, !.total = total, !.granted = Window]
        BY <3>1 DEF total
      <3>3. /\ in' \in [open : BOOLEAN, known : BOOLEAN, granted : {Window},
                        buffered : Seq(Nat), next : Nat, total : {total}, ended : BOOLEAN,
                        failed : BOOLEAN]
            /\ in'.open = in.open /\ in'.known = in.known /\ in'.buffered = in.buffered
            /\ in'.ended = in.ended /\ in'.granted = Window /\ in'.total = total
            /\ in'.next = in.next + 1
        BY <1>3, <2>2, <3>2 DEF Ins
      <3>4. in' \in Ins(in')
        BY <3>3 DEF Ins
      <3>5. in.buffered = <<>> /\ Len(in.buffered) = 0 /\ in.next = Len(read)
        BY <1>3, <1>4, <1>6, <2>4
      <3>6. /\ read' \in Seq(Nat) /\ Len(read') = Len(read) + 1
            /\ \A i \in DOMAIN read' : read'[i] = i
        <4> DEFINE x == 0 + Len(read) + 1
        <4>1. \A i \in DOMAIN read : read[i] = 0 + i
          BY <1>3, <1>4
        <4>2. x = e.chunk
          BY <1>3, <2>1, <3>5
        <4>3. /\ Append(read, x) \in Seq(Nat) /\ Len(Append(read, x)) = Len(read) + 1
              /\ \A i \in DOMAIN Append(read, x) : Append(read, x)[i] = 0 + i
          BY <1>3, <4>1, Appended
        <4> HIDE DEF x
        <4>4. read' = Append(read, x)
          BY <3>1, <4>2
        <4>5. \A i \in DOMAIN read' : i \in Nat
          BY <4>3, <4>4
        <4> QED
          BY <4>3, <4>4, <4>5
      <3>7. Len(read') + Len(in'.buffered) = in'.next /\ in'.next <= Len(written')
        BY <1>3, <2>1, <3>3, <3>5, <3>6
      <3>8. Consumed'
        BY <1>2, <1>3, <1>6, <3>1, <3>3, <3>5, <3>6, <3>7 DEF Consumed
      <3>9. InOpen' => InOpen /\ in'.next = IF IsChunk(e) THEN e.seq + 1 ELSE in.next
        BY <1>1, <2>2, <3>3
      <3> HIDE DEF e
      <3> QED
        BY <1>1, <1>2, <1>3, <3>1, <3>3, <3>4, <3>6, <3>8, <3>9, Taken DEF e
    <2>5. CASE ~(state.total > MaxTotal) /\ reader # "pulling"
      <3>1. /\ in' = [state EXCEPT !.buffered = Append(state.buffered, e.chunk)]
            /\ UNCHANGED <<reader, read>>
        BY <1>6, <2>1, <2>5 DEF OnChunk
      <3> HIDE DEF total, granted0
      <3> DEFINE b == Append(in.buffered, e.chunk)
      <3>2. in' = [in EXCEPT !.next = in.next + 1, !.total = total, !.granted = granted0,
                             !.buffered = b]
        <4>1. state.buffered = in.buffered
          BY <1>3 DEF Ins
        <4> QED
          BY <3>1, <4>1 DEF total, granted0
      <3>3. /\ b \in Seq(Nat) /\ Len(b) = Len(in.buffered) + 1
            /\ \A i \in DOMAIN b : b[i] = Len(read) + i
        <4> DEFINE x == Len(read) + Len(in.buffered) + 1
        <4>1. x = e.chunk
          BY <1>3, <1>6, <2>1
        <4>2. /\ Append(in.buffered, x) \in Seq(Nat)
              /\ Len(Append(in.buffered, x)) = Len(in.buffered) + 1
              /\ \A i \in DOMAIN Append(in.buffered, x) :
                   Append(in.buffered, x)[i] = Len(read) + i
          BY <1>3, <1>4, Appended
        <4> HIDE DEF x
        <4> QED
          BY <4>1, <4>2
      <3> HIDE DEF b
      <3>4. /\ in' \in [open : BOOLEAN, known : BOOLEAN, granted : {granted0},
                        buffered : Seq(Nat), next : Nat, total : {total}, ended : BOOLEAN,
                        failed : BOOLEAN]
            /\ in'.open = in.open /\ in'.known = in.known /\ in'.buffered = b
            /\ in'.ended = in.ended /\ in'.granted = granted0 /\ in'.total = total
            /\ in'.next = in.next + 1
        BY <1>3, <2>2, <3>2, <3>3 DEF Ins
      <3>5. in' \in Ins(in')
        BY <3>4 DEF Ins
      <3>6. Len(read) + Len(b) = in'.next /\ in'.next <= Len(written')
        BY <1>3, <1>6, <2>1, <3>3, <3>4
      <3>7. Consumed'
        BY <1>2, <1>3, <1>4, <1>6, <2>5, <3>1, <3>3, <3>4, <3>6 DEF Consumed
      <3>8. InOpen' => InOpen /\ in'.next = IF IsChunk(e) THEN e.seq + 1 ELSE in.next
        BY <1>1, <2>2, <3>4
      <3> HIDE DEF e
      <3> QED
        BY <1>1, <1>2, <1>3, <3>1, <3>4, <3>5, <3>7, <3>8, Taken DEF e
    <2> QED
      BY <2>3, <2>4, <2>5
  <1> QED
    BY <1>5, <1>6

LEMMA TakeLast ==
  ASSUME SessionInv, toB # <<>>, ~downB, toB' = Tail(toB),
         \/ Head(toB).kind = "stream.end" /\ OnEnd
         \/ Head(toB).kind = "stream.error" /\ OnError,
         UNCHANGED <<calls, out, written, writer, downA, downB, read>>
  PROVE  SessionInv'
  <1> DEFINE e == Head(toB)
  <1>1. ~IsChunk(e) /\ OfStream(e) /\ e.kind # "stream.open"
    BY DEF IsChunk, OfStream
  <1>2. /\ in.known /\ (e.kind = "stream.end" => out.ended)
        /\ e.kind = "stream.end" /\ in.open => in.next = Len(written)
    BY <1>1, HeadIs
  <1>3. /\ in \in Ins(in) /\ in.next \in Nat /\ in.buffered \in Seq(Nat) /\ read \in Seq(Nat)
        /\ Len(in.buffered) \in Nat /\ Len(read) \in Nat /\ Len(written) \in Nat
        /\ in.open => Len(read) + Len(in.buffered) = in.next /\ ~in.ended
        /\ reader \in {"idle", "pulling", "failed", "ended"}
    BY InIs
  <1>4. Consumed
    BY DEF SessionInv
  <1>5. CASE ~in.open
    <2>1. UNCHANGED <<in, reader>>
      BY <1>5 DEF OnEnd, OnError
    <2>2. Consumed'
      BY <1>4, <2>1 DEF Consumed
    <2>3. ~InOpen'
      BY <1>2, <1>5, <2>1 DEF InOpen
    <2> QED
      BY <1>1, <1>2, <1>3, <2>1, <2>2, <2>3, Taken
  <1>6. CASE in.open /\ e.kind = "stream.end"
    <2>1. /\ in' = [in EXCEPT !.ended = TRUE, !.open = FALSE]
          /\ reader' = IF reader = "pulling" THEN "ended" ELSE reader
      BY <1>6 DEF OnEnd
    <2>2. /\ in' \in [open : BOOLEAN, known : BOOLEAN, granted : {in.granted},
                      buffered : Seq(Nat), next : Nat, total : {in.total}, ended : BOOLEAN,
                      failed : BOOLEAN]
          /\ ~in'.open /\ in'.known = in.known /\ in'.buffered = in.buffered
          /\ in'.ended /\ in'.granted = in.granted /\ in'.total = in.total
      BY <1>3, <2>1 DEF Ins
    <2>3. in' \in Ins(in')
      BY <2>2 DEF Ins
    <2>4. ~InOpen'
      BY <1>2, <2>2 DEF InOpen
    <2>5. Len(read) + Len(in.buffered) = Len(written) /\ out.ended
      BY <1>2, <1>3, <1>6
    <2>6. Consumed'
      BY <1>2, <1>4, <2>1, <2>2, <2>5 DEF Consumed
    <2>7. reader' \in {"idle", "pulling", "failed", "ended"}
      BY <1>3, <2>1
    <2> QED
      BY <1>1, <1>2, <1>3, <2>2, <2>3, <2>4, <2>6, <2>7, Taken
  <1>7. CASE in.open /\ e.kind = "stream.error"
    <2>1. in' = FailedIn(in) /\ reader' = IF reader = "pulling" THEN "failed" ELSE reader
      BY <1>7 DEF OnError
    <2>2. /\ in' \in Ins(in') /\ ~in'.open /\ in'.known = in.known
          /\ in'.buffered = in.buffered /\ in'.ended = in.ended
      BY <1>3, <2>1, FailedIs
    <2>3. ~InOpen'
      BY <1>2, <2>2 DEF InOpen
    <2>4. Consumed'
      BY <1>2, <1>4, <2>1, <2>2 DEF Consumed
    <2>5. reader' \in {"idle", "pulling", "failed", "ended"}
      BY <1>3, <2>1
    <2> QED
      BY <1>1, <1>2, <1>3, <2>2, <2>3, <2>4, <2>5, Taken
  <1> QED
    BY <1>5, <1>6, <1>7

LEMMA ProcAtB ==
  ASSUME SessionInv, AtB
  PROVE  SessionInv'
  <1>1. toB # <<>> /\ ~downB /\ toB' = Tail(toB) /\ UNCHANGED <<downA, downB>>
    BY DEF AtB
  <1>2. \/ /\ Head(toB).kind \in {"rpc.request", "rpc.cancel"}
           /\ UNCHANGED <<calls, out, written, writer, in, reader, read>>
        \/ /\ Head(toB).kind = "stream.open" /\ OnOpen
           /\ UNCHANGED <<calls, out, writer, written>>
        \/ /\ Head(toB).kind = "stream.chunk" /\ OnChunk(Head(toB))
           /\ UNCHANGED <<calls, out, writer, written>>
        \/ /\ \/ Head(toB).kind = "stream.end" /\ OnEnd
              \/ Head(toB).kind = "stream.error" /\ OnError
           /\ UNCHANGED <<calls, out, writer, written, read>>
    BY DEF AtB, streamVars, rpcVars
  <1> QED
    BY <1>1, <1>2, TakeCall, TakeOpen, TakeChunk, TakeLast

\* A step that leaves the stream and its port alone.
LEMMA Quiet ==
  ASSUME SessionInv,
         UNCHANGED <<toB, downA, downB, out, writer, in, reader, written, read>>,
         calls' \in [Calls -> {"idle", "pending"} \cup Settled],
         \A c \in Calls : calls'[c] = "pending" => calls[c] = "pending"
  PROVE  SessionInv'
  <1>1. SessionTyped'
    BY DEF SessionInv, SessionTyped
  <1>2. Produced' /\ Travelling' /\ Opening' /\ DisposeSettles'
    BY DEF SessionInv, Produced, Travelling, Opening, DisposeSettles, Began
  <1>3. Contiguous'
    BY DEF SessionInv, Contiguous, InOpen
  <1>4. Consumed'
    BY DEF SessionInv, Consumed
  <1> QED
    BY <1>1, <1>2, <1>3, <1>4 DEF SessionInv

LEMMA ProcQuiet ==
  ASSUME SessionInv,
         \/ \E c \in Calls : CallDeadline(c) \/ ServeDeadline(c) \/ HandlerEnds(c)
         \/ UNCHANGED sessionVars
  PROVE  SessionInv'
  <1>1. calls \in [Calls -> {"idle", "pending"} \cup Settled]
    BY DEF SessionInv, SessionTyped
  <1>2. \/ calls' = calls
        \/ \E c \in Calls : calls' = [calls EXCEPT ![c] = "deadline"]
    BY DEF CallDeadline, ServeDeadline, HandlerEnds, sessionVars
  <1>3. /\ calls' \in [Calls -> {"idle", "pending"} \cup Settled]
        /\ \A c \in Calls : calls'[c] = "pending" => calls[c] = "pending"
    BY <1>1, <1>2 DEF Settled
  <1>4. UNCHANGED <<toB, downA, downB, out, writer, in, reader, written, read>>
    BY DEF CallDeadline, ServeDeadline, HandlerEnds, sessionVars, streamVars
  <1> QED
    BY <1>3, <1>4, Quiet

LEMMA ProcAtA ==
  ASSUME SessionInv, AtA
  PROVE  SessionInv'
  <1> DEFINE e == Head(toA)
  <1>1. CASE e.kind = "rpc.response" /\ OnResponse(e) /\ UNCHANGED <<remote, toB, streamVars>>
    <2>1. calls \in [Calls -> {"idle", "pending"} \cup Settled]
      BY DEF SessionInv, SessionTyped
    <2>2. \/ calls' = calls
          \/ \E s \in {"ok", "failed"} : calls' = [calls EXCEPT ![e.call] = s]
      BY <1>1 DEF OnResponse
    <2>3. /\ calls' \in [Calls -> {"idle", "pending"} \cup Settled]
          /\ \A c \in Calls : calls'[c] = "pending" => calls[c] = "pending"
      BY <2>1, <2>2 DEF Settled
    <2>4. UNCHANGED <<toB, downA, downB, out, writer, in, reader, written, read>>
      BY <1>1 DEF AtA, streamVars
    <2> QED
      BY <2>3, <2>4, Quiet
  <1>2. CASE OnCredit(e) /\ UNCHANGED <<rpcVars, in, reader, written, read, granted>>
    <2>1. UNCHANGED <<calls, downA, downB, in, reader, read, written>>
      BY <1>2 DEF AtA, rpcVars
    <2> QED
      BY <1>2, <2>1, ProcCredit
  <1> QED
    BY <1>1, <1>2 DEF AtA

LEMMA ProcPull ==
  ASSUME SessionInv, PullChunk
  PROVE  SessionInv'
  <1>1. /\ in.known /\ reader = "idle"
        /\ UNCHANGED <<calls, toB, downA, downB, out, writer, written>>
    BY DEF PullChunk, rpcVars
  <1>2. /\ in \in Ins(in) /\ in.next \in Nat /\ in.buffered \in Seq(Nat) /\ read \in Seq(Nat)
        /\ Len(in.buffered) \in Nat /\ Len(read) \in Nat /\ Len(written) \in Nat
    BY InIs
  <1>3. /\ \A i \in DOMAIN read : read[i] = i
        /\ \A i \in DOMAIN in.buffered : in.buffered[i] = Len(read) + i
        /\ Consumed
    BY DEF SessionInv, Consumed
  \* What a pull keeps, whatever it returns.
  <1>4. ASSUME in' \in Ins(in'), read' \in Seq(Nat),
               reader' \in {"idle", "pulling", "failed", "ended"},
               in'.open = in.open, in'.known = in.known, in'.next = in.next, Consumed'
        PROVE  SessionInv'
    <2>1. SessionTyped'
      BY <1>1, <1>4 DEF SessionInv, SessionTyped
    <2>2. Produced' /\ Travelling' /\ Opening' /\ DisposeSettles'
      BY <1>1, <1>4 DEF SessionInv, Produced, Travelling, Opening, DisposeSettles, Began
    <2>3. Contiguous'
      BY <1>1, <1>4 DEF SessionInv, Contiguous, InOpen
    <2> QED
      BY <1>4, <2>1, <2>2, <2>3 DEF SessionInv
  <1>5. CASE in.buffered = <<>>
    <2>1. /\ UNCHANGED <<in, read>>
          /\ reader' = IF in.failed THEN "failed" ELSE IF in.ended THEN "ended" ELSE "pulling"
      BY <1>5 DEF PullChunk
    <2>2. Consumed'
      BY <1>1, <1>3, <1>5, <2>1 DEF Consumed
    <2> QED
      BY <1>2, <1>4, <2>1, <2>2
  <1>6. CASE in.buffered # <<>>
    <2> DEFINE more == IF in.open THEN Window - in.granted ELSE 0
               granted1 == in.granted + more
               b == Tail(in.buffered)
               x == Head(in.buffered)
    <2>1. /\ read' = Append(read, x) /\ reader' = reader
          /\ in' = [in EXCEPT !.buffered = b, !.granted = granted1]
      BY <1>6 DEF PullChunk
    <2>2. /\ b \in Seq(Nat) /\ Len(b) = Len(in.buffered) - 1 /\ Len(in.buffered) >= 1
          /\ x = in.buffered[1] /\ 1 \in DOMAIN in.buffered
          /\ \A j \in DOMAIN b : j \in Nat /\ j + 1 \in DOMAIN in.buffered
                                 /\ b[j] = in.buffered[j + 1]
      BY <1>2, <1>6, TailIs
    <2> HIDE DEF granted1, b, x
    <2>3. /\ in' \in [open : BOOLEAN, known : BOOLEAN, granted : {granted1},
                      buffered : Seq(Nat), next : Nat, total : {in.total}, ended : BOOLEAN,
                      failed : BOOLEAN]
          /\ in'.open = in.open /\ in'.known = in.known /\ in'.buffered = b
          /\ in'.ended = in.ended /\ in'.granted = granted1 /\ in'.total = in.total
          /\ in'.next = in.next
      BY <1>2, <2>1, <2>2 DEF Ins
    <2>4. in' \in Ins(in')
      BY <2>3 DEF Ins
    <2>5. /\ read' \in Seq(Nat) /\ Len(read') = Len(read) + 1
          /\ \A i \in DOMAIN read' : read'[i] = i
      <3> DEFINE y == 0 + Len(read) + 1
      <3>1. \A i \in DOMAIN read : read[i] = 0 + i
        BY <1>2, <1>3
      <3>2. x = y
        BY <1>2, <1>3, <2>2
      <3>3. /\ Append(read, y) \in Seq(Nat) /\ Len(Append(read, y)) = Len(read) + 1
            /\ \A i \in DOMAIN Append(read, y) : Append(read, y)[i] = 0 + i
        BY <1>2, <3>1, Appended
      <3> HIDE DEF y
      <3>4. read' = Append(read, y)
        BY <2>1, <3>2
      <3>5. \A i \in DOMAIN read' : i \in Nat
        BY <3>3, <3>4
      <3> QED
        BY <3>3, <3>4, <3>5
    <2>0. /\ Len(read) \in Nat /\ Len(in.buffered) \in Nat
          /\ Len(read') = Len(read) + 1 /\ Len(b) = Len(in.buffered) - 1
      BY <1>2, <2>2, <2>5
    <2>6. ASSUME NEW i \in DOMAIN b PROVE b[i] = Len(read') + i
      <3>1. i \in Nat /\ i + 1 \in DOMAIN in.buffered /\ b[i] = in.buffered[i + 1]
        BY <2>2
      <3>2. in.buffered[i + 1] = Len(read) + (i + 1)
        BY <1>3, <3>1
      <3> QED
        BY <2>0, <3>1, <3>2
    <2>7. Len(read') + Len(b) = Len(read) + Len(in.buffered)
      <3>1. \A p, q \in Nat : (p + 1) + (q - 1) = p + q
        OBVIOUS
      <3> QED
        BY <2>0, <3>1
    <2>8. Consumed'
      <3>1. reader' = "idle" /\ in'.known
        BY <1>1, <2>1, <2>3
      <3> QED
        BY <1>1, <1>3, <2>3, <2>5, <2>6, <2>7, <3>1 DEF Consumed
    <2> QED
      BY <1>1, <1>4, <2>1, <2>3, <2>4, <2>5, <2>8
  <1> QED
    BY <1>5, <1>6

LEMMA ProcDispose ==
  ASSUME SessionInv, DisposeA \/ DisposeB
  PROVE  SessionInv'
  <1>0. /\ out \in Outs(out) /\ in \in Ins(in)
        /\ calls \in [Calls -> {"idle", "pending"} \cup Settled]
        /\ writer \in {"idle", "full", "woken", "drained"}
        /\ reader \in {"idle", "pulling", "failed", "ended"}
    BY DEF SessionInv, SessionTyped
  <1>1. CASE DisposeA
    <2>1. /\ downA' = TRUE /\ writer' = Woken /\ out' = [out EXCEPT !.open = FALSE]
          /\ calls' = [c \in Calls |-> IF calls[c] = "pending" THEN "disposed" ELSE calls[c]]
          /\ UNCHANGED <<toB, downB, in, reader, written, read>>
      BY <1>1 DEF DisposeA
    <2>2. /\ out' \in [open : BOOLEAN, credit : {out.credit}, queue : Seq(Nat),
              queued : {out.queued}, seq : Nat, sent : {out.sent}, ended : BOOLEAN,
              errored : BOOLEAN]
          /\ out'.seq = out.seq /\ out'.queue = out.queue /\ out'.ended = out.ended
          /\ out'.credit = out.credit /\ out'.sent = out.sent /\ out'.queued = out.queued
      BY <1>0, <2>1 DEF Outs
    <2>3. out' \in Outs(out')
      BY <2>2 DEF Outs
    <2>4. /\ calls' \in [Calls -> {"idle", "pending"} \cup Settled]
          /\ \A c \in Calls : calls'[c] # "pending"
      BY <1>0, <2>1 DEF Settled
    <2>5. /\ writer' \in {"idle", "full", "woken", "drained"}
          /\ writer = "idle" => writer' = "idle"
      BY <2>1 DEF Woken
    <2>6. SessionTyped'
      BY <2>1, <2>3, <2>4, <2>5 DEF SessionInv, SessionTyped
    <2>7. Produced'
      BY <2>1, <2>2, <2>5 DEF SessionInv, Produced
    <2>8. Travelling' /\ DisposeSettles'
      BY <2>1, <2>2, <2>4 DEF SessionInv, Travelling, DisposeSettles
    <2>9. Opening'
      BY <2>1 DEF SessionInv, Opening
    <2>10. Contiguous'
      BY <2>1 DEF SessionInv, Contiguous, InOpen
    <2>11. Consumed'
      BY <2>1, <2>2 DEF SessionInv, Consumed
    <2> QED
      BY <2>6, <2>7, <2>8, <2>9, <2>10, <2>11 DEF SessionInv
  <1>2. CASE DisposeB
    <2>1. /\ downB' = TRUE /\ toB' = <<>>
          /\ in' = IF in.open THEN FailedIn(in) ELSE in
          /\ reader' = IF reader = "pulling" THEN "failed" ELSE reader
          /\ UNCHANGED <<calls, downA, out, writer, written, read>>
      BY <1>2 DEF DisposeB
    <2>2. /\ in' \in Ins(in') /\ ~in'.open /\ in'.known = in.known
          /\ in'.buffered = in.buffered /\ in'.ended = in.ended
      BY <1>0, <2>1, FailedIs
    <2>3. ~in.known => ~in.open
      BY DEF SessionInv, Consumed
    <2>4. SessionTyped'
      BY <1>0, <2>1, <2>2 DEF SessionInv, SessionTyped
    <2>5. Produced' /\ Travelling' /\ DisposeSettles'
      BY <2>1 DEF SessionInv, Produced, Travelling, DisposeSettles, Began
    <2>6. Opening'
      BY <2>1, <2>2 DEF SessionInv, Opening, Began
    <2>7. Contiguous'
      BY <2>1 DEF Contiguous
    <2>8. Consumed'
      BY <2>1, <2>2, <2>3 DEF SessionInv, Consumed
    <2> QED
      BY <2>4, <2>5, <2>6, <2>7, <2>8 DEF SessionInv
  <1> QED
    BY <1>1, <1>2

LEMMA SessionInvariant == SessionSpec => []SessionInv
  <1>1. SessionInit => SessionInv
    <2> SUFFICES ASSUME SessionInit PROVE SessionInv
      OBVIOUS
    <2>0. <<>> \in Seq(Nat) /\ <<>> \in Seq(Envelopes) /\ Len(<<>>) = 0 /\ 0 \in Nat
      OBVIOUS
    <2>1. out \in Outs(out) /\ out.seq = 0 /\ out.queue = <<>> /\ ~out.ended /\ ~Began
      BY <2>0 DEF SessionInit, NoOut, Outs, Began
    <2>2. /\ in \in Ins(in) /\ ~in.known /\ ~in.open /\ ~in.ended /\ in.next = 0
          /\ in.buffered = <<>>
      BY <2>0 DEF SessionInit, NoIn, Ins
    <2>3. SessionTyped
      BY <2>0, <2>1, <2>2 DEF SessionInit, SessionTyped
    <2>4. Produced /\ Travelling /\ Opening /\ DisposeSettles
      BY <2>0, <2>1, <2>2 DEF SessionInit, Produced, Travelling, Opening, DisposeSettles
    <2>5. Contiguous
      BY <2>0, <2>1, <2>2 DEF SessionInit, Contiguous, ComesTo
    <2>6. Consumed
      BY <2>0, <2>1, <2>2 DEF SessionInit, Consumed
    <2> QED
      BY <2>3, <2>4, <2>5, <2>6 DEF SessionInv
  <1>2. SessionInv /\ [SessionNext]_sessionVars => SessionInv'
    <2> SUFFICES ASSUME SessionInv, [SessionNext]_sessionVars PROVE SessionInv'
      OBVIOUS
    <2>1. CASE \E c \in Calls : CallPeer(c) \/ CancelRequest(c)
      BY <2>1, ProcCall
    <2>2. CASE \/ \E c \in Calls : CallDeadline(c) \/ ServeDeadline(c) \/ HandlerEnds(c)
               \/ UNCHANGED sessionVars
      BY <2>2, ProcQuiet
    <2>3. CASE OpenStream
      BY <2>3, ProcOpenStream
    <2>4. CASE WriteChunk \/ WriteResumes
      BY <2>4, ProcWrite
    <2>5. CASE EndStream \/ FailStream
      BY <2>5, ProcEnd
    <2>6. CASE PullChunk
      BY <2>6, ProcPull
    <2>7. CASE AtA
      BY <2>7, ProcAtA
    <2>8. CASE AtB
      BY <2>8, ProcAtB
    <2>9. CASE DisposeA \/ DisposeB
      BY <2>9, ProcDispose
    <2> QED
      BY <2>1, <2>2, <2>3, <2>4, <2>5, <2>6, <2>7, <2>8, <2>9 DEF SessionNext
  <1> QED
    BY <1>1, <1>2, PTL DEF SessionSpec

LEMMA PrefixIs ==
  ASSUME NEW q \in Seq(Nat), NEW n \in 0 .. Len(q)
  PROVE  LET r == SubSeq(q, 1, n) IN
         r \in Seq(Nat) /\ Len(r) = n /\ \A i \in 1 .. n : r[i] = q[i]
  OBVIOUS

LEMMA SoundSession ==
  ASSUME SessionInv
  PROVE  SessionSound
  <1>1. /\ read \in Seq(Nat) /\ written \in Seq(Nat)
        /\ DOMAIN read = 1 .. Len(read) /\ DOMAIN written = 1 .. Len(written)
        /\ Len(read) \in Nat /\ Len(written) \in Nat /\ Len(in.buffered) \in Nat
        /\ in.buffered = <<>> => Len(in.buffered) = 0
    BY InIs
  <1>2. /\ \A i \in DOMAIN read : read[i] = i
        /\ \A i \in DOMAIN written : written[i] = i
        /\ Len(read) + Len(in.buffered) <= Len(written)
        /\ reader = "ended" => in.ended /\ in.buffered = <<>>
        /\ in.ended => Len(read) + Len(in.buffered) = Len(written)
    BY DEF SessionInv, Produced, Consumed
  <1>0. Len(read) <= Len(written) /\ (reader = "ended" => Len(read) = Len(written))
    <2>1. /\ Len(read) \in Nat /\ Len(written) \in Nat /\ Len(in.buffered) \in Nat
          /\ Len(read) + Len(in.buffered) <= Len(written)
          /\ reader = "ended" => /\ Len(read) + Len(in.buffered) = Len(written)
                                 /\ Len(in.buffered) = 0
      BY <1>1, <1>2
    <2> QED
      BY <2>1
  <1>3. StreamInOrder
    <2>1. \A i \in 1 .. Len(read) : i \in 1 .. Len(written)
      <3>1. Len(read) \in Nat /\ Len(written) \in Nat
        BY <1>1
      <3> QED
        BY <1>0, <3>1
    <2>2. \A i \in DOMAIN read : i \in DOMAIN written /\ read[i] = written[i]
      BY <1>1, <1>2, <2>1
    <2>3. Len(read) \in 0 .. Len(written)
      <3>1. Len(read) \in Nat /\ Len(written) \in Nat
        BY <1>1
      <3> QED
        BY <1>0, <3>1
    <2>4. SubSeq(written, 1, Len(read)) = read
      <3> DEFINE w == SubSeq(written, 1, Len(read))
      <3>1. /\ w \in Seq(Nat) /\ Len(w) = Len(read)
            /\ \A i \in 1 .. Len(read) : w[i] = written[i]
        BY <1>1, <2>3, PrefixIs
      <3> HIDE DEF w
      <3>2. \A i \in 1 .. Len(read) : w[i] = read[i]
        BY <1>1, <2>2, <3>1
      <3>3. w = read
        BY <1>1, <3>1, <3>2
      <3> QED
        BY <3>3 DEF w
    <2> QED
      BY <1>0, <2>4 DEF StreamInOrder, IsPrefix
  <1>4. EndComplete
    <2> SUFFICES ASSUME reader = "ended" PROVE read = written
      BY DEF EndComplete
    <2>1. Len(read) = Len(written)
      BY <1>0
    <2>2. \A i \in 1 .. Len(read) : read[i] = written[i]
      BY <1>1, <1>2, <2>1
    <2>3. read \in Seq(Nat) /\ written \in Seq(Nat)
      BY <1>1
    <2> QED
      BY <2>1, <2>2, <2>3
  <1> QED
    BY <1>3, <1>4 DEF SessionInv, SessionSound

\* Whatever the sizes, the window and the buffer of the session, a reader of the
\* plugin kernel's stream gets a prefix of what the writer wrote, in order and
\* without a gap, and all of it when it sees a clean end; and a disposed session
\* leaves no call of its side pending (session.ts write, pumpOutbound, onMessage,
\* pull, dispose).
THEOREM SessionIsSound == SessionSpec => []SessionSound
  <1>1. SessionInv => SessionSound
    BY SoundSession
  <1> QED
    BY <1>1, SessionInvariant, PTL

\* A call that is settled stays so: a response, a deadline, a cancel or a dispose
\* that comes later changes nothing (session.ts onMessage, cancelRequest, dispose).
THEOREM CallsSettleOnce == SessionSpec => SettlesOnce
  <1> DEFINE Kept == \A c \in Calls : calls[c] \in Settled => calls'[c] = calls[c]
  <1>1. SessionInv /\ [SessionNext]_sessionVars => [Kept]_sessionVars
    <2> SUFFICES ASSUME SessionInv, SessionNext, NEW c \in Calls, calls[c] \in Settled
                 PROVE  calls'[c] = calls[c]
      OBVIOUS
    <2>1. calls \in [Calls -> {"idle", "pending"} \cup Settled]
          /\ calls[c] # "pending" /\ calls[c] # "idle"
      BY DEF SessionInv, SessionTyped, Settled
    <2>2. \/ calls' = calls
          \/ \E d, s : d # c /\ calls' = [calls EXCEPT ![d] = s]
          \/ calls' = [d \in Calls |-> IF calls[d] = "pending" THEN "disposed" ELSE calls[d]]
      <3>1. CASE \E d \in Calls :
                   CallPeer(d) \/ CancelRequest(d) \/ CallDeadline(d) \/ ServeDeadline(d)
                     \/ HandlerEnds(d)
        BY <2>1, <3>1 DEF CallPeer, CancelRequest, CallDeadline, ServeDeadline, HandlerEnds
      <3>2. CASE OpenStream \/ WriteChunk \/ WriteResumes \/ EndStream \/ FailStream \/ PullChunk
        BY <3>2 DEF OpenStream, WriteChunk, WriteResumes, EndStream, FailStream, PullChunk,
                    rpcVars
      <3>3. CASE AtA
        BY <2>1, <3>3 DEF AtA, OnResponse, rpcVars
      <3>4. CASE AtB
        BY <3>4 DEF AtB, rpcVars
      <3>5. CASE DisposeA \/ DisposeB
        BY <3>5 DEF DisposeA, DisposeB
      <3> QED
        BY <3>1, <3>2, <3>3, <3>4, <3>5 DEF SessionNext
    <2> QED
      BY <2>1, <2>2
  <1> QED
    BY <1>1, SessionInvariant, PTL DEF SessionSpec, SettlesOnce

-----------------------------------------------------------------------------
(* Grants.                                                                 *)

ConnRecs == [id : Nat, consumer : GPlugins, provider : GPlugins]

GrantTyped ==
    /\ server \subseteq Grantable /\ client \subseteq Grantable
    /\ listed \subseteq Grantable /\ upcoming \subseteq Grantable
    /\ up \subseteq GPlugins /\ registry \subseteq GPlugins
    /\ conns \subseteq ConnRecs /\ IsFiniteSet(conns) /\ connSeq \in Nat
    /\ workers \in [GPlugins -> Nat] /\ spawning \in [GPlugins -> Nat] /\ peak \in [GPlugins -> Nat]

\* A grant in any object of the client, or in an answer under way, is one that the
\* server has, or whose revocation is under way, overtook the answer, or missed it.
Backed == server \cup revocations \cup overtaken \cup missed
ObjectsBacked == answers \subseteq Backed /\ Objects \subseteq Backed

\* What runs and what is about to run, together.
SpawnsCounted ==
    \A p \in GPlugins : workers[p] + spawning[p] > 0 =>
        workers[p] + spawning[p] < MaxWorkers + peak[p]

GrantInv ==
    /\ GrantTyped /\ ObjectsBacked /\ SpawnsCounted /\ ServicesGranted /\ ConnectionsOwned

LEMMA OfIs ==
  ASSUME NEW p, NEW q, NEW name, <<q, name>> \in Of(p)
  PROVE  q = p
  BY DEF Of

Held(s, p) == {c \in s : c.consumer = p}

\* Fewer connections are still within each quota.
LEMMA FewerConns ==
  ASSUME NEW s, NEW l, IsFiniteSet(s), l \subseteq s, NEW n \in Nat,
         NEW p, Cardinality(Held(s, p)) <= n
  PROVE  /\ IsFiniteSet(l) /\ Cardinality(Held(l, p)) <= n
  <1> DEFINE a == Held(l, p)
             b == Held(s, p)
  <1>1. IsFiniteSet(l) /\ IsFiniteSet(b) /\ b \in SUBSET s /\ a \in SUBSET b
    BY FS_Subset DEF Held
  <1>2. IsFiniteSet(a) /\ Cardinality(a) \in Nat /\ Cardinality(b) \in Nat
        /\ Cardinality(a) <= Cardinality(b)
    BY <1>1, FS_Subset, FS_CardinalityType
  <1>3. Cardinality(b) <= n
    OBVIOUS
  <1> HIDE DEF a, b
  <1>4. Cardinality(a) <= n
    BY <1>2, <1>3
  <1> QED
    BY <1>1, <1>4 DEF a

LEMMA OneMoreConn ==
  ASSUME NEW s, NEW d, IsFiniteSet(s), NEW n \in Nat, NEW p,
         Cardinality(Held(s, p)) <= n,
         d.consumer = p => Cardinality(Held(s, p)) < n
  PROVE  /\ IsFiniteSet(s \cup {d})
         /\ Cardinality(Held(s \cup {d}, p)) <= n
  <1> DEFINE b == Held(s, p)
             a == Held(s \cup {d}, p)
  <1>1. IsFiniteSet(s \cup {d}) /\ IsFiniteSet(b)
    BY FS_AddElement, FS_Subset DEF Held
  <1>2. CASE d.consumer = p
    <2>1. a = b \cup {d}
      BY <1>2 DEF Held
    <2>2. Cardinality(b) < n /\ Cardinality(b) \in Nat
      BY <1>1, <1>2, FS_CardinalityType
    <2> HIDE DEF a, b
    <2>3. Cardinality(a) <= Cardinality(b) + 1
      <3>1. Cardinality(a) = Cardinality(b) \/ Cardinality(a) = Cardinality(b) + 1
        BY <1>1, <2>1, FS_AddElement
      <3> QED
        BY <3>1, <2>2
    <2>4. Cardinality(a) \in Nat
      BY <1>1, <2>1, FS_AddElement, FS_CardinalityType
    <2>5. Cardinality(a) <= n
      BY <2>2, <2>3, <2>4
    <2> QED
      BY <1>1, <2>5 DEF a
  <1>3. CASE d.consumer # p
    <2>1. a = b
      BY <1>3 DEF Held
    <2> QED
      BY <1>1, <2>1
  <1> QED
    BY <1>2, <1>3

LEMMA InitGrants == GrantInit => GrantInv
  <1> SUFFICES ASSUME GrantInit PROVE GrantInv
    OBVIOUS
  <1>1. \A p \in GPlugins : HeldBy(p) = {}
    BY DEF GrantInit, HeldBy
  <1>2. Cardinality({}) = 0 /\ IsFiniteSet({})
    BY FS_EmptySet
  <1>3. ConnectionsOwned
    BY <1>1, <1>2, GrantAssumption DEF ConnectionsOwned, GrantInit
  <1>4. GrantTyped
    BY <1>2 DEF GrantTyped, GrantInit
  <1>5. SpawnsCounted
    BY DEF SpawnsCounted, GrantInit
  <1> QED
    BY <1>3, <1>4, <1>5
       DEF GrantInit, GrantInv, ObjectsBacked, Objects, Backed, ServicesGranted

\* Connections that a step leaves are within the quotas, and owned if their consumer
\* keeps its session and its grant.
LEMMA StillOwned ==
  ASSUME GrantInv, conns' \subseteq conns,
         \A c \in conns' : c.consumer \in up' /\ <<c.consumer, "services.connect">> \in client'
  PROVE  ConnectionsOwned' /\ IsFiniteSet(conns') /\ conns' \subseteq ConnRecs
  <1>1. IsFiniteSet(conns) /\ conns \subseteq ConnRecs /\ MaxConsumer \in Nat
        /\ \A p \in GPlugins : Cardinality(HeldBy(p)) <= MaxConsumer
    BY GrantAssumption DEF GrantInv, GrantTyped, ConnectionsOwned
  <1>2. IsFiniteSet(conns')
    BY <1>1, FS_Subset
  <1>3. ASSUME NEW p \in GPlugins PROVE Cardinality(HeldBy(p)') <= MaxConsumer
    <2>1. PICK l : l = conns'
      OBVIOUS
    <2>2. Cardinality(Held(conns, p)) <= MaxConsumer
      BY <1>1 DEF HeldBy, Held
    <2>3. l \subseteq conns /\ IsFiniteSet(conns) /\ MaxConsumer \in Nat
      BY <1>1, <2>1
    <2>4. Cardinality(Held(l, p)) <= MaxConsumer
      BY <2>2, <2>3, FewerConns
    <2> QED
      BY <2>1, <2>4 DEF HeldBy, Held
  <1> QED
    BY <1>1, <1>2, <1>3 DEF ConnectionsOwned

-----------------------------------------------------------------------------
(* Frames that come and go, and grants.                                    *)

LEMMA ProcListPlugins ==
  ASSUME GrantInv, ListPlugins
  PROVE  GrantInv'
  <1>0. /\ listed' = server
        /\ UNCHANGED <<server, answers, revocations, overtaken, missed, client, upcoming, up,
                       registry, conns, connSeq, workers, spawning, peak>>
    BY DEF ListPlugins, netVars, brokerVars, workerVars
  <1>1. GrantTyped' /\ ObjectsBacked' /\ SpawnsCounted' /\ ServicesGranted'
    BY <1>0 DEF GrantInv, GrantTyped, ObjectsBacked, Objects, Backed, SpawnsCounted, ServicesGranted
  <1>2. ConnectionsOwned'
    BY <1>0 DEF GrantInv, ConnectionsOwned, HeldBy
  <1> QED
    BY <1>1, <1>2 DEF GrantInv

LEMMA ProcMount ==
  ASSUME GrantInv, NEW p \in GPlugins, Mount(p)
  PROVE  GrantInv'
  <1>0. /\ p \notin up /\ up' = up \cup {p}
        /\ client' \in {client, (client \ Of(p)) \cup (listed \cap Of(p))}
        /\ answers' \subseteq answers
        /\ UNCHANGED <<server, revocations, overtaken, missed, listed, upcoming,
                       registry, conns, connSeq, invokes, workers, spawning, peak>>
    BY DEF Mount, NewObject, brokerVars, workerVars
  <1>1. \A q, name : q # p /\ <<q, name>> \in client => <<q, name>> \in client'
    BY <1>0, OfIs
  <1>2. GrantTyped' /\ ObjectsBacked' /\ SpawnsCounted'
    BY <1>0 DEF GrantInv, GrantTyped, ObjectsBacked, Objects, Backed, SpawnsCounted
  <1>3. ServicesGranted'
    BY Zenon, <1>0, <1>1 DEF GrantInv, ServicesGranted
  <1>4. ConnectionsOwned'
    <2>1. \A c \in conns : /\ c.consumer \in up /\ c.consumer # p
                           /\ <<c.consumer, "services.connect">> \in client
      BY Zenon, <1>0 DEF GrantInv, ConnectionsOwned
    <2> QED
      BY <2>1, <1>0, <1>1, StillOwned
  <1> QED
    BY <1>2, <1>3, <1>4 DEF GrantInv

\* A session ends, and its frame goes, or gets an object of grants that are backed.
LEMMA ProcSessionEnds ==
  ASSUME GrantInv, NEW p \in GPlugins, SessionEnds(p), up' \in {up, up \ {p}},
         client' \in {client, (client \ Of(p)) \cup (upcoming \cap Of(p))},
         answers' \subseteq answers, upcoming' \subseteq upcoming,
         UNCHANGED <<server, revocations, overtaken, missed, listed>>
  PROVE  GrantInv'
  <1>0. /\ registry' = registry \ {p}
        /\ conns' = {c \in conns : c.consumer \notin {p}}
        /\ workers' = [workers EXCEPT ![p] = 0] /\ spawning' = [spawning EXCEPT ![p] = 0]
        /\ UNCHANGED <<connSeq, peak>>
    BY DEF SessionEnds, RemoveByPlugin
  <1>a. \A q, name : q # p /\ <<q, name>> \in client => <<q, name>> \in client'
    BY OfIs
  <1>b. \A q \in up : q # p => q \in up'
    OBVIOUS
  <1>1. ConnectionsOwned' /\ IsFiniteSet(conns') /\ conns' \subseteq ConnRecs
    <2>1. conns' \subseteq conns
      BY <1>0
    <2>2. ASSUME NEW c \in conns'
          PROVE  c.consumer \in up' /\ <<c.consumer, "services.connect">> \in client'
      <3>1. c \in conns /\ c.consumer # p
        BY <1>0
      <3>2. c.consumer \in up /\ <<c.consumer, "services.connect">> \in client
        BY <3>1 DEF GrantInv, ConnectionsOwned
      <3> QED
        BY <3>1, <3>2, <1>a, <1>b
    <2> QED
      BY <2>1, <2>2, StillOwned
  <1>2. GrantTyped'
    <2>1. client' \subseteq Grantable /\ upcoming' \subseteq Grantable /\ up' \subseteq GPlugins
      BY DEF GrantInv, GrantTyped
    <2> QED
      BY <1>0, <1>1, <2>1 DEF GrantInv, GrantTyped
  <1>3. ObjectsBacked'
    BY DEF GrantInv, ObjectsBacked, Objects, Backed
  <1>4. SpawnsCounted'
    <2>1. \A q \in GPlugins : \/ workers'[q] = workers[q] /\ spawning'[q] = spawning[q]
                              \/ workers'[q] = 0 /\ spawning'[q] = 0
      BY <1>0 DEF GrantInv, GrantTyped
    <2> QED
      BY <2>1, <1>0 DEF GrantInv, SpawnsCounted
  <1>5. ServicesGranted'
    BY Zenon, <1>0, <1>a, <1>b DEF GrantInv, ServicesGranted
  <1> QED
    BY <1>1, <1>2, <1>3, <1>4, <1>5 DEF GrantInv

LEMMA ProcFramesGo ==
  ASSUME GrantInv, NEW p \in GPlugins, Unmount(p) \/ Restart(p) \/ FinishUpdate(p)
  PROVE  GrantInv'
  <1>1. CASE Unmount(p) \/ Restart(p)
    <2>1. /\ SessionEnds(p) /\ up' \in {up, up \ {p}}
          /\ UNCHANGED <<server, answers, revocations, overtaken, missed, client, listed, upcoming>>
      BY <1>1 DEF Unmount, Restart, netVars, objectVars
    <2> QED
      BY <2>1, ProcSessionEnds
  <1>2. CASE FinishUpdate(p)
    <2>1. /\ SessionEnds(p) /\ up' = up
          /\ client' = (client \ Of(p)) \cup (upcoming \cap Of(p))
          /\ answers' \subseteq answers /\ upcoming' \subseteq upcoming
          /\ UNCHANGED <<server, revocations, overtaken, missed, listed>>
      BY <1>2 DEF FinishUpdate, NewObject
    <2> QED
      BY <2>1, ProcSessionEnds
  <1> QED
    BY <1>1, <1>2

LEMMA ProcBeginUpdate ==
  ASSUME GrantInv, NEW p \in GPlugins, BeginUpdate(p)
  PROVE  GrantInv'
  <1>0. /\ upcoming' = (upcoming \ Of(p)) \cup (listed \cap Of(p))
        /\ UNCHANGED <<server, answers, revocations, overtaken, missed, client, listed, up,
                       registry, conns, connSeq, workers, spawning, peak>>
    BY DEF BeginUpdate, netVars, brokerVars, workerVars
  <1>1. GrantTyped' /\ ObjectsBacked' /\ SpawnsCounted' /\ ServicesGranted'
    BY <1>0 DEF GrantInv, GrantTyped, ObjectsBacked, Objects, Backed, SpawnsCounted, ServicesGranted
  <1>2. ConnectionsOwned'
    BY <1>0 DEF GrantInv, ConnectionsOwned, HeldBy
  <1> QED
    BY <1>1, <1>2 DEF GrantInv

\* A step between the server and the client, or a call: connections, services and
\* workers stay.
LEMMA ProcNet ==
  ASSUME GrantInv, UNCHANGED <<up, registry, conns, connSeq, workers, spawning, peak>>,
         server' \subseteq Grantable, client \subseteq client', client' \subseteq Grantable,
         listed' \subseteq Grantable, upcoming' = upcoming, ObjectsBacked'
  PROVE  GrantInv'
  <1>1. GrantTyped' /\ SpawnsCounted'
    BY DEF GrantInv, GrantTyped, SpawnsCounted
  <1>2. ServicesGranted'
    BY Zenon DEF GrantInv, ServicesGranted
  <1>3. ConnectionsOwned'
    BY StillOwned DEF GrantInv, ConnectionsOwned
  <1> QED
    BY <1>1, <1>2, <1>3 DEF GrantInv

LEMMA ProcConsents ==
  ASSUME GrantInv, NEW g \in Grantable,
         \/ Consent(g) \/ GrantRuntime(g) \/ ConsentFails(g) \/ ConsentAnswered(g)
         \/ OrphanGranted(g) \/ Revoke(g) \/ RevocationLost(g)
  PROVE  GrantInv'
  <1>0. UNCHANGED <<up, registry, conns, connSeq, workers, spawning, peak, upcoming>>
    BY DEF Consent, GrantRuntime, ConsentFails, ConsentAnswered, OrphanGranted, Revoke,
           RevocationLost, brokerVars, workerVars, objectVars
  <1>1. \/ UNCHANGED <<client, listed>>
        \/ g \in answers /\ SetGranted(g)
    BY DEF Consent, GrantRuntime, ConsentFails, ConsentAnswered, OrphanGranted, Revoke,
           RevocationLost, objectVars
  <1>2. /\ server' \subseteq Grantable /\ client \subseteq client' /\ client' \subseteq Grantable
        /\ listed' \subseteq Grantable
    <2>1. server' \subseteq server \cup {g}
      BY DEF Consent, GrantRuntime, ConsentFails, ConsentAnswered, OrphanGranted, Revoke,
             RevocationLost, Granted
    <2> QED
      BY <1>1, <2>1 DEF GrantInv, GrantTyped, SetGranted
  <1>3. ObjectsBacked'
    <2>1. /\ Objects' \subseteq Objects \cup {g} /\ answers' \subseteq answers \cup {g}
          /\ g \in answers' \cup Objects' => g \in answers \cup Objects \cup server'
          /\ Backed \ {g} \subseteq Backed'
      <3>1. Objects' \subseteq Objects \cup {g} /\ (g \in Objects' => g \in Objects \cup answers)
        BY <1>0, <1>1 DEF Objects, SetGranted
      <3> QED
        BY <3>1 DEF Consent, GrantRuntime, ConsentFails, ConsentAnswered, OrphanGranted, Revoke,
                    RevocationLost, Granted, Backed
    <2>2. g \in answers \cup Objects => g \in Backed'
      <3>1. g \in answers \cup Objects => g \in Backed
        BY DEF GrantInv, ObjectsBacked
      <3> QED
        BY <3>1 DEF Consent, GrantRuntime, ConsentFails, ConsentAnswered, OrphanGranted, Revoke,
                    RevocationLost, Granted, Backed
    <2>3. g \in server' => g \in Backed'
      BY DEF Backed
    <2> QED
      BY <2>1, <2>2, <2>3 DEF GrantInv, ObjectsBacked
  <1> QED
    BY <1>0, <1>2, <1>3, ProcNet

LEMMA ProcRevocationArrives ==
  ASSUME GrantInv, NEW g \in Grantable, RevocationArrives(g)
  PROVE  GrantInv'
  <1>0. /\ revocations' = revocations \ {g} /\ OnRevoked(g)
        /\ overtaken' = IF g \in answers THEN overtaken \cup {g} ELSE overtaken
        /\ missed' = IF g \in Objects' THEN missed \cup {g} ELSE missed
        /\ UNCHANGED <<server, posts, answers, orphans, upcoming, up, connSeq, invokes,
                       workers, spawning, peak>>
    BY DEF RevocationArrives, workerVars
  <1>1. client' \in {client, client \ {g}} /\ listed' \subseteq listed
    BY <1>0 DEF OnRevoked, SetRevoked
  <1>2. ObjectsBacked' /\ SpawnsCounted'
    <2>1. Objects' \subseteq Objects
      BY <1>0, <1>1 DEF Objects
    <2>2. Objects' \subseteq Backed'
      BY <1>0, <2>1 DEF GrantInv, ObjectsBacked, Backed
    <2>3. answers' \subseteq Backed'
      BY <1>0 DEF GrantInv, ObjectsBacked, Backed
    <2> QED
      BY <1>0, <2>2, <2>3 DEF GrantInv, ObjectsBacked, SpawnsCounted
  <1>3. /\ registry' \subseteq registry /\ conns' \subseteq conns
        /\ g = <<g[1], "services.provide">> /\ client' # client => g[1] \notin registry'
        /\ g = <<g[1], "services.connect">> /\ client' # client =>
             \A c \in conns' : c.consumer # g[1]
    BY <1>0 DEF OnRevoked, RemoveByPlugin, RemoveByConsumer
  <1>4. ServicesGranted'
    <2> SUFFICES ASSUME NEW p \in registry' PROVE p \in up' /\ <<p, "services.provide">> \in client'
      BY Zenon DEF ServicesGranted
    <2>1. p \in up /\ <<p, "services.provide">> \in client
      BY <1>3 DEF GrantInv, ServicesGranted
    <2>2. CASE <<p, "services.provide">> # g
      BY <2>1, <2>2, <1>0, <1>1, <1>3
    <2>3. CASE <<p, "services.provide">> = g
      <3>1. g[1] = p /\ g = <<g[1], "services.provide">>
        BY <2>3
      <3> QED
        BY <3>1, <2>1, <1>0, <1>1, <1>3
    <2> QED
      BY <2>2, <2>3
  <1>5. ConnectionsOwned' /\ IsFiniteSet(conns') /\ conns' \subseteq ConnRecs
    <2>1. ASSUME NEW c \in conns'
          PROVE  c.consumer \in up' /\ <<c.consumer, "services.connect">> \in client'
      <3>1. c.consumer \in up /\ <<c.consumer, "services.connect">> \in client
        BY <1>3 DEF GrantInv, ConnectionsOwned
      <3>2. CASE <<c.consumer, "services.connect">> # g
        BY <3>1, <3>2, <1>0, <1>1, <1>3
      <3>3. CASE <<c.consumer, "services.connect">> = g
        <4>1. g[1] = c.consumer /\ g = <<g[1], "services.connect">>
          BY <3>3
        <4> QED
          BY <4>1, <3>1, <1>0, <1>1, <1>3
      <3> QED
        BY <3>2, <3>3
    <2> QED
      BY <2>1, <1>3, StillOwned
  <1>6. GrantTyped'
    BY <1>0, <1>1, <1>3, <1>5 DEF GrantInv, GrantTyped
  <1> QED
    BY <1>2, <1>4, <1>5, <1>6 DEF GrantInv

-----------------------------------------------------------------------------
(* Services, workers, and the theorem.                                     *)

\* A step that changes connections and services only.
LEMMA ProcServices ==
  ASSUME GrantInv,
         UNCHANGED <<server, client, listed, upcoming, answers, revocations, overtaken, missed, up, workers, spawning, peak>>,
         registry' \subseteq GPlugins, connSeq' \in Nat, conns' \subseteq ConnRecs,
         IsFiniteSet(conns'), ServicesGranted', ConnectionsOwned'
  PROVE  GrantInv'
  BY DEF GrantInv, GrantTyped, ObjectsBacked, Objects, Backed, SpawnsCounted

LEMMA ProcProvides ==
  ASSUME GrantInv, NEW p \in GPlugins, Provide(p) \/ Unprovide(p)
  PROVE  GrantInv'
  <1>0. UNCHANGED <<server, client, listed, upcoming, answers, revocations, overtaken, missed, up, workers, spawning, peak,
                    connSeq>>
    BY DEF Provide, Unprovide, netVars, objectVars, workerVars
  <1>1. conns' \subseteq conns /\ registry' \subseteq registry \cup {p} /\ Has(p, "services.provide")
    BY DEF Provide, Unprovide
  <1>2. ServicesGranted'
    BY Zenon, <1>0, <1>1 DEF GrantInv, ServicesGranted, Has
  <1>3. ConnectionsOwned' /\ IsFiniteSet(conns') /\ conns' \subseteq ConnRecs
    BY <1>0, <1>1, StillOwned DEF GrantInv, ConnectionsOwned
  <1> QED
    BY <1>0, <1>1, <1>2, <1>3, ProcServices DEF GrantInv, GrantTyped

LEMMA ProcConnect ==
  ASSUME GrantInv, NEW p \in GPlugins, NEW q \in GPlugins, Connect(p, q)
  PROVE  GrantInv'
  <1> DEFINE d == [id |-> connSeq + 1, consumer |-> p, provider |-> q]
  <1>0. /\ UNCHANGED <<server, client, listed, upcoming, answers, revocations, overtaken, missed, up, workers, spawning, peak,
                       registry>>
        /\ conns' = conns \cup {d} /\ connSeq' = connSeq + 1
        /\ Has(p, "services.connect") /\ Cardinality(HeldBy(p)) < MaxConsumer
    BY DEF Connect, MayConnect, netVars, objectVars, workerVars
  <1>1. /\ connSeq \in Nat /\ IsFiniteSet(conns) /\ conns \subseteq ConnRecs
        /\ registry \subseteq GPlugins /\ MaxConsumer \in Nat
    BY GrantAssumption DEF GrantInv, GrantTyped
  <1>2. d \in ConnRecs /\ d.consumer = p
    BY <1>1 DEF ConnRecs
  <1> HIDE DEF d
  <1>3. ServicesGranted'
    BY Zenon, <1>0 DEF GrantInv, ServicesGranted
  <1>4. ASSUME NEW r \in GPlugins
        PROVE  IsFiniteSet(conns') /\ Cardinality(HeldBy(r)') <= MaxConsumer
    <2>1. /\ Cardinality(Held(conns, r)) <= MaxConsumer
          /\ d.consumer = r => Cardinality(Held(conns, r)) < MaxConsumer
      BY <1>0, <1>2 DEF GrantInv, ConnectionsOwned, HeldBy, Held
    <2>2. /\ IsFiniteSet(conns \cup {d})
          /\ Cardinality(Held(conns \cup {d}, r)) <= MaxConsumer
      BY <1>1, <2>1, OneMoreConn
    <2> QED
      BY <2>2, <1>0 DEF HeldBy, Held
  <1>5. ConnectionsOwned'
    BY <1>0, <1>2, <1>4 DEF GrantInv, ConnectionsOwned, Has
  <1>6. IsFiniteSet(conns')
    BY <1>4
  <1> QED
    BY <1>0, <1>1, <1>2, <1>3, <1>5, <1>6, ProcServices

LEMMA ProcCalls ==
  ASSUME GrantInv,
         \/ \E c \in conns : InvokeService(c) \/ Disconnect(c)
         \/ \E c \in invokes : InvokeEnds(c)
  PROVE  GrantInv'
  <1>0. /\ UNCHANGED <<server, client, listed, upcoming, answers, revocations, overtaken, missed, up, workers, spawning, peak,
                       connSeq, registry>>
        /\ conns' \subseteq conns
    BY DEF InvokeService, Disconnect, InvokeEnds, netVars, objectVars, workerVars
  <1>1. ServicesGranted'
    BY Zenon, <1>0 DEF GrantInv, ServicesGranted
  <1>2. ConnectionsOwned' /\ IsFiniteSet(conns') /\ conns' \subseteq ConnRecs
    BY <1>0, StillOwned DEF GrantInv, ConnectionsOwned
  <1> QED
    BY <1>0, <1>1, <1>2, ProcServices DEF GrantInv, GrantTyped

LEMMA LargerOfTwo ==
  ASSUME NEW m \in Nat, NEW n \in Nat
  PROVE  Max({m, n}) \in Nat /\ Max({m, n}) >= m /\ Max({m, n}) >= n
  <1>1. \E x \in {m, n} : \A y \in {m, n} : x >= y
    OBVIOUS
  <1>2. Max({m, n}) \in {m, n} /\ \A y \in {m, n} : Max({m, n}) >= y
    BY <1>1 DEF Max
  <1> QED
    BY <1>2

LEMMA ProcWorkers ==
  ASSUME GrantInv, NEW p \in GPlugins, Spawn(p) \/ SpawnEnds(p) \/ WorkerGone(p)
  PROVE  GrantInv'
  <1>0. UNCHANGED <<server, client, listed, upcoming, answers, revocations, overtaken, missed, up, registry, conns, connSeq>>
    BY DEF Spawn, SpawnEnds, WorkerGone, netVars, objectVars, brokerVars
  <1>1. /\ workers \in [GPlugins -> Nat] /\ spawning \in [GPlugins -> Nat]
        /\ peak \in [GPlugins -> Nat] /\ MaxWorkers \in Nat
    BY GrantAssumption DEF GrantInv, GrantTyped
  <1>2. /\ workers' \in [GPlugins -> Nat] /\ spawning' \in [GPlugins -> Nat]
        /\ peak' \in [GPlugins -> Nat]
        /\ \A q \in GPlugins \ {p} : workers'[q] = workers[q] /\ spawning'[q] = spawning[q]
                                     /\ peak'[q] = peak[q]
        /\ \/ /\ workers'[p] + spawning'[p] <= workers[p] + spawning[p] /\ peak'[p] = peak[p]
           \/ /\ workers'[p] = workers[p] /\ workers[p] < MaxWorkers /\ spawning'[p] <= peak'[p]
    <2>1. CASE Spawn(p)
      <3> DEFINE n == spawning[p] + 1
                 m == Max({peak[p], n})
      <3>1. n \in Nat /\ m \in Nat /\ n <= m
        BY <1>1, LargerOfTwo
      <3>2. /\ spawning' = [spawning EXCEPT ![p] = n] /\ peak' = [peak EXCEPT ![p] = m]
            /\ workers' = workers /\ workers[p] < MaxWorkers
        BY <2>1 DEF Spawn, WithinQuota
      <3> HIDE DEF n, m
      <3> QED
        BY <1>1, <3>1, <3>2
    <2>2. CASE SpawnEnds(p)
      <3>1. PICK done \in {0, 1} : workers' = [workers EXCEPT ![p] = @ + done]
        BY <2>2 DEF SpawnEnds
      <3>2. /\ spawning' = [spawning EXCEPT ![p] = @ - 1] /\ peak' = peak /\ spawning[p] > 0
        BY <2>2 DEF SpawnEnds
      <3> QED
        BY <1>1, <3>1, <3>2
    <2>3. CASE WorkerGone(p)
      BY <2>3, <1>1 DEF WorkerGone
    <2> QED
      BY <2>1, <2>2, <2>3
  <1>3. SpawnsCounted'
    <2> SUFFICES ASSUME NEW q \in GPlugins, workers'[q] + spawning'[q] > 0
                 PROVE  workers'[q] + spawning'[q] < MaxWorkers + peak'[q]
      BY DEF SpawnsCounted
    <2>1. workers[q] + spawning[q] > 0 => workers[q] + spawning[q] < MaxWorkers + peak[q]
      BY DEF GrantInv, SpawnsCounted
    <2>2. /\ workers[q] \in Nat /\ spawning[q] \in Nat /\ peak[q] \in Nat
          /\ workers'[q] \in Nat /\ spawning'[q] \in Nat /\ peak'[q] \in Nat
      BY <1>1, <1>2
    <2>3. CASE q # p
      BY <2>1, <2>3, <1>2
    <2>4. CASE q = p
      <3>1. CASE workers'[p] + spawning'[p] <= workers[p] + spawning[p] /\ peak'[p] = peak[p]
        BY <2>1, <2>2, <2>4, <3>1, <1>1
      <3>2. CASE workers'[p] = workers[p] /\ workers[p] < MaxWorkers /\ spawning'[p] <= peak'[p]
        BY <2>2, <2>4, <3>2, <1>1
      <3> QED
        BY <3>1, <3>2, <1>2
    <2> QED
      BY <2>3, <2>4
  <1>4. GrantTyped' /\ ObjectsBacked'
    BY <1>0, <1>2 DEF GrantInv, GrantTyped, ObjectsBacked, Objects, Backed
  <1>5. ServicesGranted'
    BY Zenon, <1>0 DEF GrantInv, ServicesGranted
  <1>6. ConnectionsOwned'
    BY <1>0 DEF GrantInv, ConnectionsOwned, HeldBy
  <1> QED
    BY <1>3, <1>4, <1>5, <1>6 DEF GrantInv

LEMMA NextGrants == GrantInv /\ [GrantNext]_grantVars => GrantInv'
  <1> SUFFICES ASSUME GrantInv, [GrantNext]_grantVars PROVE GrantInv'
    OBVIOUS
  <1>1. CASE UNCHANGED grantVars
    BY <1>1 DEF grantVars, netVars, objectVars, GrantInv, GrantTyped, ObjectsBacked, Objects, Backed,
                SpawnsCounted, ServicesGranted,
                ConnectionsOwned, ClientFollowsServer, HeldBy
  <1> QED
    BY <1>1, ProcListPlugins, ProcMount, ProcFramesGo, ProcBeginUpdate, ProcConsents,
        ProcRevocationArrives, ProcProvides,
       ProcConnect, ProcCalls, ProcWorkers DEF GrantNext

(* Services, connections, the client's copy of the grants and the worker   *)
(* quota depend on the grants, in any order of consents, revocations,      *)
(* mounts, removals and spawns, for any plugins, capabilities and limits.  *)
THEOREM GrantsDoGovern == GrantSpec => []GrantsGovern
  <1>1. GrantInv => GrantsGovern
    <2> SUFFICES ASSUME GrantInv PROVE WorkerQuota
      BY DEF GrantInv, GrantsGovern, ObjectsBacked, Objects, Backed, ClientFollowsServer
    <2> SUFFICES ASSUME NEW p \in GPlugins, workers[p] > 0
                 PROVE  workers[p] < MaxWorkers + peak[p]
      BY DEF WorkerQuota
    <2>1. workers[p] \in Nat /\ spawning[p] \in Nat /\ peak[p] \in Nat /\ MaxWorkers \in Nat
      BY GrantAssumption DEF GrantInv, GrantTyped
    <2>2. workers[p] + spawning[p] > 0 => workers[p] + spawning[p] < MaxWorkers + peak[p]
      BY DEF GrantInv, SpawnsCounted
    <2> QED
      BY <2>1, <2>2
  <1>2. GrantInv /\ [GrantNext]_grantVars => GrantInv'
    BY NextGrants
  <1> QED
    BY InitGrants, <1>1, <1>2, PTL DEF GrantSpec

-----------------------------------------------------------------------------
(* Frames.                                                                 *)

FrameRecs == [id : Nat, version : 1 .. MaxVersion, session : {"none", "live"}, loaded : BOOLEAN,
              removing : BOOLEAN, next : Versions, hung : BOOLEAN]
FrameRefs == [plugin : FPlugins, id : Nat]

FrameTyped ==
    /\ wanted \in [FPlugins -> Versions]
    /\ frames \in [FPlugins -> FrameRecs \cup {NoFrame}] /\ frameSeq \in Nat
    /\ left \in [FPlugins -> SUBSET Kinds]
    /\ deferred \subseteq FrameRefs /\ probes \subseteq FrameRefs
    /\ counted \in Seq(Nat)

\* Frames have ids of their own, that no counted crash has.
IdsDistinct ==
    /\ \A p \in FPlugins : Mounted(p) => frames[p].id <= frameSeq
    /\ \A p, q \in FPlugins : Mounted(p) /\ Mounted(q) /\ frames[p].id = frames[q].id => p = q
    /\ \A i \in DOMAIN counted : /\ counted[i] <= frameSeq
                                 /\ \A p \in FPlugins : Mounted(p) => frames[p].id # counted[i]

\* What a frame is replaced by: nothing unless its removal was started, and then,
\* if the list did not change since, what the list wants.
Replacements ==
    \A p \in FPlugins : Mounted(p) =>
      /\ ~frames[p].removing => frames[p].next = 0
      /\ p \notin raced => IF frames[p].removing THEN frames[p].next = wanted[p] ELSE wanted[p] # 0

FramesInv == FrameTyped /\ IdsDistinct /\ Replacements /\ NothingLeftBehind /\ CrashCountedOnce

LEMMA FrameIs ==
  /\ NoFrame \notin FrameRecs /\ 0 \in Versions
  /\ \A id \in Nat, v \in Versions \ {0} :
       /\ NewFrame(id, v) \in FrameRecs /\ NewFrame(id, v) # NoFrame
       /\ NewFrame(id, v).id = id /\ NewFrame(id, v).version = v
       /\ NewFrame(id, v).next = 0 /\ NewFrame(id, v).removing = FALSE
  <1>1. NoFrame \notin FrameRecs /\ 0 \in Versions
    BY FrameAssumption DEF FrameRecs, Versions
  <1>2. ASSUME NEW id \in Nat, NEW v \in Versions \ {0}
        PROVE  /\ NewFrame(id, v) \in FrameRecs /\ NewFrame(id, v) # NoFrame
               /\ NewFrame(id, v).id = id /\ NewFrame(id, v).version = v
               /\ NewFrame(id, v).next = 0 /\ NewFrame(id, v).removing = FALSE
    <2>1. v \in 1 .. MaxVersion
      BY FrameAssumption DEF Versions
    <2>2. NewFrame(id, v) \in FrameRecs
      <3> DEFINE no == FALSE
      <3>1. no \in BOOLEAN /\ 0 \in Versions /\ 0 \in Nat
        BY <1>1
      <3>2. NewFrame(id, v) = [id |-> id, version |-> v, session |-> "none", loaded |-> no,
                               removing |-> no, next |-> 0, hung |-> no]
        BY DEF NewFrame
      <3> HIDE DEF no
      <3> QED
        BY <2>1, <3>1, <3>2 DEF FrameRecs
    <2>3. NewFrame(id, v) # NoFrame
      BY <1>1, <2>2
    <2> QED
      BY <2>2, <2>3 DEF NewFrame
  <1> QED
    BY <1>1, <1>2

LEMMA InitFrames == FrameInit => FramesInv
  <1> SUFFICES ASSUME FrameInit PROVE FramesInv
    OBVIOUS
  <1>1. \A p \in FPlugins : ~Mounted(p) /\ left[p] = {}
    BY DEF FrameInit, Mounted
  <1>2. counted = <<>> /\ DOMAIN counted = {} /\ counted \in Seq(Nat)
    BY DEF FrameInit
  <1>3. FrameTyped
    BY <1>2, FrameIs DEF FrameInit, FrameTyped
  <1> QED
    BY <1>1, <1>2, <1>3
    DEF FramesInv, IdsDistinct, Replacements, NothingLeftBehind, CrashCountedOnce

\* Steps that replace no frame: its id and what it is replaced by stay.
SameFrames ==
    \A p \in FPlugins :
      /\ Mounted(p)' <=> Mounted(p)
      /\ Mounted(p) => /\ frames'[p].id = frames[p].id /\ frames'[p].next = frames[p].next
                       /\ frames'[p].removing = frames[p].removing

LEMMA FramesStay ==
  ASSUME FramesInv, SameFrames, FrameTyped', UNCHANGED <<wanted, frameSeq, counted, raced>>,
         \A p \in FPlugins : ~Mounted(p) => left'[p] = {}
  PROVE  FramesInv'
  <1>1. IdsDistinct' /\ CrashCountedOnce'
    BY DEF FramesInv, SameFrames, IdsDistinct, CrashCountedOnce
  <1>2. Replacements'
    BY DEF FramesInv, SameFrames, Replacements
  <1>3. NothingLeftBehind'
    BY DEF SameFrames, NothingLeftBehind, Mounted
  <1> QED
    BY <1>1, <1>2, <1>3 DEF FramesInv

LEMMA FramesAsThey ==
  ASSUME FramesInv, frames' = frames, FrameTyped', UNCHANGED <<wanted, frameSeq, counted, raced>>,
         \A p \in FPlugins : ~Mounted(p) => left'[p] = {}
  PROVE  FramesInv'
  <1>1. SameFrames
    BY DEF SameFrames, Mounted
  <1> QED
    BY <1>1, FramesStay

LEMMA LeftNothing == FramesInv => \A p \in FPlugins : ~Mounted(p) => left[p] = {}
  BY DEF FramesInv, NothingLeftBehind, Mounted

\* One field of a frame changes that none of this depends on.
LEMMA ProcSetFrame ==
  ASSUME FramesInv, NEW p \in FPlugins, Mounted(p), NEW f \in FrameRecs, SetFrame(p, f),
         f.id = frames[p].id, f.next = frames[p].next, f.removing = frames[p].removing
  PROVE  FramesInv'
  <1>1. /\ frames \in [FPlugins -> FrameRecs \cup {NoFrame}]
        /\ frames' = [frames EXCEPT ![p] = f]
        /\ UNCHANGED <<wanted, frameSeq, deferred, probes, left, counted, raced>>
    BY DEF FramesInv, FrameTyped, SetFrame
  <1>2. FrameTyped'
    BY <1>1 DEF FramesInv, FrameTyped
  <1>3. SameFrames
    BY <1>1, FrameIs DEF SameFrames, Mounted
  <1> QED
    BY <1>1, <1>2, <1>3, FramesStay, LeftNothing

LEMMA MountedIs ==
  ASSUME FramesInv, NEW p \in FPlugins, Mounted(p)
  PROVE  frames[p] \in FrameRecs
  BY DEF FramesInv, FrameTyped, Mounted

LEMMA ProcFrameLoads ==
  ASSUME FramesInv, NEW p \in FPlugins, FrameLoads(p) \/ SandboxFails(p)
  PROVE  FramesInv'
  <1>1. Mounted(p) /\ frames[p] \in FrameRecs
    BY MountedIs DEF FrameLoads, SandboxFails
  <1>2. CASE FrameLoads(p)
    <2> DEFINE yes == TRUE
    <2>1. PICK s \in {"none", "live"} : SetFrame(p, [frames[p] EXCEPT !.loaded = yes, !.session = s])
      BY <1>2 DEF FrameLoads
    <2> DEFINE f == [frames[p] EXCEPT !.loaded = yes, !.session = s]
    <2>2. yes \in BOOLEAN
      OBVIOUS
    <2> HIDE DEF yes
    <2>3. f \in FrameRecs /\ f.id = frames[p].id /\ f.next = frames[p].next
          /\ f.removing = frames[p].removing
      BY <1>1, <2>2 DEF FrameRecs
    <2> HIDE DEF f
    <2> QED
      BY <1>1, <2>1, <2>3, ProcSetFrame DEF f
  <1>3. CASE SandboxFails(p)
    <2> DEFINE yes == TRUE
               f == [frames[p] EXCEPT !.hung = yes]
    <2>1. SetFrame(p, f) /\ yes \in BOOLEAN
      BY <1>3 DEF SandboxFails
    <2> HIDE DEF yes
    <2>2. f \in FrameRecs /\ f.id = frames[p].id /\ f.next = frames[p].next
          /\ f.removing = frames[p].removing
      BY <1>1, <2>1 DEF FrameRecs
    <2> HIDE DEF f
    <2> QED
      BY <1>1, <2>1, <2>2, ProcSetFrame
  <1> QED
    BY <1>2, <1>3

\* What a plugin leaves, what a document drops, pings, hooks and forgotten crashes.
LEMMA ProcLeaves ==
  ASSUME FramesInv, NEW p \in FPlugins,
         \/ HookStarts(p) \/ Probe(p) \/ ResetFrameSession(p) \/ CrashesForgotten(p)
         \/ \E kind \in Kinds : Leave(p, kind) \/ Settle(p, kind)
  PROVE  FramesInv'
  <1>0. /\ left \in [FPlugins -> SUBSET Kinds] /\ probes \subseteq FrameRefs
    BY DEF FramesInv, FrameTyped
  <1>1. UNCHANGED <<wanted, frames, frameSeq, deferred, counted, raced>>
    BY DEF HookStarts, Probe, ResetFrameSession, CrashesForgotten, Leave, Settle
  <1>2. /\ left' \in [FPlugins -> SUBSET Kinds]
        /\ \A q \in FPlugins : ~Mounted(q) => left'[q] \subseteq left[q]
    <2>1. CASE left' = left
      BY <1>0, <2>1
    <2>2. CASE ResetFrameSession(p)
      BY <1>0, <2>2 DEF ResetFrameSession
    <2>3. ASSUME NEW kind \in Kinds, Leave(p, kind)
          PROVE  /\ left' \in [FPlugins -> SUBSET Kinds]
                 /\ \A q \in FPlugins : ~Mounted(q) => left'[q] \subseteq left[q]
      BY <1>0, <2>3 DEF Leave
    <2>4. ASSUME NEW kind \in Kinds, Settle(p, kind)
          PROVE  /\ left' \in [FPlugins -> SUBSET Kinds]
                 /\ \A q \in FPlugins : ~Mounted(q) => left'[q] \subseteq left[q]
      BY <1>0, <2>4 DEF Settle
    <2> QED
      BY <2>1, <2>2, <2>3, <2>4 DEF HookStarts, Probe, CrashesForgotten
  <1>3. probes' \subseteq FrameRefs
    <2>1. CASE Probe(p)
      <3>1. Mounted(p)
        BY <2>1 DEF Probe, Live
      <3>2. frames[p].id \in Nat
        BY <3>1, MountedIs DEF FrameRecs
      <3> QED
        BY <1>0, <2>1, <3>2 DEF Probe, FrameRefs
    <2>2. CASE ~Probe(p)
      BY <1>0, <2>2 DEF HookStarts, ResetFrameSession, CrashesForgotten, Leave, Settle
    <2> QED
      BY <2>1, <2>2
  <1>4. FrameTyped'
    BY <1>1, <1>2, <1>3 DEF FramesInv, FrameTyped
  <1>5. \A q \in FPlugins : ~Mounted(q) => left'[q] = {}
    BY <1>2, LeftNothing
  <1> QED
    BY <1>1, <1>4, <1>5, FramesAsThey

\* A frame goes, or is replaced.
LEMMA FinalizedKeeps ==
  ASSUME FramesInv, NEW p \in FPlugins, Mounted(p), NEW version \in Versions,
         Finalized(p, version), UNCHANGED <<wanted, raced>>,
         deferred' \subseteq FrameRefs, probes' \subseteq FrameRefs,
         p \notin raced /\ version # 0 => wanted[p] # 0,
         counted' = counted \/ counted' = Append(counted, frames[p].id)
  PROVE  FramesInv'
  <1> DEFINE new == NewFrame(frameSeq + 1, version)
  <1>0. /\ frames \in [FPlugins -> FrameRecs \cup {NoFrame}] /\ frameSeq \in Nat
        /\ left \in [FPlugins -> SUBSET Kinds] /\ counted \in Seq(Nat)
        /\ frames[p] \in FrameRecs /\ frames[p].id \in Nat /\ frames[p].id <= frameSeq
        /\ \A q \in FPlugins : Mounted(q) => frames[q] \in FrameRecs /\ frames[q].id \in Nat
    <2>1. \A q \in FPlugins : Mounted(q) => frames[q] \in FrameRecs /\ frames[q].id \in Nat
      BY MountedIs DEF FrameRecs
    <2> QED
      BY <2>1 DEF FramesInv, FrameTyped, IdsDistinct
  <1>1. /\ left' = [left EXCEPT ![p] = {}]
        /\ \/ version = 0 /\ frames' = [frames EXCEPT ![p] = NoFrame] /\ frameSeq' = frameSeq
           \/ version # 0 /\ frames' = [frames EXCEPT ![p] = new] /\ frameSeq' = frameSeq + 1
    BY DEF Finalized
  <1>2. version # 0 => /\ new \in FrameRecs /\ new # NoFrame /\ new.id = frameSeq + 1
                       /\ new.next = 0 /\ new.removing = FALSE
    BY <1>0, FrameIs
  <1> HIDE DEF new
  <1>3. /\ frames' \in [FPlugins -> FrameRecs \cup {NoFrame}] /\ frameSeq' \in Nat
        /\ frameSeq <= frameSeq'
        /\ \A q \in FPlugins \ {p} : frames'[q] = frames[q] /\ left'[q] = left[q]
        /\ left'[p] = {} /\ left' \in [FPlugins -> SUBSET Kinds]
        /\ Mounted(p)' => /\ version # 0 /\ frames'[p] = new /\ frameSeq' = frameSeq + 1
    BY <1>0, <1>1, <1>2, FrameIs DEF Mounted
  <1>4. \A q \in FPlugins \ {p} : Mounted(q)' <=> Mounted(q)
    BY <1>3 DEF Mounted
  <1>5. FrameTyped'
    <2>1. counted' \in Seq(Nat)
      <3> DEFINE e == frames[p].id
      <3>1. counted \in Seq(Nat) /\ e \in Nat /\ (counted' = counted \/ counted' = Append(counted, e))
        BY <1>0
      <3> HIDE DEF e
      <3> QED
        BY <3>1
    <2> QED
      BY <1>3, <2>1 DEF FramesInv, FrameTyped
  <1>6. /\ \A q \in FPlugins : Mounted(q)' => frames'[q].id <= frameSeq'
        /\ \A q \in FPlugins \ {p} : Mounted(q)' => frames'[q].id <= frameSeq /\ frames'[q].id \in Nat
    BY <1>0, <1>2, <1>3, <1>4 DEF FramesInv, IdsDistinct
  <1>7. \A q, r \in FPlugins : Mounted(q)' /\ Mounted(r)' /\ frames'[q].id = frames'[r].id => q = r
    <2> SUFFICES ASSUME NEW q \in FPlugins, NEW r \in FPlugins, Mounted(q)', Mounted(r)',
                        frames'[q].id = frames'[r].id
                 PROVE  q = r
      OBVIOUS
    <2>1. CASE q # p /\ r # p
      BY <1>3, <1>4, <2>1 DEF FramesInv, IdsDistinct
    <2>2. CASE q = p /\ r # p
      BY <1>0, <1>2, <1>3, <1>6, <2>2
    <2>3. CASE q # p /\ r = p
      BY <1>0, <1>2, <1>3, <1>6, <2>3
    <2> QED
      BY <2>1, <2>2, <2>3
  <1>8. /\ \A i \in DOMAIN counted' : \/ i \in DOMAIN counted /\ counted'[i] = counted[i]
                                      \/ i = Len(counted) + 1 /\ counted'[i] = frames[p].id
        /\ Len(counted) + 1 \notin DOMAIN counted
    <2> DEFINE e == frames[p].id
    <2>1. counted \in Seq(Nat) /\ e \in Nat /\ (counted' = counted \/ counted' = Append(counted, e))
      BY <1>0
    <2> HIDE DEF e
    <2>2. CASE counted' = counted
      BY <2>1, <2>2
    <2>3. CASE counted' = Append(counted, e)
      BY <2>1, <2>3
    <2>4. \A i \in DOMAIN counted' : \/ i \in DOMAIN counted /\ counted'[i] = counted[i]
                                     \/ i = Len(counted) + 1 /\ counted'[i] = e
      BY <2>2, <2>3, <2>1
    <2> QED
      BY <2>1, <2>4 DEF e
  <1>9. \A i \in DOMAIN counted : /\ counted[i] \in Nat /\ counted[i] <= frameSeq
                                  /\ \A q \in FPlugins : Mounted(q) => frames[q].id # counted[i]
    BY <1>0 DEF FramesInv, IdsDistinct
  <1>10. ASSUME NEW i \in DOMAIN counted'
         PROVE  /\ counted'[i] <= frameSeq'
                /\ \A q \in FPlugins : Mounted(q)' => frames'[q].id # counted'[i]
    <2>1. counted'[i] \in Nat /\ counted'[i] <= frameSeq
      BY <1>0, <1>8, <1>9
    <2>2. ASSUME NEW q \in FPlugins, Mounted(q)' PROVE frames'[q].id # counted'[i]
      <3>1. CASE q = p
        BY <1>0, <1>2, <1>3, <2>1, <2>2, <3>1
      <3>2. CASE q # p
        <4>1. Mounted(q) /\ frames'[q].id = frames[q].id
          BY <1>3, <1>4, <2>2, <3>2
        <4>2. frames[q].id # frames[p].id
          BY <3>2, <4>1 DEF FramesInv, IdsDistinct
        <4> QED
          BY <1>8, <1>9, <4>1, <4>2
      <3> QED
        BY <3>1, <3>2
    <2> QED
      BY <1>0, <1>3, <2>1, <2>2
  <1>11. CrashCountedOnce'
    <2> SUFFICES ASSUME NEW i \in DOMAIN counted', NEW j \in DOMAIN counted',
                        counted'[i] = counted'[j]
                 PROVE  i = j
      BY DEF CrashCountedOnce
    <2>1. \A k \in DOMAIN counted : counted[k] # frames[p].id
      BY <1>9
    <2> QED
      BY <1>8, <2>1 DEF FramesInv, CrashCountedOnce
  <1>12. Replacements'
    BY <1>2, <1>3, <1>4 DEF FramesInv, Replacements
  <1>13. NothingLeftBehind'
    BY <1>3 DEF FramesInv, NothingLeftBehind
  <1>14. IdsDistinct'
    BY <1>6, <1>7, <1>10 DEF IdsDistinct
  <1> QED
    BY <1>5, <1>11, <1>12, <1>13, <1>14 DEF FramesInv

LEMMA NextIs ==
  ASSUME FramesInv, NEW p \in FPlugins, Mounted(p)
  PROVE  /\ frames[p].next \in Versions /\ frames[p].id \in Nat
         /\ frames[p].version \in Versions
         /\ p \notin raced /\ frames[p].next # 0 => wanted[p] # 0
         /\ p \notin raced /\ ~frames[p].removing => wanted[p] # 0
  <1>1. frames[p] \in FrameRecs
    BY MountedIs
  <1>2. /\ frames[p].next \in Versions /\ frames[p].id \in Nat
        /\ frames[p].version \in Versions
    BY <1>1, FrameAssumption DEF FrameRecs, Versions
  <1> QED
    BY <1>2 DEF FramesInv, Replacements

LEMMA ProcRemoval ==
  ASSUME FramesInv, NEW p \in FPlugins, RemovalDue(p) \/ PluginError(p)
  PROVE  FramesInv'
  <1>1. /\ Mounted(p) /\ FinalizeFrameRemoval(p)
        /\ UNCHANGED <<wanted, probes, counted, raced>>
    BY DEF RemovalDue, PluginError
  <1>2. deferred \subseteq FrameRefs /\ probes' \subseteq FrameRefs
    BY <1>1 DEF FramesInv, FrameTyped
  <1>3. CASE hooks[p] # "none"
    <2>1. /\ deferred' = deferred \cup {[plugin |-> p, id |-> frames[p].id]}
          /\ UNCHANGED <<frames, frameSeq, left>>
      BY <1>1, <1>3 DEF FinalizeFrameRemoval
    <2>2. [plugin |-> p, id |-> frames[p].id] \in FrameRefs
      BY <1>1, NextIs DEF FrameRefs
    <2>3. FrameTyped'
      BY <1>1, <1>2, <2>1, <2>2 DEF FramesInv, FrameTyped
    <2> QED
      BY <1>1, <2>1, <2>3, FramesAsThey, LeftNothing
  <1>4. CASE ~(hooks[p] # "none")
    <2>1. Finalized(p, frames[p].next) /\ deferred' = deferred
      BY <1>1, <1>4 DEF FinalizeFrameRemoval
    <2> DEFINE v == frames[p].next
    <2>2. v \in Versions /\ (p \notin raced /\ v # 0 => wanted[p] # 0) /\ Finalized(p, v)
      BY <1>1, <2>1, NextIs
    <2> HIDE DEF v
    <2> QED
      BY <1>1, <1>2, <2>1, <2>2, FinalizedKeeps
  <1> QED
    BY <1>3, <1>4

LEMMA ProcDeferred ==
  ASSUME FramesInv, NEW d \in deferred, DeferredRemoval(d)
  PROVE  FramesInv'
  <1>1. /\ d.plugin \in FPlugins /\ deferred' \subseteq FrameRefs /\ probes' \subseteq FrameRefs
        /\ UNCHANGED <<wanted, probes, counted, raced>>
    BY DEF DeferredRemoval, FramesInv, FrameTyped, FrameRefs
  <1>2. CASE Mounted(d.plugin) /\ frames[d.plugin].id = d.id
    <2> DEFINE p == d.plugin
               v == frames[p].next
    <2>1. Finalized(p, v) /\ p \in FPlugins /\ Mounted(p)
      BY <1>1, <1>2 DEF DeferredRemoval
    <2>2. v \in Versions /\ (p \notin raced /\ v # 0 => wanted[p] # 0)
      BY <2>1, NextIs
    <2> HIDE DEF p, v
    <2> QED
      BY <1>1, <2>1, <2>2, FinalizedKeeps
  <1>3. CASE ~(Mounted(d.plugin) /\ frames[d.plugin].id = d.id)
    <2>1. UNCHANGED <<frames, frameSeq, left>>
      BY <1>3 DEF DeferredRemoval
    <2>2. FrameTyped'
      BY <1>1, <2>1 DEF FramesInv, FrameTyped
    <2> QED
      BY <1>1, <2>1, <2>2, FramesAsThey, LeftNothing
  <1> QED
    BY <1>2, <1>3

LEMMA ProcCrash ==
  ASSUME FramesInv, NEW p \in FPlugins, NEW id, HandleFrameCrash(p, id),
         UNCHANGED <<wanted, deferred, raced>>, probes' \subseteq FrameRefs
  PROVE  FramesInv'
  <1>1. deferred' \subseteq FrameRefs
    BY DEF FramesInv, FrameTyped
  <1>2. CASE CrashApplies(p, id)
    <2> DEFINE v == Budget(p)
    <2>1. /\ Mounted(p) /\ frames[p].id = id /\ ~frames[p].removing
          /\ counted' = Append(counted, frames[p].id) /\ Finalized(p, v)
      BY <1>2 DEF HandleFrameCrash, CrashApplies, Live
    <2>2. v \in Versions /\ (p \notin raced => wanted[p] # 0)
      BY <2>1, NextIs, FrameIs DEF Budget
    <2> HIDE DEF v
    <2> QED
      BY <1>1, <2>1, <2>2, FinalizedKeeps
  <1>3. CASE ~CrashApplies(p, id)
    <2>1. UNCHANGED <<counted, frames, frameSeq, left>>
      BY <1>3 DEF HandleFrameCrash
    <2>2. FrameTyped'
      BY <1>1, <2>1 DEF FramesInv, FrameTyped
    <2> QED
      BY <2>1, <2>2, FramesAsThey, LeftNothing
  <1> QED
    BY <1>2, <1>3

LEMMA ProcProbeEnds ==
  ASSUME FramesInv, NEW d \in probes, ProbeEnds(d)
  PROVE  FramesInv'
  <1>1. /\ d.plugin \in FPlugins /\ deferred' \subseteq FrameRefs /\ probes' \subseteq FrameRefs
        /\ UNCHANGED <<wanted, deferred, raced>>
    BY DEF ProbeEnds, FramesInv, FrameTyped, FrameRefs
  <1>2. CASE Answers(d)
    <2>1. UNCHANGED <<counted, frames, frameSeq, left>>
      BY <1>2 DEF ProbeEnds
    <2>2. FrameTyped'
      BY <1>1, <2>1 DEF FramesInv, FrameTyped
    <2> QED
      BY <1>1, <2>1, <2>2, FramesAsThey, LeftNothing
  <1>3. CASE ~Answers(d)
    <2> DEFINE p == d.plugin
               id == d.id
    <2>1. HandleFrameCrash(p, id) /\ p \in FPlugins
      BY <1>1, <1>3 DEF ProbeEnds
    <2> HIDE DEF p, id
    <2> QED
      BY <1>1, <2>1, ProcCrash
  <1> QED
    BY <1>2, <1>3

LEMMA ProcPeerCloses ==
  ASSUME FramesInv, NEW p \in FPlugins, PeerCloses(p)
  PROVE  FramesInv'
  <1> DEFINE id == frames[p].id
  <1>1. /\ HandleFrameCrash(p, id) /\ UNCHANGED <<wanted, deferred, raced>>
        /\ probes' \subseteq FrameRefs
    BY DEF PeerCloses, FramesInv, FrameTyped
  <1> HIDE DEF id
  <1> QED
    BY <1>1, ProcCrash

\* A new plugin list: plugins without a frame get one, outdated frames are removed.
LEMMA ProcSync ==
  ASSUME FramesInv, NEW list \in [FPlugins -> Versions], Sync(list)
  PROVE  FramesInv'
  <1> DEFINE missing == {p \in FPlugins : ~Mounted(p) /\ list[p] # 0}
             yes == TRUE
             Going(p) == Outdated(p, list) /\ ~frames[p].removing
             Leaving(p) == [frames[p] EXCEPT !.removing = yes, !.next = list[p]]
             Fresh(p) == NewFrame(frameSeq + 1, list[p])
  <1>1. /\ Cardinality(missing) <= 1 /\ frameSeq' = frameSeq + Cardinality(missing)
        /\ frames' = [p \in FPlugins |-> IF p \in missing THEN Fresh(p)
                                        ELSE IF Going(p) THEN Leaving(p) ELSE frames[p]]
        /\ wanted' = list /\ UNCHANGED <<left, deferred, probes, counted>>
        /\ raced' = raced \cup {p \in FPlugins : Mounted(p) /\ (Mounted(p) => frames[p].removing)}
    BY DEF Sync
  <1>2. /\ frames \in [FPlugins -> FrameRecs \cup {NoFrame}] /\ frameSeq \in Nat
        /\ counted \in Seq(Nat)
    BY DEF FramesInv, FrameTyped
  <1>3. /\ Cardinality(missing) \in Nat
        /\ \A p, q \in missing : p = q
        /\ missing # {} => Cardinality(missing) = 1
    <2>1. IsFiniteSet(missing) /\ missing \subseteq FPlugins
      BY FrameAssumption, FS_Subset
    <2>2. Cardinality(missing) \in Nat /\ (missing # {} => Cardinality(missing) # 0)
      BY <2>1, FS_CardinalityType, FS_EmptySet
    <2>3. Cardinality(missing) = 0 \/ Cardinality(missing) = 1
      <3> DEFINE n == Cardinality(missing)
      <3>1. n \in Nat /\ n <= 1
        BY <1>1, <2>2
      <3> HIDE DEF n
      <3>2. n = 0 \/ n = 1
        BY <3>1
      <3> QED
        BY <3>2 DEF n
    <2>4. CASE Cardinality(missing) = 0
      BY <2>2, <2>4
    <2>5. CASE Cardinality(missing) = 1
      <3>1. PICK m : missing = {m}
        BY <2>1, <2>5, FS_Singleton
      <3> QED
        BY <2>2, <2>5, <3>1
    <2> QED
      BY <2>3, <2>4, <2>5
  <1>4. ASSUME NEW p \in missing
        PROVE  /\ p \in FPlugins /\ ~Mounted(p) /\ list[p] # 0
               /\ frames'[p] = Fresh(p) /\ frameSeq' = frameSeq + 1
               /\ Fresh(p) \in FrameRecs /\ Fresh(p) # NoFrame /\ Fresh(p).id = frameSeq + 1
               /\ Fresh(p).next = 0 /\ Fresh(p).removing = FALSE
    <2>1. p \in FPlugins /\ ~Mounted(p) /\ list[p] # 0 /\ list[p] \in Versions \ {0}
      OBVIOUS
    <2>a. Cardinality(missing) = 1
      BY <1>3
    <2>b. frameSeq' = frameSeq + Cardinality(missing)
      BY <1>1
    <2>2. frameSeq' = frameSeq + 1 /\ frameSeq + 1 \in Nat
      <3> HIDE DEF missing
      <3>1. frameSeq' = frameSeq + 1
        BY <2>a, <2>b
      <3> QED
        BY <1>2, <3>1
    <2>3. frames'[p] = Fresh(p)
      BY <1>1
    <2> QED
      BY <2>1, <2>2, <2>3, FrameIs
  <1>5. ASSUME NEW p \in FPlugins, Going(p)
        PROVE  /\ frames[p] \in FrameRecs /\ Mounted(p)
               /\ frames'[p] = Leaving(p) /\ Leaving(p) \in FrameRecs
               /\ Leaving(p).id = frames[p].id /\ Leaving(p).next = list[p]
               /\ Leaving(p).removing = TRUE
    <2>1. Mounted(p) /\ frames[p] \in FrameRecs /\ list[p] \in Versions
      BY <1>5, MountedIs DEF Outdated
    <2>2. frames'[p] = Leaving(p)
      BY <1>1, <1>5, <2>1
    <2>3. yes \in BOOLEAN
      OBVIOUS
    <2>a. yes = TRUE
      OBVIOUS
    <2> HIDE DEF yes
    <2>4. Leaving(p) \in FrameRecs
      BY <2>1, <2>3 DEF FrameRecs
    <2>5. Leaving(p).id = frames[p].id /\ Leaving(p).next = list[p] /\ Leaving(p).removing = yes
      BY <2>1 DEF FrameRecs
    <2> QED
      BY <2>1, <2>2, <2>4, <2>5, <2>a
  <1>6. ASSUME NEW p \in FPlugins, p \notin missing, ~Going(p) PROVE frames'[p] = frames[p]
    BY <1>1, <1>6
  <1>7. DOMAIN frames' = FPlugins /\ frames' = [p \in FPlugins |-> frames'[p]]
    BY <1>1
  <1> HIDE DEF Going, Leaving, Fresh, yes
  <1>8. \A p \in FPlugins : frames'[p] \in FrameRecs \cup {NoFrame}
    BY <1>2, <1>4, <1>5, <1>6
  <1>9. FrameTyped'
    <2>1. frameSeq' \in Nat
      BY <1>1, <1>2, <1>3
    <2>2. frames' \in [FPlugins -> FrameRecs \cup {NoFrame}]
      BY <1>7, <1>8
    <2> QED
      BY <1>1, <2>1, <2>2 DEF FramesInv, FrameTyped
  <1>10. frameSeq <= frameSeq' /\ \A p \in missing : frames'[p].id > frameSeq /\ frames'[p].id = frameSeq'
    <2>1. frameSeq <= frameSeq'
      <3> DEFINE n == Cardinality(missing)
      <3>1. n \in Nat /\ frameSeq' = frameSeq + n
        BY <1>1, <1>3
      <3> HIDE DEF n
      <3> QED
        BY <1>2, <3>1
    <2>2. ASSUME NEW p \in missing PROVE frames'[p].id > frameSeq /\ frames'[p].id = frameSeq'
      <3>1. frames'[p].id = frameSeq + 1 /\ frameSeq' = frameSeq + 1
        BY <1>4
      <3> QED
        BY <1>2, <3>1
    <2> QED
      BY <2>1, <2>2
  <1>11. ASSUME NEW p \in FPlugins, p \notin missing
         PROVE  /\ Mounted(p)' <=> Mounted(p)
                /\ Mounted(p) => frames'[p].id = frames[p].id
    <2>1. CASE Going(p)
      <3>1. frames'[p] \in FrameRecs /\ Mounted(p) /\ frames'[p].id = frames[p].id
        BY <1>5, <2>1
      <3> QED
        BY <3>1, FrameIs DEF Mounted
    <2>2. CASE ~Going(p)
      BY <1>6, <1>11, <2>2 DEF Mounted
    <2> QED
      BY <2>1, <2>2
  <1>12. \A p \in FPlugins : Mounted(p) => p \notin missing /\ frames[p].id \in Nat
                                          /\ frames[p].id <= frameSeq
    <2>1. \A p \in FPlugins : Mounted(p) => frames[p].id \in Nat
      BY NextIs
    <2> QED
      BY <2>1 DEF FramesInv, IdsDistinct
  <1>13. ASSUME NEW p \in FPlugins, p \notin missing, Mounted(p)'
         PROVE  Mounted(p) /\ frames'[p].id = frames[p].id /\ frames'[p].id <= frameSeq
                /\ frames'[p].id \in Nat
    BY <1>11, <1>12, <1>13
  <1>14. IdsDistinct'
    <2>1. \A p \in FPlugins : Mounted(p)' => frames'[p].id <= frameSeq'
      <3> SUFFICES ASSUME NEW p \in FPlugins, Mounted(p)' PROVE frames'[p].id <= frameSeq'
        OBVIOUS
      <3>1. frameSeq' \in Nat
        BY <1>9 DEF FrameTyped
      <3>2. CASE p \in missing
        BY <1>10, <3>1, <3>2
      <3>3. CASE p \notin missing
        BY <1>2, <1>10, <1>13, <3>1, <3>3
      <3> QED
        BY <3>2, <3>3
    <2>2. ASSUME NEW p \in FPlugins, NEW q \in FPlugins, Mounted(p)', Mounted(q)',
                 frames'[p].id = frames'[q].id
          PROVE  p = q
      <3>1. CASE p \in missing /\ q \in missing
        BY <1>3, <3>1
      <3>2. CASE p \notin missing /\ q \notin missing
        <4>1. /\ Mounted(p) /\ frames'[p].id = frames[p].id
              /\ Mounted(q) /\ frames'[q].id = frames[q].id
          BY <1>13, <2>2, <3>2
        <4> QED
          BY <2>2, <4>1 DEF FramesInv, IdsDistinct
      <3>3. CASE p \in missing /\ q \notin missing
        <4>1. frames'[p].id > frameSeq
          BY <1>10, <3>3
        <4>2. frames'[q].id <= frameSeq /\ frames'[q].id \in Nat
          BY <1>13, <2>2, <3>3
        <4> QED
          BY <1>2, <2>2, <4>1, <4>2
      <3>4. CASE p \notin missing /\ q \in missing
        <4>1. frames'[q].id > frameSeq
          BY <1>10, <3>4
        <4>2. frames'[p].id <= frameSeq /\ frames'[p].id \in Nat
          BY <1>13, <2>2, <3>4
        <4> QED
          BY <1>2, <2>2, <4>1, <4>2
      <3> QED
        BY <3>1, <3>2, <3>3, <3>4
    <2>3. ASSUME NEW i \in DOMAIN counted
          PROVE  /\ counted[i] <= frameSeq'
                 /\ \A p \in FPlugins : Mounted(p)' => frames'[p].id # counted[i]
      <3>1. /\ counted[i] \in Nat /\ counted[i] <= frameSeq /\ frameSeq' \in Nat
            /\ \A p \in FPlugins : Mounted(p) => frames[p].id # counted[i]
        <4>1. counted[i] \in Nat
          BY <1>2
        <4> QED
          BY <4>1, <1>9 DEF FramesInv, IdsDistinct, FrameTyped
      <3>2. ASSUME NEW p \in FPlugins, Mounted(p)' PROVE frames'[p].id # counted[i]
        <4>1. CASE p \in missing
          BY <1>2, <1>10, <3>1, <4>1
        <4>2. CASE p \notin missing
          BY <1>13, <3>1, <3>2, <4>2
        <4> QED
          BY <4>1, <4>2
      <3> QED
        BY <1>2, <1>10, <3>1, <3>2
    <2> QED
      BY <1>1, <2>1, <2>2, <2>3 DEF IdsDistinct
  <1>15. Replacements'
    <2> SUFFICES ASSUME NEW p \in FPlugins, Mounted(p)'
                 PROVE  /\ ~frames'[p].removing => frames'[p].next = 0
                        /\ p \notin raced' => IF frames'[p].removing THEN frames'[p].next = list[p]
                                              ELSE list[p] # 0
      BY <1>1 DEF Replacements
    <2>1. CASE p \in missing
      BY <1>4, <2>1
    <2>2. CASE p \notin missing /\ Going(p)
      BY <1>5, <2>2
    <2>3. CASE p \notin missing /\ ~Going(p)
      <3>1. Mounted(p) /\ frames'[p] = frames[p]
        BY <1>6, <1>13, <2>3
      <3>2. CASE frames[p].removing
        <4>1. p \in raced'
          BY <1>1, <3>1, <3>2
        <4> QED
          BY <3>1, <3>2, <4>1
      <3>3. CASE ~frames[p].removing
        <4>1. frames[p].version = list[p]
          BY <2>3, <3>1, <3>3 DEF Going, Outdated
        <4>2. frames[p].version # 0
          <5>1. frames[p].version \in 1 .. MaxVersion
            BY <3>1, MountedIs DEF FrameRecs
          <5> QED
            BY <5>1, FrameAssumption
        <4>3. frames[p].next = 0
          BY <3>1, <3>3 DEF FramesInv, Replacements
        <4> QED
          BY <3>1, <3>3, <4>1, <4>2, <4>3
      <3> QED
        BY <3>2, <3>3
    <2> QED
      BY <2>1, <2>2, <2>3
  <1>16. NothingLeftBehind'
    <2> SUFFICES ASSUME NEW p \in FPlugins, frames'[p] = NoFrame PROVE left[p] = {}
      BY <1>1 DEF NothingLeftBehind
    <2>1. p \notin missing
      BY <1>4
    <2>2. ~Mounted(p)
      BY <1>11, <2>1 DEF Mounted
    <2> QED
      BY <2>2, LeftNothing
  <1>17. CrashCountedOnce'
    BY <1>1 DEF FramesInv, CrashCountedOnce
  <1> QED
    BY <1>9, <1>14, <1>15, <1>16, <1>17 DEF FramesInv

LEMMA NextFrames == FramesInv /\ [FrameNext]_frameVars => FramesInv'
  <1> SUFFICES ASSUME FramesInv, [FrameNext]_frameVars PROVE FramesInv'
    OBVIOUS
  <1>1. CASE FrameRuns
    BY <1>1, ProcRemoval, ProcFrameLoads, ProcDeferred, ProcProbeEnds DEF FrameRuns
  <1>2. CASE \E list \in [FPlugins -> Versions] : Sync(list)
    BY <1>2, ProcSync
  <1>3. ASSUME NEW p \in FPlugins,
               \/ PluginError(p) \/ SandboxFails(p) \/ HookStarts(p) \/ Probe(p) \/ PeerCloses(p)
               \/ ResetFrameSession(p) \/ CrashesForgotten(p)
               \/ \E kind \in Kinds : Leave(p, kind) \/ Settle(p, kind)
        PROVE  FramesInv'
    BY <1>3, ProcRemoval, ProcFrameLoads, ProcLeaves, ProcPeerCloses
  <1>4. CASE UNCHANGED frameVars
    <2>1. UNCHANGED <<wanted, frames, frameSeq, left, deferred, probes, counted, raced>>
      BY <1>4 DEF frameVars
    <2>2. FrameTyped'
      BY <2>1 DEF FramesInv, FrameTyped
    <2> QED
      BY <2>1, <2>2, FramesAsThey, LeftNothing
  <1> QED
    BY <1>1, <1>2, <1>3, <1>4 DEF FrameNext

LEMMA FramesFollow == FramesInv => FramesSound
  <1> SUFFICES ASSUME FramesInv PROVE DisabledIsGoneUnlessRaced
    BY DEF FramesInv, FramesSound
  <1> QED
    BY DEF FramesInv, Replacements, DisabledIsGoneUnlessRaced, Mounted

\* What is gone is gone whole, a crash of a frame is counted once whichever of a
\* missed ping, a closed port and a reloaded document reports it, and a disabled
\* plugin has no frame but one that is being removed, unless its entry in the list
\* changed during a removal (FrontendPluginRuntime.sync, finalizeFrameRemovalNow
\* and handleFrameCrash): for any number of plugins, versions and list changes.
THEOREM FramesAreSound == FrameSpec => []FramesSound
  <1>1. FrameInit => FramesInv
    BY InitFrames
  <1>2. FramesInv /\ [FrameNext]_frameVars => FramesInv'
    BY NextFrames
  <1>3. FramesInv => FramesSound
    BY FramesFollow
  <1> QED
    BY <1>1, <1>2, <1>3, PTL DEF FrameSpec

\* A frame that goes had its removal started or its sandbox failed.  A removal that
\* waits for a hook is of such a frame, or of one that is not there any more: its id
\* is not given again.
DeferredDue ==
    \A d \in deferred :
      /\ d.id <= frameSeq
      /\ Mounted(d.plugin) /\ frames[d.plugin].id = d.id =>
           frames[d.plugin].removing \/ frames[d.plugin].hung

\* What any step does to the frames: a frame lasts, or was to go, and one that
\* is new has a new id; a removal is deferred only for a frame that is to go.
Lasts(p) ==
    /\ Mounted(p) /\ frames'[p] # NoFrame /\ frames'[p].id = frames[p].id
    /\ frames[p].removing => frames'[p].removing
    /\ frames[p].hung => frames'[p].hung
Advances ==
    /\ frameSeq' \in Nat /\ frameSeq <= frameSeq'
    /\ \A p \in FPlugins : Mounted(p) => Lasts(p) \/ frames[p].removing \/ frames[p].hung
    /\ \A p \in FPlugins : frames'[p] # NoFrame => Lasts(p) \/ frames'[p].id > frameSeq
    /\ \A d \in deferred' \ deferred :
         /\ d.plugin \in FPlugins /\ Mounted(d.plugin)
         /\ d.id = frames[d.plugin].id /\ frames' = frames
         /\ frames[d.plugin].removing \/ frames[d.plugin].hung

LEMMA AllStay ==
  ASSUME FramesInv, UNCHANGED <<frames, frameSeq>>, deferred' \subseteq deferred
  PROVE  Advances
  <1>1. frameSeq \in Nat /\ deferred' \ deferred = {}
    BY DEF FramesInv, FrameTyped
  <1>2. \A p \in FPlugins : Mounted(p) => Lasts(p)
    BY DEF Lasts, Mounted
  <1> QED
    BY <1>1, <1>2 DEF Advances, Mounted

LEMMA OneFails ==
  ASSUME FramesInv, NEW p \in FPlugins, Mounted(p), NEW f \in FrameRecs, SetFrame(p, f),
         f.id = frames[p].id, f.removing = frames[p].removing, frames[p].hung => f.hung
  PROVE  Advances
  <1>1. /\ frames \in [FPlugins -> FrameRecs \cup {NoFrame}] /\ frameSeq \in Nat
        /\ frames' = [frames EXCEPT ![p] = f] /\ UNCHANGED <<frameSeq, deferred>>
    BY DEF FramesInv, FrameTyped, SetFrame
  <1>2. frames'[p] = f /\ f # NoFrame /\ \A q \in FPlugins \ {p} : frames'[q] = frames[q]
    BY <1>1, FrameIs
  <1>3. \A q \in FPlugins : Mounted(q) => Lasts(q)
    BY <1>2 DEF Lasts, Mounted
  <1> QED
    BY <1>1, <1>2, <1>3 DEF Advances, Mounted

LEMMA OneGoes ==
  ASSUME FramesInv, NEW p \in FPlugins, Mounted(p), frames[p].removing \/ frames[p].hung,
         NEW v \in Versions, Finalized(p, v), deferred' \subseteq deferred
  PROVE  Advances
  <1>1. frames \in [FPlugins -> FrameRecs \cup {NoFrame}] /\ frameSeq \in Nat
    BY DEF FramesInv, FrameTyped
  <1>2. \A q \in FPlugins \ {p} : frames'[q] = frames[q]
    BY <1>1 DEF Finalized
  <1>3. /\ frameSeq' \in Nat /\ frameSeq <= frameSeq'
        /\ frames'[p] # NoFrame => frames'[p].id > frameSeq
    <2>1. CASE v = 0
      BY <1>1, <2>1 DEF Finalized
    <2>2. CASE v # 0
      <3>1. frames'[p] = NewFrame(frameSeq + 1, v) /\ frameSeq' = frameSeq + 1
        BY <1>1, <2>2 DEF Finalized
      <3>2. frameSeq + 1 \in Nat /\ frameSeq + 1 > frameSeq
        BY <1>1
      <3>3. NewFrame(frameSeq + 1, v).id = frameSeq + 1
        BY DEF NewFrame
      <3> QED
        BY <1>1, <3>1, <3>2, <3>3
    <2> QED
      BY <2>1, <2>2
  <1>4. \A q \in FPlugins \ {p} : Mounted(q) => Lasts(q)
    BY <1>2 DEF Lasts, Mounted
  <1>5. \A q \in FPlugins : Mounted(q) => Lasts(q) \/ frames[q].removing \/ frames[q].hung
    BY <1>4
  <1>6. \A q \in FPlugins : frames'[q] # NoFrame => Lasts(q) \/ frames'[q].id > frameSeq
    BY <1>2, <1>3, <1>4 DEF Mounted
  <1>7. deferred' \ deferred = {}
    OBVIOUS
  <1> QED
    BY <1>3, <1>5, <1>6, <1>7 DEF Advances

\* A removal is finished, or put off until the hook that was started has ended.
LEMMA OneIsRemoved ==
  ASSUME FramesInv, NEW p \in FPlugins, RemovalDue(p) \/ PluginError(p)
  PROVE  Advances
  <1>1. /\ Mounted(p) /\ (frames[p].removing \/ frames[p].hung)
        /\ FinalizeFrameRemoval(p)
    BY DEF RemovalDue, PluginError
  <1>2. frames[p].next \in Versions /\ frameSeq \in Nat
    BY <1>1, MountedIs DEF FrameRecs, FramesInv, FrameTyped
  <1>3. CASE hooks[p] # "none"
    <2>1. /\ UNCHANGED <<frames, frameSeq>>
          /\ \A d \in deferred' \ deferred : d.plugin = p /\ d.id = frames[p].id
      BY <1>1, <1>3 DEF FinalizeFrameRemoval
    <2>2. \A q \in FPlugins : Mounted(q) => Lasts(q)
      BY <2>1 DEF Lasts, Mounted
    <2> QED
      BY <1>1, <1>2, <2>1, <2>2 DEF Advances, Mounted
  <1>4. CASE hooks[p] = "none"
    <2>1. Finalized(p, frames[p].next) /\ deferred' = deferred
      BY <1>1, <1>4 DEF FinalizeFrameRemoval
    <2> QED
      BY <1>1, <1>2, <2>1, OneGoes
  <1> QED
    BY <1>3, <1>4

\* A deferred removal, which must not take a later frame of the plugin.
LEMMA DeferredGoes ==
  ASSUME FramesInv, DeferredDue, NEW d \in deferred, DeferredRemoval(d)
  PROVE  Advances
  <1>1. d \in FrameRefs /\ d.plugin \in FPlugins /\ deferred' \subseteq deferred
    BY DEF FramesInv, FrameTyped, FrameRefs, DeferredRemoval
  <1>2. CASE Mounted(d.plugin) /\ frames[d.plugin].id = d.id
    <2>1. PICK p \in FPlugins : p = d.plugin
      BY <1>1
    <2>2. /\ Mounted(p) /\ (frames[p].removing \/ frames[p].hung)
          /\ Finalized(p, frames[p].next)
      BY <1>2, <2>1 DEF DeferredDue, DeferredRemoval
    <2>3. frames[p].next \in Versions
      BY <2>2, MountedIs DEF FrameRecs
    <2> QED
      BY <1>1, <2>2, <2>3, OneGoes
  <1>3. CASE ~(Mounted(d.plugin) /\ frames[d.plugin].id = d.id)
    BY <1>1, <1>3, AllStay DEF DeferredRemoval
  <1> QED
    BY <1>2, <1>3

\* A crash: a ping that an earlier frame missed applies to no other.
LEMMA CrashGoes ==
  ASSUME FramesInv, NEW p \in FPlugins, NEW id, HandleFrameCrash(p, id), deferred' = deferred,
         CrashApplies(p, id) => frames[p].hung
  PROVE  Advances
  <1>1. CASE CrashApplies(p, id)
    <2>1. Mounted(p) /\ frames[p].hung /\ Finalized(p, Budget(p))
      BY <1>1 DEF CrashApplies, Live, HandleFrameCrash
    <2>2. Budget(p) \in Versions
      BY <2>1, MountedIs, FrameIs, FrameAssumption DEF Budget, FrameRecs, Versions
    <2> QED
      BY <2>1, <2>2, OneGoes
  <1>2. CASE ~CrashApplies(p, id)
    BY <1>2, AllStay DEF HandleFrameCrash
  <1> QED
    BY <1>1, <1>2

LEMMA SyncAdvances ==
  ASSUME FramesInv, NEW list \in [FPlugins -> Versions], Sync(list)
  PROVE  Advances
  <1> DEFINE missing == {p \in FPlugins : ~Mounted(p) /\ list[p] # 0}
             n == Cardinality(missing)
  <1>1. /\ frames \in [FPlugins -> FrameRecs \cup {NoFrame}] /\ frameSeq \in Nat
        /\ IsFiniteSet(missing)
    BY FrameAssumption, FS_Subset DEF FramesInv, FrameTyped
  <1>2. n \in Nat
    BY <1>1, FS_CardinalityType
  <1>3. frameSeq' = frameSeq + n /\ deferred' = deferred
    BY DEF Sync
  <1> HIDE DEF n
  <1>4. ASSUME NEW p \in FPlugins, p \in missing
        PROVE  /\ ~Mounted(p) /\ frames'[p].id = frameSeq + 1 /\ frameSeq + 1 > frameSeq
    <2>1. frames'[p] = NewFrame(frameSeq + 1, list[p])
      BY <1>4 DEF Sync
    <2> QED
      BY <1>1, <1>4, <2>1 DEF NewFrame
  <1>5. ASSUME NEW p \in FPlugins, p \notin missing
        PROVE  IF Mounted(p) THEN Lasts(p) ELSE frames'[p] = NoFrame
    <2>1. frames'[p] = IF Outdated(p, list) /\ ~frames[p].removing
                       THEN [frames[p] EXCEPT !.removing = TRUE, !.next = list[p]]
                       ELSE frames[p]
      BY <1>5 DEF Sync
    <2>2. CASE ~Mounted(p)
      BY <2>1, <2>2 DEF Outdated, Mounted
    <2>3. CASE Mounted(p)
      <3>1. frames[p] \in FrameRecs /\ list[p] \in Versions
        BY <2>3, MountedIs
      <3>2. /\ frames'[p] \in FrameRecs /\ frames'[p].id = frames[p].id
            /\ frames'[p].hung = frames[p].hung
            /\ frames[p].removing => frames'[p].removing
        BY <2>1, <3>1 DEF FrameRecs
      <3> QED
        BY <2>3, <3>2, FrameIs DEF Lasts
    <2> QED
      BY <2>2, <2>3
  <1> HIDE DEF missing
  <1>6. frameSeq' \in Nat /\ frameSeq <= frameSeq'
    BY <1>1, <1>2, <1>3
  <1>7. \A p \in FPlugins : Mounted(p) => Lasts(p)
    BY <1>4, <1>5
  <1>8. \A p \in FPlugins : frames'[p] # NoFrame => Lasts(p) \/ frames'[p].id > frameSeq
    BY <1>4, <1>5
  <1> QED
    BY <1>3, <1>6, <1>7, <1>8 DEF Advances

LEMMA FramesAdvance ==
  ASSUME FramesInv, DeferredDue, FrameNext PROVE Advances
  <1>1. ASSUME NEW p \in FPlugins, FrameLoads(p) \/ SandboxFails(p) PROVE Advances
    <2>1. Mounted(p) /\ frames[p] \in FrameRecs
      BY <1>1, MountedIs DEF FrameLoads, SandboxFails
    <2>2. CASE FrameLoads(p)
      <3>1. PICK s \in {"none", "live"} :
              SetFrame(p, [frames[p] EXCEPT !.loaded = TRUE, !.session = s])
        BY <2>2 DEF FrameLoads
      <3>2. PICK f : f = [frames[p] EXCEPT !.loaded = TRUE, !.session = s]
        OBVIOUS
      <3>3. /\ f \in FrameRecs /\ f.id = frames[p].id /\ f.removing = frames[p].removing
            /\ f.hung = frames[p].hung
        BY <2>1, <3>2 DEF FrameRecs
      <3> QED
        BY <2>1, <3>1, <3>2, <3>3, OneFails
    <2>3. CASE SandboxFails(p)
      <3>1. PICK f : f = [frames[p] EXCEPT !.hung = TRUE]
        OBVIOUS
      <3>2. /\ f \in FrameRecs /\ f.id = frames[p].id /\ f.removing = frames[p].removing
            /\ f.hung
        BY <2>1, <3>1 DEF FrameRecs
      <3>3. SetFrame(p, f)
        BY <2>3, <3>1 DEF SandboxFails
      <3> QED
        BY <2>1, <3>2, <3>3, OneFails
    <2> QED
      BY <1>1, <2>2, <2>3
  <1>2. ASSUME NEW d \in probes, ProbeEnds(d) PROVE Advances
    <2>1. d.plugin \in FPlugins /\ deferred' = deferred
      BY <1>2 DEF FramesInv, FrameTyped, FrameRefs, ProbeEnds
    <2>2. CASE Answers(d)
      BY <1>2, <2>1, <2>2, AllStay DEF ProbeEnds
    <2>3. CASE ~Answers(d)
      <3>1. HandleFrameCrash(d.plugin, d.id)
        BY <1>2, <2>3 DEF ProbeEnds
      <3>2. CrashApplies(d.plugin, d.id) => frames[d.plugin].hung
        BY <2>3 DEF CrashApplies, Answers
      <3> QED
        BY <2>1, <3>1, <3>2, CrashGoes
    <2> QED
      BY <2>2, <2>3
  <1>3. ASSUME NEW p \in FPlugins, PeerCloses(p) PROVE Advances
    <2>1. HandleFrameCrash(p, frames[p].id) /\ deferred' = deferred /\ frames[p].hung
      BY <1>3 DEF PeerCloses
    <2> QED
      BY <2>1, CrashGoes
  <1>4. ASSUME NEW p \in FPlugins,
               \/ HookStarts(p) \/ Probe(p) \/ ResetFrameSession(p) \/ CrashesForgotten(p)
               \/ \E kind \in Kinds : Leave(p, kind) \/ Settle(p, kind)
        PROVE  Advances
    <2>1. UNCHANGED <<frames, frameSeq>> /\ deferred' = deferred
      BY <1>4 DEF HookStarts, Probe, ResetFrameSession, CrashesForgotten, Leave, Settle
    <2> QED
      BY <2>1, AllStay
  <1> QED
    BY <1>1, <1>2, <1>3, <1>4, OneIsRemoved, DeferredGoes, SyncAdvances
    DEF FrameNext, FrameRuns

LEMMA StaysDue ==
  ASSUME FramesInv, DeferredDue, Advances PROVE DeferredDue'
  <1> SUFFICES ASSUME NEW d \in deferred',
                      d \in deferred \/ Mounted(d.plugin)
               PROVE  /\ d.id <= frameSeq'
                      /\ frames'[d.plugin] # NoFrame /\ frames'[d.plugin].id = d.id =>
                           frames'[d.plugin].removing \/ frames'[d.plugin].hung
    BY DEF DeferredDue, Advances, Mounted
  <1>0. /\ frameSeq \in Nat /\ frameSeq' \in Nat /\ frameSeq <= frameSeq'
        /\ frames \in [FPlugins -> FrameRecs \cup {NoFrame}]
    BY DEF FramesInv, FrameTyped, Advances
  <1>1. CASE d \in deferred
    <2>1. d.plugin \in FPlugins /\ d.id \in Nat /\ d.id <= frameSeq
      BY <1>1 DEF FramesInv, FrameTyped, FrameRefs, DeferredDue
    <2>2. ASSUME frames'[d.plugin] # NoFrame, frames'[d.plugin].id = d.id
          PROVE  frames'[d.plugin].removing \/ frames'[d.plugin].hung
      <3>1. Lasts(d.plugin)
        BY <1>0, <2>1, <2>2 DEF Advances
      <3>2. frames[d.plugin].removing \/ frames[d.plugin].hung
        BY <1>1, <2>2, <3>1 DEF Lasts, DeferredDue
      <3> QED
        BY <3>1, <3>2 DEF Lasts
    <2> QED
      BY <1>0, <2>1, <2>2
  <1>2. CASE d \notin deferred
    <2>1. /\ Mounted(d.plugin) /\ d.id = frames[d.plugin].id /\ frames' = frames
          /\ frames[d.plugin].removing \/ frames[d.plugin].hung
      BY <1>2 DEF Advances
    <2>2. d.plugin \in FPlugins
      BY <1>2 DEF Advances
    <2>3. d.id \in Nat /\ d.id <= frameSeq
      BY <2>1, <2>2, MountedIs DEF FramesInv, IdsDistinct, FrameRecs
    <2> QED
      BY <1>0, <2>1, <2>3
  <1> QED
    BY <1>1, <1>2

\* A frame goes only if its own removal was started or its own sandbox failed: the
\* removal timer, a removal that waited for a hook, a missed ping and a closed port
\* of an earlier frame never take the one that replaced it (finalizeFrameRemoval,
\* handleFrameCrash and probeFrame in runtime.ts), whatever list changes, hooks,
\* pings and crashes overlap.
THEOREM RemovalsAreDue == FrameSpec => OnlyDueRemovals
  <1> DEFINE Kept == \A p \in FPlugins : frames[p] # NoFrame =>
                        \/ frames'[p] # NoFrame /\ frames'[p].id = frames[p].id
                        \/ frames[p].removing \/ frames[p].hung
             Both == FramesInv /\ DeferredDue
  <1>1. FrameInit => Both
    BY InitFrames DEF FrameInit, DeferredDue
  <1>2. Both /\ [FrameNext]_frameVars => Both'
    <2> SUFFICES ASSUME Both, [FrameNext]_frameVars PROVE DeferredDue'
      BY NextFrames
    <2>1. CASE UNCHANGED frameVars
      BY <2>1 DEF frameVars, DeferredDue, Mounted
    <2>2. CASE FrameNext
      BY <2>2, FramesAdvance, StaysDue
    <2> QED
      BY <2>1, <2>2
  <1>3. Both /\ [FrameNext]_frameVars => [Kept]_frameVars
    <2> SUFFICES ASSUME Both, FrameNext PROVE Kept
      OBVIOUS
    <2> QED
      BY FramesAdvance DEF Advances, Lasts, Mounted
  <1> QED
    BY <1>1, <1>2, <1>3, PTL DEF FrameSpec, OnlyDueRemovals

-----------------------------------------------------------------------------
(* Windows.                                                                *)

WindowInv ==
    /\ told \in [Windows -> {"none", "standalone", "primary", "secondary"}]
    /\ manager \in [Windows -> {"none", "running", "stopped", "closed"}]
    /\ session \in [Windows -> BOOLEAN]
    /\ claims \in [Windows -> SUBSET Windows]
    /\ ToldItsRole

\* Nothing else decides the role of a window than its own manager and claims.
LEMMA RoleIs ==
  ASSUME NEW m1, NEW c1, NEW m2, NEW c2, NEW w, m1[w] = m2[w], c1[w] = c2[w]
  PROVE  Role(m1, c1, w) = Role(m2, c2, w)
  BY DEF Role

LEMMA RoleTyped ==
  \A m, c, w : Role(m, c, w) \in {"none", "standalone", "primary", "secondary"}
  BY DEF Role

\* A window whose session has ended may forget everything.
LEMMA WindowLeaves ==
  ASSUME WindowInv, NEW w \in Windows, EndSession(w) \/ PageHide(w) \/ KillWindow(w)
  PROVE  WindowInv'
  <1>1. /\ session' = [session EXCEPT ![w] = FALSE] /\ told' = told
        /\ manager' \in [Windows -> {"none", "running", "stopped", "closed"}]
        /\ claims' \in [Windows -> SUBSET Windows]
        /\ \A v \in Windows \ {w} : manager'[v] = manager[v] /\ claims'[v] = claims[v]
    BY DEF WindowInv, EndSession, PageHide, KillWindow, Stopped
  <1>2. \A v \in Windows \ {w} : Role(manager', claims', v) = Role(manager, claims, v)
    BY <1>1, RoleIs
  <1>3. ToldItsRole'
    BY <1>1, <1>2 DEF WindowInv, ToldItsRole
  <1> QED
    BY <1>1, <1>3 DEF WindowInv

LEMMA WindowStarts ==
  ASSUME WindowInv, NEW w \in Windows, StartSession(w)
  PROVE  WindowInv'
  <1>1. PICK role : role = Role(manager', claims, w)
    OBVIOUS
  <1>2. /\ session' = [session EXCEPT ![w] = TRUE] /\ claims' = claims
        /\ told' = [told EXCEPT ![w] = role]
    BY <1>1 DEF StartSession
  <1>3. /\ manager' \in [Windows -> {"none", "running", "stopped", "closed"}]
        /\ \A v \in Windows \ {w} : manager'[v] = manager[v]
    BY DEF WindowInv, StartSession
  <1>4. role \in {"none", "standalone", "primary", "secondary"}
    BY <1>1, RoleTyped
  <1>5. \A v \in Windows \ {w} : Role(manager', claims', v) = Role(manager, claims, v)
    BY <1>2, <1>3, RoleIs
  <1>6. told'[w] = Role(manager', claims', w)
    BY <1>1, <1>2 DEF WindowInv
  <1>7. ToldItsRole'
    BY <1>2, <1>5, <1>6 DEF WindowInv, ToldItsRole
  <1> QED
    BY <1>2, <1>3, <1>4, <1>7 DEF WindowInv

\* A window hears a peer, or the lease of a peer runs out: recompute tells the plugin.
LEMMA ClaimsChange ==
  ASSUME WindowInv, NEW w \in Windows, NEW S \in SUBSET Windows, Recompute(w),
         claims' = [claims EXCEPT ![w] = S], UNCHANGED <<manager, session>>
  PROVE  WindowInv'
  <1>1. PICK role : role = Role(manager, claims', w)
    OBVIOUS
  <1>2. told' = IF session[w] THEN [told EXCEPT ![w] = role] ELSE told
    BY <1>1 DEF Recompute
  <1>3. role \in {"none", "standalone", "primary", "secondary"}
    BY <1>1, RoleTyped
  <1>4. \A v \in Windows \ {w} : /\ Role(manager', claims', v) = Role(manager, claims, v)
                                 /\ told'[v] = told[v]
    <2>1. \A v \in Windows \ {w} : claims'[v] = claims[v] /\ manager'[v] = manager[v]
      BY DEF WindowInv
    <2>2. \A v \in Windows \ {w} : Role(manager', claims', v) = Role(manager, claims, v)
      BY <2>1 DEF Role
    <2>3. \A v \in Windows \ {w} : told'[v] = told[v]
      BY <1>2 DEF WindowInv
    <2> QED
      BY <2>2, <2>3
  <1>5. session[w] => told'[w] = Role(manager', claims', w)
    BY <1>1, <1>2 DEF WindowInv
  <1>6. ToldItsRole'
    BY <1>4, <1>5 DEF WindowInv, ToldItsRole
  <1> QED
    BY <1>2, <1>3, <1>6 DEF WindowInv

LEMMA NextWindows == WindowInv /\ [WindowNext]_windowVars => WindowInv'
  <1> SUFFICES ASSUME WindowInv, [WindowNext]_windowVars PROVE WindowInv'
    OBVIOUS
  <1>1. ASSUME UNCHANGED <<manager, session, claims, told>> PROVE WindowInv'
    BY <1>1 DEF WindowInv, ToldItsRole
  <1>2. ASSUME NEW v \in Windows, NEW w \in Windows, Hear(v, w) PROVE WindowInv'
    <2>1. CASE manager[w] = "running"
      <3>1. PICK S : S = NextClaims(v, w)
        OBVIOUS
      <3>2. S \in SUBSET Windows
        BY <3>1 DEF NextClaims, WindowInv
      <3>3. /\ claims' = [claims EXCEPT ![w] = S] /\ Recompute(w)
            /\ UNCHANGED <<manager, session>>
        BY <1>2, <2>1, <3>1 DEF Hear
      <3> QED
        BY <3>2, <3>3, ClaimsChange
    <2>2. CASE manager[w] # "running"
      BY <1>1, <1>2, <2>2 DEF Hear
    <2> QED
      BY <2>1, <2>2
  <1>3. ASSUME NEW v \in Windows, NEW w \in Windows, Expire(w, v) PROVE WindowInv'
    <2>1. PICK S : S = claims[w] \ {v}
      OBVIOUS
    <2>2. S \in SUBSET Windows
      BY <2>1 DEF WindowInv
    <2>3. /\ claims' = [claims EXCEPT ![w] = S] /\ Recompute(w)
          /\ UNCHANGED <<manager, session>>
      BY <1>3, <2>1 DEF Expire
    <2> QED
      BY <2>2, <2>3, ClaimsChange
  <1>4. ASSUME NEW w \in Windows, Heartbeat(w) \/ Unthrottle(w) \/ Throttle(w)
        PROVE  WindowInv'
    BY <1>1, <1>4 DEF Heartbeat, Unthrottle, Throttle
  <1>5. CASE UNCHANGED windowVars
    BY <1>1, <1>5 DEF windowVars
  <1> QED
    BY <1>2, <1>3, <1>4, <1>5, WindowLeaves, WindowStarts DEF WindowNext, WindowRuns

\* A plugin knows the role of its window: recompute tells it of each change that a
\* message, an expired lease or a start brings (WindowRoleManager in windows.ts), for
\* any number of windows and whatever is closed, killed or throttled.
THEOREM RolesAreTold == WindowSpec => []ToldItsRole
  <1>1. WindowInit => WindowInv
    BY DEF WindowInit, WindowInv, ToldItsRole
  <1>2. WindowInv => ToldItsRole
    BY DEF WindowInv
  <1> QED
    BY <1>1, <1>2, NextWindows, PTL DEF WindowSpec
=============================================================================
