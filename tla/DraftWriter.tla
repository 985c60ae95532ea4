---------------------------- MODULE DraftWriter -----------------------------
(***************************************************************************)
(* A plugin streams a message into a server-side draft.                    *)
(*                                                                         *)
(* The kernel (apps/web/src/plugins/kernel/chat.ts) coalesces appends into *)
(* PATCH requests at 10 Hz and commits or aborts the draft; the server     *)
(* (apps/server/src/plugins/chats.ts, messageDrafts.ts) applies PATCHes by *)
(* sequence number and sweeps rows that nobody needs.  A request can fail  *)
(* at the client and reach the server all the same, later.                 *)
(***************************************************************************)
EXTENDS Integers, FiniteSetsExt

CONSTANTS
    MaxAppends,   \* bound: pieces of text appended to the draft
    NoRow         \* the draft has no row on the server

ASSUME DraftAssumption == MaxAppends \in Nat

VARIABLES
    draft,     \* DraftState of the client; text counts the pieces appended
    flush,     \* the PATCH that the flush chain or the tail waits for
    ending,    \* progress of chat.draft.commit or chat.draft.abort
    wire,      \* requests that have not reached the server
    row,       \* the draft's row
    message,   \* pieces of the committed message; -1 when there is none
    overlapped \* history: a piece was appended while a PATCH was under way

draftVars == <<draft, flush, ending, wire, row, message, overlapped>>

NoFlush == [seq |-> 0, text |-> 0]

DraftInit ==
    /\ draft = [live |-> TRUE, text |-> 0, seq |-> 0, dirty |-> FALSE,
                timer |-> FALSE, queued |-> 0]
    /\ flush = NoFlush
    /\ ending = "none"
    /\ wire = {}
    /\ row = [text |-> 0, seq |-> 0, committed |-> FALSE]
    /\ message = -1
    /\ overlapped = FALSE

PatchRequest(text, seq) == [kind |-> "patch", text |-> text, seq |-> seq]
CommitRequest == [kind |-> "commit", text |-> 0, seq |-> 0]
DeleteRequest == [kind |-> "delete", text |-> 0, seq |-> 0]

-----------------------------------------------------------------------------
(* The server.                                                             *)

\* update: a sequence that is not newer is a no-op.
UpdateRow(p) ==
    IF p.seq <= row.seq THEN row ELSE [row EXCEPT !.text = p.text, !.seq = p.seq]

\* commit inserts the message once; a repeated commit returns its id.
CommitRow ==
    IF row.committed THEN UNCHANGED <<row, message>>
    ELSE message' = row.text /\ row' = [row EXCEPT !.committed = TRUE]

\* A request arrives.  Without a row every one of them is a 404.
Arrive(p) ==
    /\ p \in wire
    /\ wire' = wire \ {p}
    /\ IF row = NoRow THEN UNCHANGED <<row, message>>
       ELSE \/ p.kind = "patch" /\ row' = UpdateRow(p) /\ UNCHANGED message
            \/ p.kind = "commit" /\ CommitRow
            \/ p.kind = "delete" /\ row' = NoRow /\ UNCHANGED message
    /\ UNCHANGED <<draft, flush, ending, overlapped>>

\* A request that its sender has given up can also be lost.
LoseRequest(p) ==
    /\ p \in wire /\ ~(p.kind = "patch" /\ p.seq = flush.seq)
    /\ p.kind = "commit" => ending # "posting"
    /\ p.kind = "delete" => ending # "deleting"
    /\ wire' = wire \ {p}
    /\ UNCHANGED <<draft, flush, ending, row, message, overlapped>>

\* sweep: a day without a write, or an hour after the commit.
SweepRow_CommittedOnly ==
    /\ row # NoRow /\ row.committed /\ wire = {} /\ flush = NoFlush
    /\ row' = NoRow
    /\ UNCHANGED <<draft, flush, ending, wire, message, overlapped>>
SweepRow ==
    /\ row # NoRow /\ wire = {} /\ flush = NoFlush
    /\ ~draft.timer /\ draft.queued = 0
    /\ row' = NoRow
    /\ UNCHANGED <<draft, flush, ending, wire, message, overlapped>>

-----------------------------------------------------------------------------
(* The client.                                                             *)

AppendText ==
    /\ draft.live /\ draft.text < MaxAppends
    /\ draft' = [draft EXCEPT !.text = @ + 1, !.dirty = TRUE, !.timer = TRUE]
    /\ overlapped' = (overlapped \/ flush # NoFlush)
    /\ UNCHANGED <<flush, ending, wire, row, message>>

\* scheduleFlush: the timer chains a flush.
FlushTimer ==
    /\ draft.timer
    /\ draft' = [draft EXCEPT !.timer = FALSE, !.queued = @ + 1]
    /\ UNCHANGED <<flush, ending, wire, row, message, overlapped>>

SendPatch(d) ==
    /\ draft' = [d EXCEPT !.seq = @ + 1]
    /\ flush' = [seq |-> d.seq + 1, text |-> d.text]
    /\ wire' = wire \cup {PatchRequest(d.text, d.seq + 1)}

FlushDraft ==
    /\ draft.queued > 0 /\ flush = NoFlush
    /\ SendPatch([draft EXCEPT !.queued = @ - 1])
    /\ UNCHANGED <<ending, row, message, overlapped>>

Arrived == PatchRequest(flush.text, flush.seq) \notin wire

\* The flush is over.  A success clears `dirty`; an error is swallowed.
FlushEnds ==
    /\ flush # NoFlush /\ ending # "tail"
    /\ flush' = NoFlush
    /\ \/ Arrived /\ row # NoRow /\ draft' = [draft EXCEPT !.dirty = FALSE]
       \/ UNCHANGED draft
    /\ UNCHANGED <<ending, wire, row, message, overlapped>>

\* chat.draft.commit: forget the draft, let the flushes finish, send the
\* tail, then commit.  An error on the way is the caller's.
CommitDraft ==
    /\ draft.live
    /\ draft' = [draft EXCEPT !.live = FALSE, !.timer = FALSE]
    /\ ending' = "flushing"
    /\ UNCHANGED <<flush, wire, row, message, overlapped>>

Post ==
    /\ ending' = "posting"
    /\ wire' = wire \cup {CommitRequest}

CommitTail_Skipped ==
    /\ ending = "flushing" /\ draft.queued = 0 /\ flush = NoFlush
    /\ Post /\ UNCHANGED <<draft, flush>>
    /\ UNCHANGED <<row, message, overlapped>>
CommitTail ==
    /\ ending = "flushing" /\ draft.queued = 0 /\ flush = NoFlush
    /\ \/ draft.dirty /\ SendPatch(draft) /\ ending' = "tail"
       \/ ~draft.dirty /\ Post /\ UNCHANGED <<draft, flush>>
    /\ UNCHANGED <<row, message, overlapped>>

TailEnds ==
    /\ ending = "tail"
    /\ flush' = NoFlush
    /\ \/ Arrived /\ row # NoRow /\ Post /\ draft' = [draft EXCEPT !.dirty = FALSE]
       \/ ending' = "failed" /\ UNCHANGED <<draft, wire>>
    /\ UNCHANGED <<row, message, overlapped>>

CommitEnds ==
    /\ ending = "posting"
    /\ \/ CommitRequest \notin wire /\ message # -1 /\ ending' = "committed"
       \/ ending' = "failed"
    /\ UNCHANGED <<draft, flush, wire, row, message, overlapped>>

\* chat.draft.abort waits for the flushes, then deletes; session teardown
\* deletes at once.
AbortDraft ==
    /\ draft.live
    /\ draft' = [draft EXCEPT !.live = FALSE, !.timer = FALSE]
    /\ ending' = "aborting"
    /\ UNCHANGED <<flush, wire, row, message, overlapped>>
AbortDeletes ==
    /\ ending = "aborting" /\ draft.queued = 0 /\ flush = NoFlush
    /\ ending' = "deleting" /\ wire' = wire \cup {DeleteRequest}
    /\ UNCHANGED <<draft, flush, row, message, overlapped>>
DisposeDrafts ==
    /\ draft.live
    /\ draft' = [draft EXCEPT !.live = FALSE, !.timer = FALSE]
    /\ ending' = "deleting" /\ wire' = wire \cup {DeleteRequest}
    /\ UNCHANGED <<flush, row, message, overlapped>>
DeleteEnds ==
    /\ ending = "deleting" /\ ending' = "deleted"
    /\ UNCHANGED <<draft, flush, wire, row, message, overlapped>>

\* What happens by itself: replies, timers and the chain of promises.
DraftRuns ==
    \/ FlushTimer \/ FlushDraft \/ FlushEnds \/ CommitTail \/ TailEnds \/ CommitEnds
    \/ AbortDeletes \/ DeleteEnds
    \/ \E p \in wire : Arrive(p)

DraftNext ==
    \/ DraftRuns \/ SweepRow
    \/ AppendText \/ CommitDraft \/ AbortDraft \/ DisposeDrafts
    \/ \E p \in wire : LoseRequest(p)

DraftSpec == DraftInit /\ [][DraftNext]_draftVars

-----------------------------------------------------------------------------

\* A plugin that is told its draft was committed finds all its text in the
\* message.  As the comment in chat.draft.commit has it: text whose flush was
\* still queued "must reach the server before the commit or it would be lost".
CommitWhole == ending = "committed" => message = draft.text

\* The same, when no text was appended while a PATCH was under way.
CommitWholeUnlessOverlapped == ~overlapped => CommitWhole

\* Late and repeated PATCHes, in any order, neither take text out of the row
\* nor bring a deleted draft back (MessageDraftRepository.update).
NoRollback ==
    [][/\ row = NoRow => row' = NoRow
       /\ row # NoRow /\ row' # NoRow => row.text <= row'.text]_draftVars

\* A draft whose writer is gone, by commit, abort or teardown and however
\* the requests fared, does not stay in the database.
DraftSwept == ~draft.live ~> row = NoRow

\* The row of a draft, in one: it only grows while it is there, and it goes.
DraftsEnd == NoRollback /\ DraftSwept
=============================================================================
