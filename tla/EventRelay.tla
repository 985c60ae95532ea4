----------------------------- MODULE EventRelay -----------------------------
(***************************************************************************)
(* Subscriptions of a sandboxed plugin to one app event                    *)
(* (apps/web/src/plugins/kernel/events.ts) over the bounded history that   *)
(* the runtime keeps (runtime.ts recordAppEvent).                          *)
(*                                                                         *)
(* Records leave the history from the front only, so what is retained of   *)
(* one event is the interval low..head of its sequence numbers.            *)
(***************************************************************************)
EXTENDS Integers, FiniteSetsExt

CONSTANTS
    PerEvent,     \* APP_EVENT_HISTORY_PER_EVENT
    InFlight,     \* maxInFlight of the subscription
    MaxEvents,    \* bound: events recorded
    MaxResumes,   \* bound: subscriptions with a cursor
    NoSub         \* there is no subscription

ASSUME RelayAssumption ==
    /\ PerEvent \in Nat \ {0} /\ InFlight \in Nat \ {0}
    /\ MaxEvents \in Nat /\ MaxResumes \in Nat

VARIABLES
    low, head,  \* the retained records; none when low = head + 1
    sub,        \* the subscription: last delivered, unacknowledged, paused
    allowed,    \* the plugin holds the capability for this event
    resumes,    \* subscriptions with a cursor so far
    since,      \* history: where the subscription started
    got,        \* history: what it has delivered
    evicted,    \* history: records that left the history undelivered
    lost,       \* history: events after its cursor that were gone already
    blank       \* history: nothing was retained when the cursor was taken

relayVars == <<low, head, sub, allowed, resumes, since, got, evicted, lost, blank>>
startVars == <<since, lost, blank>>

RelayInit ==
    /\ low = 1 /\ head = 0
    /\ sub = NoSub /\ allowed = TRUE /\ resumes = 0
    /\ since = 0 /\ got = {} /\ evicted = {} /\ lost = {} /\ blank = FALSE

\* deliver: what is retained after the last one, as far as the window allows.
Pending(s, l, h) == {seq \in l .. h : seq > s.last}
Sent_Skips(s, l, h) == IF s.paused THEN {} ELSE
    {seq \in Pending(s, l, h) : seq > h - (InFlight - Cardinality(s.unacked))}
Sent(s, l, h) ==
    IF s.paused THEN {}
    ELSE {seq \in Pending(s, l, h) :
            Cardinality({t \in Pending(s, l, h) : t < seq}) < InFlight - Cardinality(s.unacked)}
Delivered(s, l, h) ==
    [last |-> Max(Sent(s, l, h) \cup {s.last}),
     unacked |-> s.unacked \cup Sent(s, l, h),
     paused |-> s.paused \/ Sent(s, l, h) # Pending(s, l, h)]

DeliverNow(s, l, h) ==
    /\ sub' = Delivered(s, l, h)
    /\ got' = got \cup Sent(s, l, h)

Evict(l) ==
    /\ low' = l
    /\ evicted' = evicted \cup {seq \in low .. l - 1 : sub = NoSub \/ seq \notin got}

\* recordAppEvent, then the listener of the relay.  Records over the cap, and
\* those that are older than a minute, are shifted out.
RecordAppEvent ==
    /\ head < MaxEvents /\ head' = head + 1
    /\ \E l \in Max({low, head + 2 - PerEvent}) .. head + 1 :
        /\ Evict(l)
        /\ IF sub # NoSub /\ allowed
           THEN DeliverNow(sub, l, head + 1)
           ELSE UNCHANGED <<sub, got>>
    /\ UNCHANGED <<allowed, resumes, startVars>>

\* The cap over all names evicts the oldest record when others are recorded.
OthersRecorded ==
    /\ low <= head /\ Evict(low + 1)
    /\ UNCHANGED <<head, sub, allowed, resumes, startVars, got>>

Subscribed(from) == [last |-> from, unacked |-> {}, paused |-> FALSE]

\* events.subscribe without a cursor: live from now, or what there is.
Subscribe ==
    /\ allowed
    /\ IF sub = NoSub
       THEN /\ sub' = Subscribed(IF low <= head THEN head ELSE 0)
            /\ since' = head /\ got' = {} /\ evicted' = {}
            /\ lost' = {} /\ blank' = FALSE
       ELSE DeliverNow(sub, low, head) /\ UNCHANGED <<since, evicted, lost, blank>>
    /\ UNCHANGED <<low, head, allowed, resumes>>

\* events.subscribe with a cursor.  A cursor outside the retained records is
\* an error, except that an empty history knows no bounds.
CursorAccepted(c) == low <= head => c \in low - 1 .. head
Resume(c) ==
    /\ allowed /\ resumes < MaxResumes /\ CursorAccepted(c)
    /\ resumes' = resumes + 1
    /\ since' = c
    /\ sub' = Delivered(Subscribed(c), low, head)
    /\ got' = Sent(Subscribed(c), low, head)
    /\ evicted' = {}
    /\ lost' = c + 1 .. low - 1
    /\ blank' = (low > head)
    /\ UNCHANGED <<low, head, allowed>>

\* events.ack: room in the window restarts a paused delivery.
Ack_NoRestart(seq) ==
    /\ sub # NoSub
    /\ seq \in sub.unacked
    /\ sub' = [sub EXCEPT !.unacked = @ \ {seq}] /\ UNCHANGED got
    /\ UNCHANGED <<low, head, allowed, resumes, startVars, evicted>>
Ack(seq) ==
    /\ sub # NoSub
    /\ seq \in sub.unacked
    /\ LET acked == [sub EXCEPT !.unacked = @ \ {seq}]
       IN  IF acked.paused /\ Cardinality(acked.unacked) < InFlight
           THEN DeliverNow([acked EXCEPT !.paused = FALSE], low, head)
           ELSE sub' = acked /\ UNCHANGED got
    /\ UNCHANGED <<low, head, allowed, resumes, startVars, evicted>>

\* events.unsubscribe, or the session is disposed.
Unsubscribe ==
    /\ sub # NoSub /\ sub' = NoSub
    /\ UNCHANGED <<low, head, allowed, resumes, startVars, got, evicted>>

\* The capability is revoked, or granted again.
SetAllowed ==
    /\ allowed' = ~allowed
    /\ UNCHANGED <<low, head, sub, resumes, startVars, got, evicted>>

AckSome == \E seq \in 1 .. head : Ack(seq)

RelayNext ==
    \/ RecordAppEvent \/ OthersRecorded \/ Subscribe \/ Unsubscribe \/ SetAllowed \/ AckSome
    \/ \E c \in 0 .. head : Resume(c)

RelaySpec == RelayInit /\ [][RelayNext]_relayVars

-----------------------------------------------------------------------------

\* A subscription delivers every event after its start: one that it passed
\* over had left the history, before its cursor was taken or because the
\* consumer was paused for longer than the history lasts.
NothingSkipped ==
    sub # NoSub => \A seq \in since + 1 .. sub.last : seq \in got \cup evicted \cup lost

\* A cursor is accepted only when nothing after it is lost: "cursors outside
\* the retained window are rejected" (events.ts).
CursorSound == lost = {}

\* The same, when any record was retained as the cursor was taken.
CursorSoundUnlessBlank == blank \/ CursorSound

\* However records, acknowledgements and re-subscriptions interleave, what is
\* delivered and unacknowledged never exceeds maxInFlight.
WindowBound == sub # NoSub => Cardinality(sub.unacked) <= InFlight

\* A consumer that acknowledges what it gets is never left paused.
DeliveryRestarts == (sub # NoSub /\ sub.paused) ~> (sub = NoSub \/ ~sub.paused)

\* The subscription, in one: no event passed over, sound cursors and a
\* bounded window.
RelaySound == NothingSkipped /\ CursorSoundUnlessBlank /\ WindowBound
=============================================================================
