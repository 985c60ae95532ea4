-------------------------- MODULE GenerationLedger --------------------------
(***************************************************************************)
(* What the generation workflow promises its callers, without executor,    *)
(* queue, revisions or leases: a ledger with one entry per run.            *)
(*                                                                         *)
(* An entry is opened once and closed once.  Its output grows only while   *)
(* it is open and nobody has asked to cancel it.  What the chat receives   *)
(* of a run is one message with the whole output of that moment, delivered *)
(* when the run completes or when its owner keeps what a run that did not  *)
(* complete left behind.  Discarding empties the output and cannot take    *)
(* back a message.                                                         *)
(***************************************************************************)
CONSTANTS
    RunIds,
    Deltas   \* identities of the deltas that one run can produce

VARIABLE ledger

\* phase "none" before the run, "gone" once its chat was deleted.
Fresh == [phase |-> "none", outcome |-> "none", cancel |-> FALSE,
          output |-> {}, delivered |-> {}, message |-> FALSE]
Opened == [Fresh EXCEPT !.phase = "open"]
Gone == [Fresh EXCEPT !.phase = "gone"]

Init == ledger = [r \in RunIds |-> Fresh]

Open(r) ==
    /\ ledger[r].phase = "none"
    /\ ledger' = [ledger EXCEPT ![r] = Opened]

\* One provider delta that the run has not produced yet.
Produce(r) ==
    /\ ledger[r].phase = "open" /\ ~ledger[r].cancel
    /\ \E d \in Deltas \ ledger[r].output :
         ledger' = [ledger EXCEPT ![r].output = @ \cup {d}]

RequestCancel(r) ==
    /\ ledger[r].phase = "open"
    /\ ledger' = [ledger EXCEPT ![r].cancel = TRUE]

\* The whole output becomes the run's message.
Delivered(entry) ==
    [entry EXCEPT !.message = TRUE, !.delivered = entry.output]

Complete(r) ==
    /\ ledger[r].phase = "open"
    /\ ledger' = [ledger EXCEPT ![r] =
                    [Delivered(@) EXCEPT !.phase = "closed",
                                         !.outcome = "completed"]]

CloseShort(r, outcome) ==
    /\ ledger[r].phase = "open"
    /\ ledger' = [ledger EXCEPT ![r].phase = "closed", ![r].outcome = outcome]

\* Startup recovery: any set of open runs.
Interrupt(S) ==
    /\ \A r \in S : ledger[r].phase = "open"
    /\ ledger' = [r \in RunIds |->
                    IF r \in S
                    THEN [ledger[r] EXCEPT !.phase = "closed",
                                           !.outcome = "interrupted"]
                    ELSE ledger[r]]

Short(r) == ledger[r].phase = "closed" /\ ledger[r].outcome # "completed"

Keep(r) ==
    /\ Short(r) /\ ~ledger[r].message
    /\ ledger[r].output # {}
    /\ ledger' = [ledger EXCEPT ![r] = Delivered(@)]

Discard(r) ==
    /\ Short(r)
    /\ ledger' = [ledger EXCEPT ![r].output = {}]

\* Deleting a character deletes every run of its chats.
Delete(S) ==
    /\ \A r \in S : ledger[r].phase \in {"open", "closed"}
    /\ ledger' = [r \in RunIds |-> IF r \in S THEN Gone ELSE ledger[r]]

Next ==
    \/ \E r \in RunIds :
         \/ Open(r) \/ Produce(r) \/ RequestCancel(r) \/ Complete(r)
         \/ \E outcome \in {"failed", "cancelled"} : CloseShort(r, outcome)
         \/ Keep(r) \/ Discard(r)
    \/ \E S \in SUBSET RunIds : Interrupt(S) \/ Delete(S)

Spec == Init /\ [][Next]_ledger
=============================================================================
