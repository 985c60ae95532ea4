------------------------------ MODULE MCKernel ------------------------------
(***************************************************************************)
(* TLC instance of four parts of the plugin kernel in the web client that  *)
(* share no state: the RPC session, the draft writer, the event relay and  *)
(* the window roles.  A behaviour runs one of them, chosen in Init, and of *)
(* the session either its calls or its stream; the variables of the others *)
(* keep their initial values.                                              *)
(***************************************************************************)
EXTENDS KernelSession, DraftWriter, EventRelay, WindowRoles

VARIABLE slice

vars == <<slice, sessionVars, draftVars, relayVars, windowVars>>

MCSizes == <<1, 1, 1, 4>>

InSession(A) ==
    /\ slice \in {"calls", "stream"} /\ A
    /\ IF slice = "calls" THEN UNCHANGED streamVars ELSE UNCHANGED rpcVars
    /\ UNCHANGED <<slice, draftVars, relayVars, windowVars>>
InDraft(A)   == slice = "draft"   /\ A /\ UNCHANGED <<slice, sessionVars, relayVars, windowVars>>
InRelay(A)   == slice = "relay"   /\ A /\ UNCHANGED <<slice, sessionVars, draftVars, windowVars>>
InWindows(A) == slice = "windows" /\ A /\ UNCHANGED <<slice, sessionVars, draftVars, relayVars>>

Init ==
    /\ slice \in {"calls", "stream", "draft", "relay", "windows"}
    /\ SessionInit /\ DraftInit /\ RelayInit /\ WindowInit

Next ==
    \/ InSession(SessionNext) \/ InDraft(DraftNext)
    \/ InRelay(RelayNext) \/ InWindows(WindowNext)

(* Ports deliver, deadlines and timers fire, sent requests arrive and the  *)
(* sandbox acknowledges what it was given.                                 *)
Fairness ==
    /\ WF_vars(InSession(AtA)) /\ WF_vars(InSession(AtB))
    /\ \A c \in Calls : WF_vars(InSession(ServeDeadline(c)))
    /\ WF_vars(InDraft(DraftRuns)) /\ WF_vars(InDraft(SweepRow))
    /\ WF_vars(InRelay(AckSome))
    /\ WF_vars(InWindows(WindowRuns))

Spec == Init /\ [][Next]_vars /\ Fairness
=============================================================================
