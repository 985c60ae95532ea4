---------------------------- MODULE WindowRoles -----------------------------
(***************************************************************************)
(* The election of the window that does a plugin's background work         *)
(* (apps/web/src/plugins/windows.ts, kernel/windows.ts, and the managers   *)
(* that runtime.ts keeps per installation).                                *)
(*                                                                         *)
(* Windows are numbered in the order of their ids.  Timers are on time     *)
(* except in a throttled window: a claim expires only when its window does *)
(* not post any more and nothing of it is under way.                       *)
(***************************************************************************)
EXTENDS Integers, Sequences, FiniteSetsExt

CONSTANTS
    NWindows,    \* number of windows
    MaxStirs  \* bound: sessions started or ended, crashes, throttlings

ASSUME WindowAssumption == NWindows \in Nat \ {0} /\ MaxStirs \in Nat

Windows == 1 .. NWindows

VARIABLES
    manager,   \* per window: none, running, stopped, or the window is closed
    session,   \* per window: the plugin has a session there
    claims,    \* per window: the peers whose claim is live
    air,       \* messages under way, per sender and receiver
    slow,      \* windows whose timers the browser throttles
    told,      \* per window: the role that the plugin knows
    stirred    \* events so far

windowVars == <<manager, session, claims, air, slow, told, stirred>>

Role(m, c, w) ==
    IF m[w] # "running" THEN "standalone"
    ELSE IF Min(c[w] \cup {w}) = w THEN "primary" ELSE "secondary"
IsBackground(w) == session[w] /\ Role(manager, claims, w) # "secondary"

WindowInit ==
    /\ manager = [w \in Windows |-> "none"]
    /\ session = [w \in Windows |-> FALSE]
    /\ claims = [w \in Windows |-> {}]
    /\ air = [v \in Windows |-> [w \in Windows |-> <<>>]]
    /\ slow = {}
    /\ told = [w \in Windows |-> "none"]
    /\ stirred = 0

Stir == stirred < MaxStirs /\ stirred' = stirred + 1

\* A BroadcastChannel reaches the other windows that listen.
Broadcast(v, kind) ==
    air' = [air EXCEPT ![v] = [w \in Windows |->
              IF w # v /\ manager[w] = "running" THEN Append(air[v][w], kind) ELSE air[v][w]]]

\* recompute tells the plugin about a transition.
Recompute(w) ==
    told' = IF session[w] THEN [told EXCEPT ![w] = Role(manager, claims', w)] ELSE told

\* A session starts: the manager of the installation is created and started
\* on first use.  One that has stopped is found in the map and stays stopped.
StartSession(w) ==
    /\ Stir /\ ~session[w] /\ manager[w] # "closed"
    /\ session' = [session EXCEPT ![w] = TRUE]
    /\ IF manager[w] = "none"
       THEN manager' = [manager EXCEPT ![w] = "running"] /\ Broadcast(w, "claim")
       ELSE UNCHANGED <<manager, air>>
    /\ told' = [told EXCEPT ![w] = Role(manager', claims, w)]
    /\ UNCHANGED <<claims, slow>>

\* stop: the claim is released and the channel is closed.
Stopped(w, state) ==
    /\ manager' = [manager EXCEPT ![w] = state]
    /\ claims' = [claims EXCEPT ![w] = {}]
    /\ IF manager[w] = "running" THEN Broadcast(w, "release") ELSE UNCHANGED air

\* The session is disposed; with its listener the manager stops.
EndSession(w) ==
    /\ Stir /\ session[w]
    /\ session' = [session EXCEPT ![w] = FALSE]
    /\ IF manager[w] = "running" THEN Stopped(w, "stopped") ELSE UNCHANGED <<manager, claims, air>>
    /\ UNCHANGED <<slow, told>>

\* pagehide: every manager stops.
PageHide(w) ==
    /\ Stir /\ manager[w] # "closed"
    /\ session' = [session EXCEPT ![w] = FALSE]
    /\ Stopped(w, "closed")
    /\ UNCHANGED <<slow, told>>

\* The renderer is killed; nothing is released.
KillWindow(w) ==
    /\ Stir /\ manager[w] # "closed"
    /\ manager' = [manager EXCEPT ![w] = "closed"]
    /\ session' = [session EXCEPT ![w] = FALSE]
    /\ claims' = [claims EXCEPT ![w] = {}]
    /\ UNCHANGED <<air, slow, told>>

Throttle(w) ==
    /\ Stir /\ w \notin slow /\ slow' = slow \cup {w}
    /\ UNCHANGED <<manager, session, claims, air, told>>
Unthrottle(w) ==
    /\ w \in slow /\ slow' = slow \ {w}
    /\ UNCHANGED <<manager, session, claims, air, told, stirred>>

\* The heartbeat of a window that a peer may have forgotten.  A repeated
\* heartbeat changes nothing and is left out.
Heartbeat(v) ==
    /\ manager[v] = "running" /\ v \notin slow
    /\ \E w \in Windows \ {v} :
        manager[w] = "running" /\ v \notin claims[w] /\ air[v][w] = <<>>
    /\ Broadcast(v, "heartbeat")
    /\ UNCHANGED <<manager, session, claims, slow, told, stirred>>

\* onMessage: claims and heartbeats renew, a release removes.
NextClaims(v, w) ==
    IF Head(air[v][w]) = "release" THEN claims[w] \ {v} ELSE claims[w] \cup {v}
Hear(v, w) ==
    /\ air[v][w] # <<>>
    /\ air' = [air EXCEPT ![v][w] = Tail(@)]
    /\ IF manager[w] = "running"
       THEN claims' = [claims EXCEPT ![w] = NextClaims(v, w)] /\ Recompute(w)
       ELSE UNCHANGED <<claims, told>>
    /\ UNCHANGED <<manager, session, slow, stirred>>

\* The lease of a peer runs out.
Expire_Never(w, v) == FALSE /\ UNCHANGED windowVars
Expire(w, v) ==
    /\ manager[w] = "running" /\ v \in claims[w]
    /\ manager[v] # "running" \/ v \in slow
    /\ air[v][w] = <<>>
    /\ claims' = [claims EXCEPT ![w] = @ \ {v}]
    /\ Recompute(w)
    /\ UNCHANGED <<manager, session, air, slow, stirred>>

WindowRuns ==
    \/ \E w \in Windows : Heartbeat(w) \/ Unthrottle(w)
    \/ \E v, w \in Windows : Hear(v, w) \/ Expire(w, v)

WindowNext ==
    \/ WindowRuns
    \/ \E w \in Windows :
        StartSession(w) \/ EndSession(w) \/ PageHide(w) \/ KillWindow(w) \/ Throttle(w)

WindowSpec == WindowInit /\ [][WindowNext]_windowVars

-----------------------------------------------------------------------------

RunningWindows == {w \in Windows : manager[w] = "running"}

\* Whatever windows open, close, crash, stall or restart, the managers that
\* run come to agree on one primary window.
OnePrimary ==
    <>[](RunningWindows # {} =>
           Cardinality({w \in RunningWindows : Role(manager, claims, w) = "primary"}) = 1)

\* "Background work ... must run in exactly one window" (windows.ts).
OneBackground == <>[](Cardinality({w \in Windows : IsBackground(w)}) <= 1)

\* The plugin is told of every change of its role, so what it knows is what
\* windows.role would answer.
ToldItsRole == \A w \in Windows : session[w] => told[w] = Role(manager, claims, w)

\* Roles, in one: every change is told, and one primary comes to be.
RolesSettle == []ToldItsRole /\ OnePrimary
=============================================================================
