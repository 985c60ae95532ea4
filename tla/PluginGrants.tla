---------------------------- MODULE PluginGrants ----------------------------
(***************************************************************************)
(* What a frontend plugin may do through the host, and what a revocation   *)
(* takes away again: capability grants that the server holds and the       *)
(* client copies (apps/server/src/plugin/capabilityBroker.ts, runtime.ts), *)
(* services that plugins provide to each other (kernel/services.ts), and   *)
(* the ledger of compute workers (kernel/workers.ts).                      *)
(*                                                                         *)
(* A capability of a plugin is a pair.  The answer to a consent and the    *)
(* revocation event reach the client on two connections, so in any order.  *)
(* A frame keeps the plugin object that it was created with, of the plugin *)
(* list at that time or earlier: its grants are those of the server when   *)
(* the list was fetched.  Events change the object of a mounted frame only.*)
(***************************************************************************)
EXTENDS Integers, FiniteSetsExt

CONSTANTS
    GPlugins,       \* plugins
    Grantable,      \* pairs of a plugin and a capability the user may grant
    MaxConsumer,    \* MAX_CONNECTIONS_PER_CONSUMER
    MaxHost,        \* MAX_SERVICE_CONNECTIONS
    MaxWorkers,     \* limits.workers.maxInstances
    MaxSpawns,      \* bound: spawns under way together
    MaxConns,       \* bound: connections ever made
    MaxGrantSteps   \* bound: consents, revocations, mounts and removals

ASSUME GrantAssumption ==
    /\ \A g \in Grantable : g[1] \in GPlugins
    /\ MaxConsumer \in Nat /\ MaxHost \in Nat /\ MaxWorkers \in Nat
    /\ MaxSpawns \in Nat /\ MaxConns \in Nat /\ MaxGrantSteps \in Nat

VARIABLES
    server,      \* active grants of the server
    client,      \* grantedCapabilities, in the object of each plugin's last frame
    listed,      \* the same in the objects of the plugin list
    holding,     \* plugins whose last frame has the very object of the list
    updating,    \* frames that are being replaced
    upcoming,    \* the grants in the objects of their replacements
    posts,       \* consents on their way to the server
    answers,     \* grants on their way back
    orphans,     \* consents whose frame has gone
    revocations, \* revocation events on their way to the client
    up,          \* plugins with a frame and a live session
    registry,    \* serviceRegistry: plugins whose service is provided
    conns,       \* serviceConnections
    connSeq,     \* connections made so far
    invokes,     \* service calls under way
    workers,     \* per plugin: size of the worker ledger
    spawning,    \* per plugin: spawns past their quota check
    peak,        \* history, per plugin: most spawns under way together
    overtaken,   \* history: grants whose revocation overtook their answer
    missed,      \* history: grants whose revocation did not reach an object with them
    grantSteps

netVars == <<server, posts, answers, orphans, revocations, overtaken, missed>>
objectVars == <<client, listed, holding, updating, upcoming>>
grantVars == <<netVars, objectVars, up, registry, conns, connSeq, invokes, workers, spawning, peak,
               grantSteps>>
brokerVars == <<registry, conns, connSeq, invokes>>
workerVars == <<workers, spawning, peak>>

Of(p) == {g \in Grantable : g[1] = p}
Has(p, name) == p \in up /\ <<p, name>> \in client

GrantInit ==
    /\ server \in SUBSET Grantable /\ client = {}
    /\ listed = server /\ holding = {} /\ updating = {} /\ upcoming = {}
    /\ posts = {} /\ answers = {} /\ orphans = {} /\ revocations = {}
    /\ up = {} /\ registry = {} /\ conns = {} /\ connSeq = 0 /\ invokes = {}
    /\ workers = [p \in GPlugins |-> 0]
    /\ spawning = [p \in GPlugins |-> 0] /\ peak = [p \in GPlugins |-> 0]
    /\ overtaken = {} /\ missed = {}
    /\ grantSteps = 0

GrantStep == grantSteps < MaxGrantSteps /\ grantSteps' = grantSteps + 1

-----------------------------------------------------------------------------
(* Frames.                                                                 *)

\* GET /plugins: objects that are deeply equal to those of the last list stay the
\* same objects, unless a revocation came while the list was on its way.
ListPlugins ==
    /\ GrantStep
    /\ listed' = server
    /\ \E same \in SUBSET {p \in holding : listed \cap Of(p) = server \cap Of(p)} :
        holding' = same
    /\ UNCHANGED <<netVars, client, updating, upcoming, up, brokerVars, workerVars>>

\* The frame gets another object: consents on their way are for the old one.
NewObject(p, grants) ==
    /\ client' = (client \ Of(p)) \cup (grants \cap Of(p))
    /\ posts' = posts \ Of(p) /\ answers' = answers \ Of(p)
    /\ orphans' = orphans \cup (posts \cap Of(p))

\* sync and createFrame: the object of the list.
Mount(p) ==
    /\ p \notin up /\ GrantStep
    /\ up' = up \cup {p} /\ holding' = holding \cup {p}
    /\ IF p \in holding THEN UNCHANGED <<client, posts, answers, orphans>>
       ELSE NewObject(p, listed)
    /\ UNCHANGED <<server, revocations, overtaken, missed, listed, updating, upcoming,
                   brokerVars, workerVars>>

\* kernelServiceRemoveByPlugin deletes the services first; a connection is
\* then looked up through the registry, which does not know its service any
\* more.
RemoveByPlugin(p, gone) ==
    /\ registry' = registry \ {p}
    /\ conns' = {c \in conns : c.consumer \notin gone}
RemoveByConsumer(p) ==
    /\ conns' = {c \in conns : c.consumer # p}
    /\ UNCHANGED registry

\* finalizeFrameRemovalNow: the session is disposed (calls of the plugin and
\* to it end, its spawns are aborted, its ledger is cleared), then services.
SessionEnds(p) ==
    /\ RemoveByPlugin(p, {p})
    /\ invokes' = {c \in invokes : p \notin {c.consumer, c.provider}}
    /\ workers' = [workers EXCEPT ![p] = 0]
    /\ spawning' = [spawning EXCEPT ![p] = 0]
    /\ UNCHANGED <<connSeq, peak>>

Unmount(p) ==
    /\ p \in up \ updating /\ GrantStep
    /\ up' = up \ {p}
    /\ SessionEnds(p)
    /\ UNCHANGED <<netVars, objectVars>>

\* handleFrameCrash: a new frame with the object of the old one.
Restart(p) ==
    /\ p \in up \ updating /\ GrantStep
    /\ SessionEnds(p)
    /\ UNCHANGED <<netVars, objectVars, up>>

\* removeFrame, for an object of another version, and 500 ms or a hook later the
\* replacement: with that object, whatever was listed or revoked meanwhile.
BeginUpdate(p) ==
    /\ p \in up \ (updating \cup holding)
    /\ updating' = updating \cup {p}
    /\ upcoming' = (upcoming \ Of(p)) \cup (listed \cap Of(p))
    /\ UNCHANGED <<netVars, client, listed, holding, up, brokerVars, workerVars, grantSteps>>
FinishUpdate(p) ==
    /\ p \in updating /\ updating' = updating \ {p}
    /\ SessionEnds(p)
    /\ NewObject(p, upcoming)
    /\ \E same \in SUBSET {p} :
        /\ same # {} => upcoming \cap Of(p) = listed \cap Of(p)
        /\ holding' = (holding \ {p}) \cup same
    /\ upcoming' = upcoming \ Of(p)
    /\ UNCHANGED <<server, revocations, overtaken, missed, listed, up, grantSteps>>

-----------------------------------------------------------------------------
(* Grants.                                                                 *)

\* An object of a frame, and with it the list's if it is the same.
SetGranted(g) ==
    /\ client' = client \cup {g}
    /\ listed' = IF g[1] \in holding THEN listed \cup {g} ELSE listed
SetRevoked(g) ==
    /\ client' = client \ {g}
    /\ listed' = IF g[1] \in holding THEN listed \ {g} ELSE listed
Objects == client \cup listed \cup upcoming

\* resolveConsent: the user allowed it, persistRuntimeGrant posts it.
Consent(g) ==
    /\ g \notin client \cup posts \cup answers /\ g[1] \in up /\ GrantStep
    /\ posts' = posts \cup {g}
    /\ UNCHANGED <<server, answers, orphans, revocations, overtaken, missed, objectVars, up,
                   brokerVars, workerVars>>

\* grantRuntime of the server's broker: the server has the grant again.
Granted(g) ==
    /\ server' = server \cup {g}
    /\ overtaken' = overtaken \ {g} /\ missed' = missed \ {g}
GrantRuntime(g) ==
    /\ g \in posts /\ posts' = posts \ {g}
    /\ Granted(g)
    /\ answers' = answers \cup {g}
    /\ UNCHANGED <<orphans, revocations, objectVars, up, brokerVars, workerVars, grantSteps>>

\* The request fails, and with it the plugin's.
ConsentFails(g) ==
    /\ g \in posts /\ posts' = posts \ {g}
    /\ UNCHANGED <<server, answers, orphans, revocations, overtaken, missed, objectVars, up,
                   brokerVars, workerVars, grantSteps>>

\* The object that the answer is for is gone: the grant is on the server alone.
OrphanGranted(g) ==
    /\ g \in orphans /\ orphans' = orphans \ {g}
    /\ Granted(g)
    /\ UNCHANGED <<posts, answers, revocations, objectVars, up, brokerVars, workerVars, grantSteps>>

\* The answer is for the object, whether or not its frame is still there.
ConsentAnswered(g) ==
    /\ g \in answers /\ answers' = answers \ {g}
    /\ SetGranted(g)
    /\ UNCHANGED <<server, posts, orphans, revocations, overtaken, missed, holding, updating, upcoming,
                   up, brokerVars, workerVars, grantSteps>>

\* revoke of the server's broker.
Revoke(g) ==
    /\ g \in server /\ GrantStep
    /\ server' = server \ {g}
    /\ revocations' = revocations \cup {g}
    /\ UNCHANGED <<posts, answers, orphans, overtaken, missed, objectVars, up, brokerVars, workerVars>>

\* onAppEventRevoked.  The host's own worker ledger listens for an envelope
\* of the sandbox and is not told.
OnRevoked_KeepsServices(g) ==
    /\ SetRevoked(g)
    /\ UNCHANGED <<registry, conns>>
OnRevoked(g) ==
    IF g[1] \notin up THEN UNCHANGED <<client, listed, registry, conns>>
    ELSE /\ SetRevoked(g)
         /\ CASE g[2] = "services.provide" -> RemoveByPlugin(g[1], {})
              [] g[2] = "services.connect" -> RemoveByConsumer(g[1])
              [] OTHER -> UNCHANGED <<registry, conns>>
RevocationArrives(g) ==
    /\ g \in revocations /\ revocations' = revocations \ {g}
    /\ OnRevoked(g)
    /\ overtaken' = IF g \in answers THEN overtaken \cup {g} ELSE overtaken
    /\ UNCHANGED <<server, posts, answers, orphans, holding, updating, upcoming, up, connSeq, invokes,
                   workerVars, grantSteps>>
    /\ missed' = IF g \in Objects' THEN missed \cup {g} ELSE missed

\* The event stream is only open while there are frames, and does not repeat what
\* a broken connection lost.
RevocationLost(g) ==
    /\ g \in revocations /\ revocations' = revocations \ {g}
    /\ missed' = IF g \in Objects \cup answers THEN missed \cup {g} ELSE missed
    /\ UNCHANGED <<server, posts, answers, orphans, overtaken, objectVars, up, brokerVars,
                   workerVars, grantSteps>>

-----------------------------------------------------------------------------
(* Services.                                                               *)

Provide(p) ==
    /\ Has(p, "services.provide") /\ p \notin registry
    /\ registry' = registry \cup {p}
    /\ UNCHANGED <<netVars, objectVars, up, conns, connSeq, invokes, workerVars, grantSteps>>

\* kernelServiceRemoveService takes the connections too.
Unprovide(p) ==
    /\ Has(p, "services.provide") /\ p \in registry
    /\ registry' = registry \ {p}
    /\ conns' = {c \in conns : c.provider # p}
    /\ UNCHANGED <<netVars, objectVars, up, connSeq, invokes, workerVars, grantSteps>>

HeldBy(p) == {c \in conns : c.consumer = p}
MayConnect(p, q) ==
    /\ Has(p, "services.connect") /\ q \in registry /\ q \in up
    /\ Cardinality(HeldBy(p)) < MaxConsumer /\ Cardinality(conns) < MaxHost
Connect(p, q) ==
    /\ connSeq < MaxConns /\ MayConnect(p, q)
    /\ connSeq' = connSeq + 1
    /\ conns' = conns \cup {[id |-> connSeq + 1, consumer |-> p, provider |-> q]}
    /\ UNCHANGED <<netVars, objectVars, up, registry, invokes, workerVars, grantSteps>>

\* services.invoke, up to the call of the provider's session ...
InvokeService(c) ==
    /\ c \in conns \ invokes /\ Has(c.consumer, "services.connect")
    /\ c.provider \in registry \cap up
    /\ invokes' = invokes \cup {c}
    /\ UNCHANGED <<netVars, objectVars, up, registry, conns, connSeq, workerVars, grantSteps>>

\* ... which answers, fails, times out or is aborted.
InvokeEnds(c) ==
    /\ c \in invokes /\ invokes' = invokes \ {c}
    /\ UNCHANGED <<netVars, objectVars, up, registry, conns, connSeq, workerVars, grantSteps>>

Disconnect(c) ==
    /\ c \in conns /\ Has(c.consumer, "services.connect")
    /\ conns' = conns \ {c}
    /\ UNCHANGED <<netVars, objectVars, up, registry, connSeq, invokes, workerVars, grantSteps>>

-----------------------------------------------------------------------------
(* Workers.                                                                *)

\* workers.spawn checks the quota, then fetches and streams the bundle.
WithinQuota(p) == workers[p] < MaxWorkers
Spawn(p) ==
    /\ Has(p, "compute.worker") /\ WithinQuota(p) /\ spawning[p] < MaxSpawns
    /\ spawning' = [spawning EXCEPT ![p] = @ + 1]
    /\ peak' = [peak EXCEPT ![p] = Max({@, spawning[p] + 1})]
    /\ UNCHANGED <<netVars, objectVars, up, brokerVars, workers, grantSteps>>
SpawnEnds(p) ==
    /\ spawning[p] > 0
    /\ spawning' = [spawning EXCEPT ![p] = @ - 1]
    /\ \E done \in {0, 1} : workers' = [workers EXCEPT ![p] = @ + done]
    /\ UNCHANGED <<netVars, objectVars, up, brokerVars, peak, grantSteps>>

\* workers.terminate, workers.exited and workers.error.
WorkerGone(p) ==
    /\ workers[p] > 0
    /\ workers' = [workers EXCEPT ![p] = @ - 1]
    /\ UNCHANGED <<netVars, objectVars, up, brokerVars, spawning, peak, grantSteps>>

GrantNext ==
    \/ ListPlugins
    \/ \E p \in GPlugins :
        \/ Mount(p) \/ Unmount(p) \/ Restart(p) \/ BeginUpdate(p) \/ FinishUpdate(p)
        \/ Provide(p) \/ Unprovide(p)
        \/ Spawn(p) \/ SpawnEnds(p) \/ WorkerGone(p)
        \/ \E q \in GPlugins : Connect(p, q)
    \/ \E g \in Grantable :
        \/ Consent(g) \/ GrantRuntime(g) \/ ConsentFails(g) \/ ConsentAnswered(g) \/ OrphanGranted(g)
        \/ Revoke(g) \/ RevocationArrives(g) \/ RevocationLost(g)
    \/ \E c \in conns : InvokeService(c) \/ Disconnect(c)
    \/ \E c \in invokes : InvokeEnds(c)

GrantSpec == GrantInit /\ [][GrantNext]_grantVars

-----------------------------------------------------------------------------

\* A service is only in the registry while its provider has a session and the
\* grant to provide it, whatever was removed or revoked in which order.
ServicesGranted ==
    \A p \in registry : p \in up /\ <<p, "services.provide">> \in client

\* "a removed plugin takes ... the consumer connections pointing at them"
\* (runtime.ts:1860): a connection points at a registered service.
NoDanglingConnection == \A c \in conns : c.provider \in registry

\* A connection ends with its consumer, and its quota holds, so that plugins
\* that come and go do not use up the host's connections.
ConnectionsOwned ==
    /\ \A c \in conns : c.consumer \in up /\ <<c.consumer, "services.connect">> \in client
    /\ \A p \in GPlugins : Cardinality(HeldBy(p)) <= MaxConsumer

\* A frame honours a grant that the server does not have only while news of it is
\* under way, or after one of two races: its revocation overtook the answer to the
\* consent, or was lost, or came while the object with the grant was not a frame's
\* (of a list fetched before, for a frame created after).
ClientFollowsServer ==
    \A g \in client : g[1] \in up =>
        g \in server \cup revocations \cup overtaken \cup missed

\* The same for every grant ("so server and browser agree",
\* capabilityBroker.ts:17).
ClientFollowsServerAlways ==
    \A g \in client : g[1] \in up => g \in server \cup revocations

\* Spawns that overlap can exceed the quota, but by no more than the others
\* that were under way with them.
WorkerQuota == \A p \in GPlugins : workers[p] > 0 => workers[p] < MaxWorkers + peak[p]

\* "Revocation of the compute capability stops dependent workers"
\* (kernel/workers.ts:77): a plugin that does not hold it has no worker.
RevokedHasNoWorkers ==
    \A p \in GPlugins : workers[p] > 0 => <<p, "compute.worker">> \in client

\* What a plugin has depends on what it was granted, in any order of grants,
\* revocations, mounts and removals: services, connections, the client's copy
\* of the grants, and workers.
GrantsGovern ==
    ServicesGranted /\ ConnectionsOwned /\ ClientFollowsServer /\ WorkerQuota
=============================================================================
