--------------------------- MODULE SandboxProofs ---------------------------
(***************************************************************************)
(* The sandbox of backend plugins, proved for every value of its           *)
(* constants: the service that keeps track of the workers of the runtime   *)
(* process, and the answers to the calls that a worker makes of the host.  *)
(***************************************************************************)
EXTENDS RuntimeService, BrokerCalls, FiniteSetTheorems, SequenceTheorems, TLAPS

-----------------------------------------------------------------------------
(* The sandbox runtime service: which process its workers are of.          *)

ActRecs == [plugin : RPlugins \cup {0},
            st : {"idle", "building", "connecting", "pending", "active", "failed", "stuck"},
            gen : Gens \cup {0}, ready : BOOLEAN]
HostFrames == [kind : {"ready", "loaded", "error", "terminated"}, act : Acts]

ServiceTyped ==
    /\ acts \in [Acts -> ActRecs]
    /\ client \in Gens \cup {0} /\ promise \in Gens \cup {0}
    /\ workers \subseteq Acts /\ pluginWorkers \in [RPlugins -> Acts \cup {0}]
    /\ toHost \in [Gens -> Seq(HostFrames)]
    /\ proc \in [Gens -> {"none", "starting", "up", "dead", "gone"}]
    /\ \A a \in Acts : acts[a].st # "idle" => acts[a].plugin \in RPlugins
    /\ \A a \in workers : acts[a].st = "active"

\* While no process that starts is forgotten, there is one at most, and all that
\* waits for it, or runs, is of the process the service is about.
OneProcess ==
    startCut = {} =>
      /\ \A g \in Gens : proc[g] = "starting" => client = 0 /\ promise = g
      /\ promise # 0 /\ client = 0 => proc[promise] = "starting"
      /\ \A a \in Acts :
           /\ acts[a].st = "connecting" => acts[a].gen = promise /\ client = 0 /\ promise # 0
           /\ acts[a].st = "pending" => acts[a].gen = client /\ client # 0
      /\ \A a \in workers : acts[a].gen = client /\ client # 0

\* Unless activations of a plugin overlapped, one of it waits or one of it runs.
OneWorker ==
    \A a \in Acts : Waiting(a) /\ acts[a].plugin \notin overlapped =>
      /\ \A b \in Acts : Waiting(b) /\ acts[b].plugin = acts[a].plugin => b = a
      /\ \A b \in workers : acts[b].plugin # acts[a].plugin

ServiceInv == ServiceTyped /\ OneProcess /\ OneWorker /\ IndexAgrees

LEMMA NumbersAre == 0 \notin Acts /\ 0 \notin Gens
  BY RuntimeAssumption DEF Acts, Gens

LEMMA InitService == RuntimeInit => ServiceInv
  <1> SUFFICES ASSUME RuntimeInit PROVE ServiceInv
    OBVIOUS
  <1>1. /\ \A a \in Acts : acts[a] \in ActRecs /\ acts[a].st = "idle"
        /\ acts \in [Acts -> ActRecs]
    BY DEF RuntimeInit, ActRecs
  <1>2. ServiceTyped
    BY <1>1 DEF ServiceTyped, RuntimeInit
  <1> QED
    BY <1>1, <1>2, NumbersAre DEF RuntimeInit, ServiceInv, OneProcess, OneWorker, IndexAgrees, Waiting

\* Frames for the host keep their type.
LEMMA FramesAre ==
  ASSUME ServiceTyped, NEW a \in Acts, NEW g,
         NEW kind \in {"ready", "loaded", "error", "terminated"}
  PROVE  Pushed(g, kind, a) \in [Gens -> Seq(HostFrames)]
  <1>1. toHost \in [Gens -> Seq(HostFrames)] /\ [kind |-> kind, act |-> a] \in HostFrames
    BY DEF ServiceTyped, HostFrames
  <1>2. FrameTo(toHost, g, kind, a) \in [Gens -> Seq(HostFrames)]
    <2>1. CASE g \in Gens
      <3>1. Append(toHost[g], [kind |-> kind, act |-> a]) \in Seq(HostFrames)
        BY <1>1, <2>1
      <3> QED
        BY <1>1, <2>1, <3>1 DEF FrameTo
    <2>2. CASE g \notin Gens
      BY <1>1, <2>2 DEF FrameTo
    <2> QED
      BY <2>1, <2>2
  <1> QED
    BY <1>1, <1>2 DEF Pushed

\* Activations go on or end; none begins, and what the service lists stays.
LEMMA ActsMove ==
  ASSUME ServiceInv, UNCHANGED <<workers, pluginWorkers, overlapped>>,
         acts' \in [Acts -> ActRecs], toHost' \in [Gens -> Seq(HostFrames)],
         proc' \in [Gens -> {"none", "starting", "up", "dead", "gone"}],
         client' \in Gens \cup {0}, promise' \in Gens \cup {0},
         \A a \in Acts :
           /\ acts'[a].plugin = acts[a].plugin
           /\ Waiting(a)' => Waiting(a)
           /\ acts[a].st = "active" <=> acts'[a].st = "active"
           /\ acts[a].st = "idle" <=> acts'[a].st = "idle"
  PROVE  ServiceTyped' /\ OneWorker' /\ IndexAgrees'
  <1>1. ServiceTyped'
    BY DEF ServiceInv, ServiceTyped
  <1>2. \A a \in workers : a \in Acts
    BY DEF ServiceInv, ServiceTyped
  <1>3. OneWorker'
    BY <1>2 DEF ServiceInv, OneWorker
  <1>4. IndexAgrees'
    BY <1>2, NumbersAre DEF ServiceInv, IndexAgrees
  <1> QED
    BY <1>1, <1>3, <1>4

\* A set of activations fails.
LEMMA EndedAre ==
  ASSUME ServiceTyped, NEW s
  PROVE  /\ Ended(s) \in [Acts -> ActRecs]
         /\ \A a \in Acts :
              /\ a \notin s => Ended(s)[a] = acts[a]
              /\ Ended(s)[a].plugin = acts[a].plugin /\ Ended(s)[a].gen = acts[a].gen
              /\ a \in s => Ended(s)[a].st = "failed"
  <1>1. \A a \in Acts : acts[a] \in ActRecs
    BY DEF ServiceTyped
  <1>2. \A a \in Acts : /\ [acts[a] EXCEPT !.st = "failed"] \in ActRecs
                        /\ [acts[a] EXCEPT !.st = "failed"].plugin = acts[a].plugin
                        /\ [acts[a] EXCEPT !.st = "failed"].gen = acts[a].gen
                        /\ [acts[a] EXCEPT !.st = "failed"].st = "failed"
    BY <1>1 DEF ActRecs
  <1> QED
    BY <1>1, <1>2 DEF Ended

\* A step of a runtime process: what the service knows stays.
LEMMA RuntimeStep ==
  ASSUME ServiceInv, UNCHANGED hostVars, toHost' \in [Gens -> Seq(HostFrames)],
         proc' \in [Gens -> {"none", "starting", "up", "dead", "gone"}],
         \A g \in Gens : proc'[g] = "starting" <=> proc[g] = "starting"
  PROVE  ServiceInv'
  <1>0. UNCHANGED <<acts, client, promise, workers, pluginWorkers, startCut, overlapped>>
    BY DEF hostVars
  <1>1. ServiceTyped'
    BY <1>0 DEF ServiceInv, ServiceTyped
  <1>2. OneProcess'
    BY <1>0 DEF ServiceInv, ServiceTyped, OneProcess
  <1>3. OneWorker' /\ IndexAgrees'
    BY <1>0 DEF ServiceInv, OneWorker, IndexAgrees, Waiting
  <1> QED
    BY <1>1, <1>2, <1>3 DEF ServiceInv

LEMMA ProcDies ==
  ASSUME ServiceInv, NEW g \in Gens, proc[g] = "up", Dies(g), UNCHANGED <<hostVars, toHost>>
  PROVE  ServiceInv'
  <1>1. proc' = [proc EXCEPT ![g] = "dead"]
        /\ proc \in [Gens -> {"none", "starting", "up", "dead", "gone"}]
        /\ toHost \in [Gens -> Seq(HostFrames)]
    BY DEF Dies, ServiceInv, ServiceTyped
  <1> QED
    BY <1>1, RuntimeStep

LEMMA ProcRuntime ==
  ASSUME ServiceInv, NEW g \in Gens, RuntimeReceives(g) \/ Crash(g)
  PROVE  ServiceInv'
  <1>1. /\ UNCHANGED <<hostVars, toHost>>
        /\ UNCHANGED proc \/ (proc[g] = "up" /\ Dies(g))
    BY DEF RuntimeReceives, Crash
  <1>2. CASE UNCHANGED proc
    BY <1>1, <1>2, RuntimeStep DEF ServiceInv, ServiceTyped
  <1> QED
    BY <1>1, <1>2, ProcDies

LEMMA ProcWorkers ==
  ASSUME ServiceInv, NEW a \in Acts,
         \/ WorkerRuns(a) \/ ThreadDies(a) \/ GraceOver(a)
         \/ SupervisorReceives(a) \/ ThreadExitSeen(a)
  PROVE  ServiceInv'
  <1>1. UNCHANGED <<hostVars, proc>>
    BY DEF WorkerRuns, ThreadDies, GraceOver, ThreadEnds, SupervisorReceives, ThreadExitSeen
  <1>2. \/ toHost' = toHost
        \/ \E kind \in {"ready", "loaded", "error", "terminated"} :
             toHost' = Pushed(acts[a].gen, kind, a)
    <2>1. CASE SupervisorReceives(a)
      <3>1. CASE Head(portUp[a]) = "ready" /\ HardenedReady(a)
        BY <3>1 DEF HardenedReady
      <3>2. CASE /\ Head(portUp[a]) \in {"loaded", "error"}
                 /\ toHost' = Pushed(acts[a].gen, Head(portUp[a]), a)
        BY <3>2
      <3> QED
        BY <2>1, <3>1, <3>2 DEF SupervisorReceives
    <2>2. CASE ThreadExitSeen(a)
      BY <2>2 DEF ThreadExitSeen
    <2>3. CASE WorkerRuns(a) \/ ThreadDies(a) \/ GraceOver(a)
      BY <2>3 DEF WorkerRuns, ThreadDies, GraceOver, ThreadEnds
    <2> QED
      BY <2>1, <2>2, <2>3
  <1>3. toHost' \in [Gens -> Seq(HostFrames)]
    <2>1. ServiceTyped /\ toHost \in [Gens -> Seq(HostFrames)]
      BY DEF ServiceInv, ServiceTyped
    <2>2. \A g : \A kind \in {"ready", "loaded", "error", "terminated"} :
            Pushed(g, kind, a) \in [Gens -> Seq(HostFrames)]
      BY <2>1, FramesAre
    <2> QED
      BY <2>1, <2>2, <1>2
  <1> QED
    BY <1>1, <1>3, RuntimeStep DEF ServiceInv, ServiceTyped

-----------------------------------------------------------------------------
(* The service.                                                            *)

LEMMA ProcActivate ==
  ASSUME ServiceInv, NEW a \in Acts, NEW p \in RPlugins, Activate(a, p)
  PROVE  ServiceInv'
  <1> DEFINE st == IF pluginWorkers[p] # 0 THEN "failed" ELSE "building"
             d == [acts[a] EXCEPT !.plugin = p, !.st = st]
  <1>0. /\ acts[a].st = "idle" /\ acts' = [acts EXCEPT ![a] = d]
        /\ overlapped' = IF \E b \in Acts : acts[b].plugin = p /\ Waiting(b)
                         THEN overlapped \cup {p} ELSE overlapped
        /\ UNCHANGED <<client, promise, workers, pluginWorkers, startCut, proc, toHost>>
    BY DEF Activate
  <1>1. acts \in [Acts -> ActRecs] /\ workers \subseteq Acts /\ a \notin workers
    BY <1>0 DEF ServiceInv, ServiceTyped
  <1>2. d \in ActRecs /\ d.plugin = p /\ d.st = st /\ st \in {"failed", "building"}
    BY <1>1 DEF ActRecs
  <1>3. acts' \in [Acts -> ActRecs] /\ acts'[a] = d /\ \A b \in Acts : b # a => acts'[b] = acts[b]
    BY <1>0, <1>1, <1>2
  <1> HIDE DEF d
  <1>4. ServiceTyped'
    <2>1. \A b \in workers : acts'[b].st = "active"
      BY <1>1, <1>3 DEF ServiceInv, ServiceTyped
    <2>2. \A b \in Acts : acts'[b].st # "idle" => acts'[b].plugin \in RPlugins
      BY <1>2, <1>3 DEF ServiceInv, ServiceTyped
    <2> QED
      BY <2>1, <2>2, <1>0, <1>3 DEF ServiceInv, ServiceTyped
  <1>5. OneProcess'
    BY <1>0, <1>1, <1>2, <1>3 DEF ServiceInv, OneProcess
  <1>6. IndexAgrees'
    <2>1. \A b \in workers : acts'[b] = acts[b]
      BY <1>1, <1>3
    <2> QED
      BY <2>1, <1>0, <1>1 DEF ServiceInv, IndexAgrees
  <1>7. OneWorker'
    <2> SUFFICES ASSUME NEW x \in Acts, Waiting(x)', acts'[x].plugin \notin overlapped'
                 PROVE  /\ \A b \in Acts : Waiting(b)' /\ acts'[b].plugin = acts'[x].plugin => b = x
                        /\ \A b \in workers : acts'[b].plugin # acts'[x].plugin
      BY <1>0 DEF OneWorker
    <2>1. \A b \in Acts : b # a => (Waiting(b)' <=> Waiting(b))
      BY <1>3 DEF Waiting
    <2>2. CASE x = a
      <3>1. acts'[x].plugin = p /\ p \notin overlapped /\ pluginWorkers[p] = 0
        BY <2>2, <1>0, <1>2, <1>3 DEF Waiting
      <3>2. \A b \in Acts : ~(acts[b].plugin = p /\ Waiting(b))
        BY <2>2, <1>0, <1>2, <1>3
      <3>3. \A b \in workers : acts[b].plugin # p
        BY <3>1, <1>1, NumbersAre DEF ServiceInv, IndexAgrees
      <3> QED
        BY <2>1, <2>2, <3>1, <3>2, <3>3, <1>1, <1>3
    <2>3. CASE x # a
      <3>1. /\ acts'[x] = acts[x] /\ Waiting(x) /\ acts[x].plugin \notin overlapped
        BY <2>1, <2>3, <1>0, <1>3
      <3>2. ~(Waiting(a)' /\ acts'[a].plugin = acts[x].plugin)
        BY <2>3, <3>1, <1>0, <1>2, <1>3
      <3> QED
        BY <2>1, <3>1, <3>2, <1>1, <1>3 DEF ServiceInv, OneWorker
    <2> QED
      BY <2>2, <2>3
  <1> QED
    BY <1>4, <1>5, <1>6, <1>7 DEF ServiceInv

LEMMA ProcFails ==
  ASSUME ServiceInv, NEW a \in Acts, BuildFails(a) \/ ActTimeout(a)
  PROVE  ServiceInv'
  <1>0. /\ acts[a].st \in {"building", "pending"}
        /\ UNCHANGED <<client, promise, workers, pluginWorkers, startCut, overlapped, proc, toHost>>
    BY DEF BuildFails, ActTimeout
  <1>1. \/ acts' = Ended({a})
        \/ acts' = [acts EXCEPT ![a].st = "stuck"]
    BY DEF BuildFails, ActTimeout
  <1>2. /\ acts' \in [Acts -> ActRecs]
        /\ \A b \in Acts : b # a => acts'[b] = acts[b]
        /\ acts'[a].plugin = acts[a].plugin /\ acts'[a].gen = acts[a].gen
        /\ acts'[a].st \in {"failed", "stuck"}
    <2>1. CASE acts' = Ended({a})
      BY <2>1, EndedAre DEF ServiceInv
    <2>2. CASE acts' = [acts EXCEPT ![a].st = "stuck"]
      <3> DEFINE d == [acts[a] EXCEPT !.st = "stuck"]
      <3>1. acts \in [Acts -> ActRecs]
        BY DEF ServiceInv, ServiceTyped
      <3>2. d \in ActRecs /\ d.plugin = acts[a].plugin /\ d.gen = acts[a].gen /\ d.st = "stuck"
        BY <3>1 DEF ActRecs
      <3>3. acts' = [acts EXCEPT ![a] = d]
        BY <2>2
      <3> HIDE DEF d
      <3> QED
        BY <3>1, <3>2, <3>3
    <2> QED
      BY <1>1, <2>1, <2>2
  <1>3. ServiceTyped' /\ OneWorker' /\ IndexAgrees'
    <2>1. \A b \in Acts : /\ acts'[b].plugin = acts[b].plugin
                          /\ Waiting(b)' => Waiting(b)
                          /\ acts[b].st = "active" <=> acts'[b].st = "active"
                          /\ acts[b].st = "idle" <=> acts'[b].st = "idle"
      BY <1>0, <1>2 DEF Waiting
    <2> QED
      BY <2>1, <1>0, <1>2, ActsMove DEF ServiceInv, ServiceTyped
  <1>4. OneProcess'
    <2>1. \A b \in Acts : acts'[b].gen = acts[b].gen
                          /\ (acts'[b].st \in {"connecting", "pending"} => acts'[b].st = acts[b].st)
      BY <1>2
    <2>2. workers \subseteq Acts
      BY DEF ServiceInv, ServiceTyped
    <2> QED
      BY <2>1, <2>2, <1>0 DEF ServiceInv, OneProcess
  <1> QED
    BY <1>3, <1>4 DEF ServiceInv

LEMMA ProcBuild ==
  ASSUME ServiceInv, NEW a \in Acts, Build(a)
  PROVE  ServiceInv'
  <1>0. /\ acts[a].st = "building"
        /\ UNCHANGED <<client, workers, pluginWorkers, startCut, overlapped, toHost>>
        /\ acts \in [Acts -> ActRecs] /\ workers \subseteq Acts
        /\ client \in Gens \cup {0} /\ promise \in Gens \cup {0} /\ 0 \notin Gens
        /\ proc \in [Gens -> {"none", "starting", "up", "dead", "gone"}]
        /\ \A b \in workers : acts[b].st = "active"
    BY NumbersAre DEF Build, ServiceInv, ServiceTyped
  <1>1. PICK st \in {"pending", "failed", "connecting"}, g \in Gens :
          /\ acts' = [acts EXCEPT ![a] = [@ EXCEPT !.st = st, !.gen = g]]
          /\ \/ st \in {"pending", "failed"} /\ g = client /\ UNCHANGED <<promise, proc>>
             \/ st = "connecting" /\ client = 0 /\ promise = g /\ UNCHANGED <<promise, proc>>
             \/ /\ st = "connecting" /\ client = 0 /\ promise = 0 /\ promise' = g
                /\ proc' = [proc EXCEPT ![g] = "starting"]
    <2>1. CASE client # 0 /\ Spawned({a}, client) /\ UNCHANGED <<promise, shuttingDown, proc>>
      <3> DEFINE st == IF Connected(client) THEN "pending" ELSE "failed"
      <3>1. acts' = [b \in Acts |-> IF b \in {a} THEN [acts[b] EXCEPT !.gen = client, !.st = st]
                                   ELSE acts[b]]
        BY <2>1 DEF Spawned
      <3>2. st \in {"pending", "failed"} /\ client \in Gens
        BY <2>1, <1>0
      <3> HIDE DEF st
      <3>3. [acts[a] EXCEPT !.gen = client, !.st = st] = [acts[a] EXCEPT !.st = st, !.gen = client]
        BY <1>0 DEF ActRecs
      <3>4. acts' = [acts EXCEPT ![a] = [@ EXCEPT !.st = st, !.gen = client]]
        BY <3>1, <3>3, <1>0
      <3> QED
        BY <3>2, <3>4, <2>1
    <2>2. CASE /\ client = 0 /\ promise # 0
               /\ acts' = [acts EXCEPT ![a] = [@ EXCEPT !.st = "connecting", !.gen = promise]]
               /\ UNCHANGED <<promise, proc, toRuntime>>
      BY <2>2, <1>0
    <2>3. CASE /\ client = 0 /\ promise = 0
               /\ \E g \in Gens :
                    /\ promise' = g
                    /\ proc' = [proc EXCEPT ![g] = "starting"]
                    /\ acts' = [acts EXCEPT ![a] = [@ EXCEPT !.st = "connecting", !.gen = g]]
      BY <2>3
    <2> QED
      BY <2>1, <2>2, <2>3 DEF Build
  <1>2. /\ acts' \in [Acts -> ActRecs]
        /\ \A b \in Acts : b # a => acts'[b] = acts[b]
        /\ acts'[a].plugin = acts[a].plugin /\ acts'[a].gen = g /\ acts'[a].st = st
    <2> DEFINE d == [acts[a] EXCEPT !.st = st, !.gen = g]
    <2>1. d \in ActRecs /\ d.plugin = acts[a].plugin /\ d.gen = g /\ d.st = st
      BY <1>0 DEF ActRecs
    <2>2. acts' = [acts EXCEPT ![a] = d]
      BY <1>1
    <2> HIDE DEF d
    <2> QED
      BY <2>1, <2>2, <1>0
  <1>3. /\ promise' \in Gens \cup {0} /\ client' \in Gens \cup {0}
        /\ proc' \in [Gens -> {"none", "starting", "up", "dead", "gone"}]
        /\ toHost' \in [Gens -> Seq(HostFrames)]
    BY <1>0, <1>1 DEF ServiceInv, ServiceTyped
  <1>4. ServiceTyped' /\ OneWorker' /\ IndexAgrees'
    <2>1. \A b \in Acts : /\ acts'[b].plugin = acts[b].plugin
                          /\ Waiting(b)' => Waiting(b)
                          /\ acts[b].st = "active" <=> acts'[b].st = "active"
                          /\ acts[b].st = "idle" <=> acts'[b].st = "idle"
      BY <1>0, <1>2 DEF Waiting
    <2> QED
      BY <2>1, <1>0, <1>2, <1>3, ActsMove
  <1>5. OneProcess'
    <2> SUFFICES ASSUME startCut = {} PROVE OneProcess'
      BY <1>0 DEF OneProcess
    <2>0. /\ \A h \in Gens : proc[h] = "starting" => client = 0 /\ promise = h
          /\ promise # 0 /\ client = 0 => proc[promise] = "starting"
          /\ \A b \in Acts :
               /\ acts[b].st = "connecting" => acts[b].gen = promise /\ client = 0 /\ promise # 0
               /\ acts[b].st = "pending" => acts[b].gen = client /\ client # 0
          /\ \A b \in workers : acts[b].gen = client /\ client # 0
      BY DEF ServiceInv, OneProcess
    <2>1. CASE UNCHANGED <<promise, proc>>
      BY <2>0, <2>1, <1>0, <1>1, <1>2 DEF OneProcess
    <2>2. CASE /\ st = "connecting" /\ client = 0 /\ promise = 0 /\ promise' = g
               /\ proc' = [proc EXCEPT ![g] = "starting"]
      <3>1. proc'[g] = "starting" /\ \A h \in Gens : h # g => proc'[h] = proc[h]
        BY <2>2, <1>0
      <3> QED
        BY <2>0, <2>2, <3>1, <1>0, <1>1, <1>2 DEF OneProcess
    <2> QED
      BY <2>1, <2>2, <1>1
  <1> QED
    BY <1>4, <1>5 DEF ServiceInv

LEMMA ProcStarts ==
  ASSUME ServiceInv, NEW g \in Gens, StartDone(g) \/ StartFails(g)
  PROVE  ServiceInv'
  <1> DEFINE s == {a \in Acts : acts[a].gen = g /\ acts[a].st = "connecting"}
  <1>0. /\ proc[g] = "starting"
        /\ UNCHANGED <<workers, pluginWorkers, startCut, overlapped, toHost>>
        /\ acts \in [Acts -> ActRecs] /\ workers \subseteq Acts
        /\ client \in Gens \cup {0} /\ promise \in Gens \cup {0} /\ 0 \notin Gens
        /\ proc \in [Gens -> {"none", "starting", "up", "dead", "gone"}]
        /\ \A b \in workers : acts[b].st = "active"
    BY NumbersAre DEF StartDone, StartFails, ServiceInv, ServiceTyped
  <1>1. PICK st \in {"pending", "failed"} :
          /\ acts' = [a \in Acts |-> IF a \in s THEN [acts[a] EXCEPT !.st = st] ELSE acts[a]]
          /\ \/ /\ st = "pending" /\ client' = g /\ promise' = promise
                /\ proc' = [proc EXCEPT ![g] = "up"]
             \/ /\ st = "failed" /\ client' = client /\ promise' = 0
                /\ proc' = [proc EXCEPT ![g] = "gone"]
    <2>1. s = {a \in InProcess(g) : acts[a].st = "connecting"}
      BY DEF InProcess
    <2> HIDE DEF s
    <2>2. CASE StartDone(g)
      BY <2>1, <2>2 DEF StartDone
    <2>3. CASE StartFails(g)
      BY <2>1, <2>3 DEF StartFails, Ended
    <2> QED
      BY <2>2, <2>3
  <1>2. \A a \in Acts : /\ [acts[a] EXCEPT !.st = st] \in ActRecs
                        /\ [acts[a] EXCEPT !.st = st].plugin = acts[a].plugin
                        /\ [acts[a] EXCEPT !.st = st].gen = acts[a].gen
                        /\ [acts[a] EXCEPT !.st = st].st = st
    BY <1>0 DEF ActRecs
  <1>3. /\ acts' \in [Acts -> ActRecs]
        /\ \A a \in Acts : /\ acts'[a].plugin = acts[a].plugin /\ acts'[a].gen = acts[a].gen
                           /\ a \in s => acts'[a].st = st /\ acts[a].st = "connecting"
                           /\ a \notin s => acts'[a] = acts[a]
    BY <1>0, <1>1, <1>2
  <1>4. \A a \in Acts : acts[a].gen = g /\ acts[a].st = "connecting" => a \in s
    OBVIOUS
  <1> HIDE DEF s
  <1>5. /\ promise' \in Gens \cup {0} /\ client' \in Gens \cup {0}
        /\ proc' \in [Gens -> {"none", "starting", "up", "dead", "gone"}]
        /\ toHost' \in [Gens -> Seq(HostFrames)]
        /\ proc'[g] # "starting" /\ \A h \in Gens : h # g => proc'[h] = proc[h]
    BY <1>0, <1>1 DEF ServiceInv, ServiceTyped
  <1>6. ServiceTyped' /\ OneWorker' /\ IndexAgrees'
    <2>1. \A b \in Acts : /\ acts'[b].plugin = acts[b].plugin
                          /\ Waiting(b)' => Waiting(b)
                          /\ acts[b].st = "active" <=> acts'[b].st = "active"
                          /\ acts[b].st = "idle" <=> acts'[b].st = "idle"
      BY <1>3 DEF Waiting
    <2> QED
      BY <2>1, <1>0, <1>3, <1>5, ActsMove
  <1>7. OneProcess'
    <2> SUFFICES ASSUME startCut = {} PROVE OneProcess'
      BY <1>0 DEF OneProcess
    <2>0. /\ \A h \in Gens : proc[h] = "starting" => client = 0 /\ promise = h
          /\ \A b \in Acts :
               /\ acts[b].st = "connecting" => acts[b].gen = promise /\ client = 0 /\ promise # 0
               /\ acts[b].st = "pending" => acts[b].gen = client /\ client # 0
          /\ \A b \in workers : acts[b].gen = client /\ client # 0
      BY DEF ServiceInv, OneProcess
    <2>1. client = 0 /\ promise = g /\ workers = {}
      BY <2>0, <1>0
    <2>2. \A h \in Gens : proc'[h] # "starting"
      BY <2>0, <2>1, <1>5
    <2>3. \A a \in Acts : /\ acts'[a].st # "connecting"
                          /\ acts'[a].st = "pending" => acts'[a].gen = g /\ client' = g
      BY <2>0, <2>1, <1>1, <1>3, <1>4
    <2> QED
      BY <2>1, <2>2, <2>3, <1>0, <1>1 DEF OneProcess
  <1> QED
    BY <1>6, <1>7 DEF ServiceInv

\* The service forgets its process, its workers and its index.
LEMMA Forgotten ==
  ASSUME ServiceInv, acts' = Ended(PendingActs), workers' = {},
         pluginWorkers' = [p \in RPlugins |-> 0], client' = 0, promise' = 0,
         \E cause : CutBy(cause), overlapped' = overlapped,
         toHost' \in [Gens -> Seq(HostFrames)],
         proc' \in [Gens -> {"none", "starting", "up", "dead", "gone"}],
         \A g \in Gens : proc'[g] = "starting" => proc[g] = "starting"
  PROVE  ServiceInv'
  <1>1. /\ acts' \in [Acts -> ActRecs]
        /\ \A a \in Acts : /\ acts'[a].plugin = acts[a].plugin /\ acts'[a].gen = acts[a].gen
                           /\ acts'[a] = acts[a] \/ acts'[a].st = "failed"
                           /\ acts'[a].st # "pending"
                           /\ acts'[a].st = "idle" <=> acts[a].st = "idle"
    BY EndedAre DEF ServiceInv, PendingActs
  <1>2. ServiceTyped'
    BY <1>1 DEF ServiceInv, ServiceTyped
  <1>3. OneProcess'
    <2> SUFFICES ASSUME startCut' = {} PROVE OneProcess'
      BY DEF OneProcess
    <2>1. startCut = {} /\ \A g \in Gens : proc[g] # "starting"
      BY DEF CutBy
    <2>2. \A a \in Acts : acts[a].st = "connecting" =>
            acts[a].gen = promise /\ client = 0 /\ promise # 0 /\ proc[promise] = "starting"
      BY <2>1 DEF ServiceInv, OneProcess
    <2>3. \A a \in Acts : acts[a].st # "connecting"
      BY <2>1, <2>2 DEF ServiceInv, ServiceTyped
    <2>4. \A a \in Acts : acts'[a].st # "connecting"
      BY <2>3, <1>1
    <2> QED
      BY <2>1, <2>4, <1>1 DEF OneProcess
  <1>4. OneWorker'
    BY <1>1 DEF ServiceInv, OneWorker, Waiting
  <1>5. IndexAgrees'
    BY DEF IndexAgrees
  <1> QED
    BY <1>2, <1>3, <1>4, <1>5 DEF ServiceInv

LEMMA ProcExitSeen ==
  ASSUME ServiceInv, NEW g \in Gens, ExitSeen(g)
  PROVE  ServiceInv'
  <1>1. /\ proc[g] = "dead" /\ proc' = [proc EXCEPT ![g] = "gone"]
        /\ toHost' = [toHost EXCEPT ![g] = <<>>] /\ overlapped' = overlapped
        /\ toHost \in [Gens -> Seq(HostFrames)]
        /\ proc \in [Gens -> {"none", "starting", "up", "dead", "gone"}]
    BY DEF ExitSeen, ServiceInv, ServiceTyped
  <1>2. /\ toHost' \in [Gens -> Seq(HostFrames)]
        /\ proc' \in [Gens -> {"none", "starting", "up", "dead", "gone"}]
        /\ \A h \in Gens : proc'[h] = "starting" <=> proc[h] = "starting"
    BY <1>1
  <1>3. CASE shuttingDown
    <2>1. UNCHANGED hostVars
      BY <1>3 DEF ExitSeen, hostVars
    <2> QED
      BY <2>1, <1>2, RuntimeStep
  <1>4. CASE ~shuttingDown
    BY <1>1, <1>2, <1>4, Forgotten DEF ExitSeen, ResetHost
  <1> QED
    BY <1>3, <1>4

LEMMA ProcShutdown ==
  ASSUME ServiceInv, Shutdown
  PROVE  ServiceInv'
  <1>1. /\ toHost' \in [Gens -> Seq(HostFrames)]
        /\ proc' \in [Gens -> {"none", "starting", "up", "dead", "gone"}] /\ proc' = proc
    BY DEF Shutdown, ServiceInv, ServiceTyped
  <1> QED
    BY <1>1, Forgotten DEF Shutdown

\* A pending activation fails.
LEMMA FailedAre ==
  ASSUME ServiceInv, NEW a \in Acts, acts[a].st = "pending", acts' = Ended({a})
  PROVE  /\ acts' \in [Acts -> ActRecs]
         /\ \A b \in Acts :
              /\ acts'[b].plugin = acts[b].plugin /\ acts'[b].gen = acts[b].gen
              /\ acts'[b].st = acts[b].st \/ (acts[b].st = "pending" /\ acts'[b].st = "failed")
  <1>1. /\ acts' \in [Acts -> ActRecs]
        /\ \A b \in Acts :
              /\ b \notin {a} => acts'[b] = acts[b]
              /\ acts'[b].plugin = acts[b].plugin /\ acts'[b].gen = acts[b].gen
              /\ b \in {a} => acts'[b].st = "failed"
    BY EndedAre DEF ServiceInv
  <1> QED
    BY <1>1

LEMMA ProcHostReceives ==
  ASSUME ServiceInv, NEW g \in Gens, HostReceives(g)
  PROVE  ServiceInv'
  <1>0. /\ UNCHANGED <<client, promise, startCut, overlapped, proc>>
        /\ acts \in [Acts -> ActRecs] /\ workers \subseteq Acts
        /\ pluginWorkers \in [RPlugins -> Acts \cup {0}]
        /\ client \in Gens \cup {0} /\ promise \in Gens \cup {0}
        /\ proc \in [Gens -> {"none", "starting", "up", "dead", "gone"}]
        /\ \A b \in workers : acts[b].st = "active"
        /\ \A b \in Acts : acts[b].st # "idle" => acts[b].plugin \in RPlugins
    BY DEF HostReceives, ServiceInv, ServiceTyped
  <1>1. /\ Head(toHost[g]) \in HostFrames /\ toHost' \in [Gens -> Seq(HostFrames)]
    <2>1. /\ toHost \in [Gens -> Seq(HostFrames)] /\ toHost[g] # <<>>
          /\ toHost' = [toHost EXCEPT ![g] = Tail(@)]
      BY DEF HostReceives, ServiceInv, ServiceTyped
    <2>2. toHost[g] \in Seq(HostFrames)
      BY <2>1
    <2>3. Head(toHost[g]) \in HostFrames /\ Tail(toHost[g]) \in Seq(HostFrames)
      BY <2>1, <2>2
    <2> QED
      BY <2>1, <2>3
  <1>2. PICK a \in Acts : WorkerReady(a) \/ GraphLoaded(a) \/ GraphError(a) \/ WorkerTerminated(a)
    BY <1>1 DEF HostReceives, HostFrames
  <1>3. CASE WorkerReady(a) \/ GraphError(a)
    <2>1. /\ UNCHANGED <<workers, pluginWorkers>>
          /\ acts' \in [Acts -> ActRecs]
          /\ \A b \in Acts :
               /\ acts'[b].plugin = acts[b].plugin /\ acts'[b].gen = acts[b].gen
               /\ acts'[b].st = acts[b].st \/ (acts[b].st = "pending" /\ acts'[b].st = "failed")
      <3>1. CASE WorkerReady(a)
        <4> DEFINE d == [acts[a] EXCEPT !.ready = TRUE]
        <4>1. d \in ActRecs /\ d.plugin = acts[a].plugin /\ d.gen = acts[a].gen /\ d.st = acts[a].st
          BY <1>0 DEF ActRecs
        <4>2. acts' = [acts EXCEPT ![a] = d] \/ acts' = acts
          BY <3>1 DEF WorkerReady
        <4>3. UNCHANGED <<workers, pluginWorkers>>
          BY <3>1 DEF WorkerReady
        <4> HIDE DEF d
        <4>4. CASE acts' = acts
          BY <4>3, <4>4, <1>0
        <4>5. CASE acts' = [acts EXCEPT ![a] = d]
          <5>1. acts' \in [Acts -> ActRecs] /\ acts'[a] = d /\ \A b \in Acts : b # a => acts'[b] = acts[b]
            BY <4>1, <4>5, <1>0
          <5> QED
            BY <4>1, <4>3, <5>1
        <4> QED
          BY <4>2, <4>4, <4>5
      <3>2. CASE GraphError(a)
        <4>1. UNCHANGED <<workers, pluginWorkers>>
              /\ (acts' = acts \/ (acts[a].st = "pending" /\ acts' = Ended({a})))
          BY <3>2 DEF GraphError
        <4>2. CASE acts[a].st = "pending" /\ acts' = Ended({a})
          BY <4>1, <4>2, FailedAre
        <4>3. CASE acts' = acts
          BY <4>1, <4>3, <1>0
        <4> QED
          BY <4>1, <4>2, <4>3
      <3> QED
        BY <1>3, <3>1, <3>2
    <2>2. \A b \in Acts : /\ acts'[b].plugin = acts[b].plugin
                          /\ Waiting(b)' => Waiting(b)
                          /\ acts[b].st = "active" <=> acts'[b].st = "active"
                          /\ acts[b].st = "idle" <=> acts'[b].st = "idle"
      BY <2>1 DEF Waiting
    <2>3. ServiceTyped' /\ OneWorker' /\ IndexAgrees'
      BY <2>1, <2>2, <1>0, <1>1, ActsMove
    <2>4. OneProcess'
      BY <2>1, <1>0 DEF ServiceInv, OneProcess
    <2> QED
      BY <2>3, <2>4 DEF ServiceInv
  <1>4. CASE WorkerTerminated(a)
    <2>1. /\ acts' \in [Acts -> ActRecs]
          /\ \A b \in Acts :
               /\ acts'[b].plugin = acts[b].plugin /\ acts'[b].gen = acts[b].gen
               /\ acts'[b].st = acts[b].st \/ (acts[b].st = "pending" /\ acts'[b].st = "failed")
      <3>1. acts' = acts \/ (acts[a].st = "pending" /\ acts' = Ended({a}))
        BY <1>4 DEF WorkerTerminated
      <3>2. CASE acts[a].st = "pending" /\ acts' = Ended({a})
        BY <3>2, FailedAre
      <3>3. CASE acts' = acts
        BY <3>3, <1>0
      <3> QED
        BY <3>1, <3>2, <3>3
    <2>2. /\ workers' = workers \ {a}
          /\ pluginWorkers' = IF a \in workers THEN [pluginWorkers EXCEPT ![acts[a].plugin] = 0]
                              ELSE pluginWorkers
      BY <1>4 DEF WorkerTerminated
    <2>3. a \in workers => acts[a].plugin \in RPlugins
      BY <1>0
    <2>4. /\ pluginWorkers' \in [RPlugins -> Acts \cup {0}]
          /\ \A p \in RPlugins : pluginWorkers'[p] =
               IF a \in workers /\ p = acts[a].plugin THEN 0 ELSE pluginWorkers[p]
      BY <1>0, <2>2, <2>3
    <2>5. ServiceTyped'
      BY <2>1, <2>2, <2>4, <1>0, <1>1 DEF ServiceTyped
    <2>6. OneProcess'
      BY <2>1, <2>2, <1>0 DEF ServiceInv, OneProcess
    <2>7. OneWorker'
      <3>1. \A b \in Acts : Waiting(b)' => Waiting(b)
        BY <2>1 DEF Waiting
      <3> QED
        BY <3>1, <2>1, <2>2, <1>0 DEF ServiceInv, OneWorker
    <2>8. IndexAgrees'
      <3>1. ASSUME NEW p \in RPlugins, pluginWorkers'[p] # 0
            PROVE  pluginWorkers'[p] \in workers' /\ acts'[pluginWorkers'[p]].plugin = p
        <4>1. /\ pluginWorkers'[p] = pluginWorkers[p] /\ pluginWorkers[p] \in workers
              /\ acts[pluginWorkers[p]].plugin = p
          BY <3>1, <2>4 DEF ServiceInv, IndexAgrees
        <4>2. pluginWorkers[p] # a
          BY <3>1, <4>1, <2>4
        <4> QED
          BY <4>1, <4>2, <2>1, <2>2, <1>0
      <3>2. ASSUME NEW b \in workers'
            PROVE  pluginWorkers'[acts'[b].plugin] = b \/ acts'[b].plugin \in overlapped
        <4>1. /\ b \in workers /\ b # a /\ acts'[b].plugin = acts[b].plugin
              /\ acts[b].plugin \in RPlugins
              /\ pluginWorkers[acts[b].plugin] = b \/ acts[b].plugin \in overlapped
          BY <2>1, <2>2, <1>0 DEF ServiceInv, IndexAgrees
        <4>2. CASE a \in workers /\ acts[b].plugin = acts[a].plugin
          BY <4>1, <4>2, <2>4 DEF ServiceInv, IndexAgrees
        <4> QED
          BY <4>1, <4>2, <2>4
      <3> QED
        BY <3>1, <3>2, <1>0 DEF IndexAgrees
    <2> QED
      BY <2>5, <2>6, <2>7, <2>8 DEF ServiceInv
  <1>5. CASE GraphLoaded(a)
    <2>1. CASE acts[a].st # "pending"
      <3>1. UNCHANGED <<acts, workers, pluginWorkers>>
        BY <1>5, <2>1 DEF GraphLoaded
      <3>2. ServiceTyped' /\ OneWorker' /\ IndexAgrees'
        BY <3>1, <1>0, <1>1, ActsMove DEF Waiting
      <3>3. OneProcess'
        BY <3>1, <1>0 DEF ServiceInv, OneProcess
      <3> QED
        BY <3>2, <3>3 DEF ServiceInv
    <2>2. CASE acts[a].st = "pending"
      <3> DEFINE p == acts[a].plugin
                 d == [acts[a] EXCEPT !.st = "active"]
      <3>1. /\ acts' = [acts EXCEPT ![a] = d] /\ workers' = workers \cup {a}
            /\ pluginWorkers' = [pluginWorkers EXCEPT ![p] = a]
        BY <1>5, <2>2 DEF GraphLoaded
      <3>2. d \in ActRecs /\ d.plugin = p /\ d.gen = acts[a].gen /\ d.st = "active"
        BY <1>0 DEF ActRecs
      <3>3. p \in RPlugins /\ Waiting(a) /\ a \notin workers
        BY <2>2, <1>0 DEF Waiting
      <3> HIDE DEF d
      <3>4. /\ acts' \in [Acts -> ActRecs] /\ acts'[a] = d
            /\ \A b \in Acts : b # a => acts'[b] = acts[b]
            /\ \A b \in Acts : acts'[b].plugin = acts[b].plugin /\ acts'[b].gen = acts[b].gen
        BY <3>1, <3>2, <1>0
      <3>5. /\ pluginWorkers' \in [RPlugins -> Acts \cup {0}]
            /\ \A q \in RPlugins : pluginWorkers'[q] = IF q = p THEN a ELSE pluginWorkers[q]
        BY <3>1, <3>3, <1>0
      <3>6. ServiceTyped'
        BY <3>1, <3>2, <3>3, <3>4, <3>5, <1>0, <1>1 DEF ServiceTyped
      <3>7. OneProcess'
        <4>1. startCut = {} => acts[a].gen = client /\ client # 0
          BY <2>2 DEF ServiceInv, OneProcess
        <4> QED
          BY <4>1, <3>1, <3>2, <3>4, <1>0 DEF ServiceInv, OneProcess
      <3>8. p \notin overlapped => /\ \A b \in Acts : Waiting(b) /\ acts[b].plugin = p => b = a
                                   /\ \A b \in workers : acts[b].plugin # p
        BY <3>3 DEF ServiceInv, OneWorker
      <3>9. OneWorker'
        <4> SUFFICES ASSUME NEW x \in Acts, Waiting(x)', acts'[x].plugin \notin overlapped
                     PROVE  /\ \A b \in Acts : Waiting(b)' /\ acts'[b].plugin = acts'[x].plugin => b = x
                            /\ \A b \in workers' : acts'[b].plugin # acts'[x].plugin
          BY <1>0 DEF OneWorker
        <4>1. x # a /\ Waiting(x) /\ \A b \in Acts : Waiting(b)' => Waiting(b)
          BY <3>2, <3>4 DEF Waiting
        <4>2. acts[x].plugin # p
          BY <4>1, <3>4, <3>8
        <4> QED
          BY <4>1, <4>2, <3>1, <3>4, <1>0 DEF ServiceInv, OneWorker
      <3>10. IndexAgrees'
        <4>1. ASSUME NEW q \in RPlugins, pluginWorkers'[q] # 0
              PROVE  pluginWorkers'[q] \in workers' /\ acts'[pluginWorkers'[q]].plugin = q
          <5>1. CASE q = p
            BY <5>1, <3>1, <3>4, <3>5
          <5>2. CASE q # p
            BY <4>1, <5>2, <3>1, <3>4, <3>5, <1>0 DEF ServiceInv, IndexAgrees
          <5> QED
            BY <5>1, <5>2
        <4>2. ASSUME NEW b \in workers'
              PROVE  pluginWorkers'[acts'[b].plugin] = b \/ acts'[b].plugin \in overlapped
          <5>1. CASE b = a
            BY <5>1, <3>3, <3>4, <3>5
          <5>2. CASE b # a
            <6>1. /\ b \in workers /\ acts'[b].plugin = acts[b].plugin /\ acts[b].plugin \in RPlugins
                  /\ pluginWorkers[acts[b].plugin] = b \/ acts[b].plugin \in overlapped
              BY <5>2, <3>1, <3>4, <1>0 DEF ServiceInv, IndexAgrees
            <6> QED
              BY <6>1, <3>5, <3>8
          <5> QED
            BY <5>1, <5>2
        <4> QED
          BY <4>1, <4>2, <1>0 DEF IndexAgrees
      <3> QED
        BY <3>6, <3>7, <3>9, <3>10 DEF ServiceInv
    <2> QED
      BY <2>1, <2>2
  <1> QED
    BY <1>2, <1>3, <1>4, <1>5

LEMMA NextService == ServiceInv /\ [RuntimeNext]_runtimeVars => ServiceInv'
  <1> SUFFICES ASSUME ServiceInv, [RuntimeNext]_runtimeVars PROVE ServiceInv'
    OBVIOUS
  <1>1. CASE UNCHANGED runtimeVars
    BY <1>1, RuntimeStep DEF runtimeVars, ServiceInv, ServiceTyped
  <1>2. ASSUME NEW p \in RPlugins, Deactivate(p) PROVE ServiceInv'
    BY <1>2, RuntimeStep DEF Deactivate, ServiceInv, ServiceTyped
  <1> QED
    BY <1>1, <1>2, ProcActivate, ProcFails, ProcBuild, ProcStarts, ProcHostReceives, ProcExitSeen,
       ProcShutdown, ProcRuntime, ProcWorkers DEF RuntimeNext

(* A worker that the service lists is one of the process it talks to, and  *)
(* index and list agree, for any number of activations, processes,         *)
(* shutdowns and faults, and for every size of the outbox.                 *)
THEOREM WorkersAreTracked == RuntimeSpec => []WorkersTracked
  <1>1. ServiceInv => WorkersTracked
    BY DEF ServiceInv, OneProcess, WorkersTracked, WorkersReachable
  <1>2. ServiceInv /\ [RuntimeNext]_runtimeVars => ServiceInv'
    BY NextService
  <1> QED
    BY InitService, <1>1, <1>2, PTL DEF RuntimeSpec

-----------------------------------------------------------------------------
(* The broker calls of a worker: how their answers travel.                 *)

Answers == [kind : {"ok", "failed", "part"}, call : BCalls, seq : Nat]
ControlFrames == [kind : {"ok", "failed"}, call : BCalls, seq : Nat]
                 \cup [kind : {"revoke"}, call : {NoCall}, seq : Nat]

BrokerTyped ==
    /\ outcome \in [BCalls -> {"idle", "pending", "ok", "failed"}]
    /\ posted \subseteq BCalls /\ hostCalls \subseteq BCalls /\ cut \subseteq BCalls
    /\ inFlight \subseteq BCalls /\ IsFiniteSet(inFlight)
    /\ controlUp \in Seq(BCalls) /\ dataUp \in Seq(BCalls) /\ credits \in Seq(BCalls)
    /\ controlDown \in Seq(ControlFrames) /\ dataDown \in Seq(Answers) /\ port \in Seq(Answers)
    /\ DOMAIN streams \subseteq BCalls /\ \A c \in DOMAIN streams : streams[c] \in Nat
    /\ DOMAIN parts \subseteq BCalls /\ \A c \in DOMAIN parts : parts[c] \in Nat
    /\ ~workerUp => \A c \in BCalls : outcome[c] # "pending"

\* A call in a queue of calls, and the parts of its answer in a queue of answers.
NoneAt(s, c) == \A i \in DOMAIN s : s[i] # c
OneAt(s, c) == \A i, j \in DOMAIN s : s[i] = c /\ s[j] = c => i = j
IsPart(m, c) == m.kind = "part" /\ m.call = c
NoPart(s, c) == \A i \in DOMAIN s : ~IsPart(s[i], c)
OnePart(s, c, n) ==
    \A i, j \in DOMAIN s : IsPart(s[i], c) /\ IsPart(s[j], c) => i = j /\ s[i].seq = n

\* A call is in one place on its way to the host, once.
Asking(c) == c \in posted \/ ~NoneAt(controlUp, c) \/ ~NoneAt(dataUp, c) \/ c \in hostCalls
AskedOnce ==
    \A c \in BCalls :
      /\ outcome[c] = "idle" => ~Asking(c)
      /\ c \in posted => NoneAt(controlUp, c) /\ NoneAt(dataUp, c) /\ c \notin hostCalls
      /\ c \in hostCalls => NoneAt(controlUp, c) /\ NoneAt(dataUp, c)
      /\ OneAt(controlUp, c) /\ OneAt(dataUp, c)
      /\ NoneAt(controlUp, c) \/ NoneAt(dataUp, c)

\* Nothing is streamed to a call that the host has not decided.
Unanswered(c) ==
    /\ NoPart(port, c) /\ NoPart(dataDown, c) /\ NoneAt(credits, c)
    /\ c \notin DOMAIN streams /\ c \notin DOMAIN parts
NothingEarly == \A c \in BCalls : outcome[c] = "idle" \/ Asking(c) => Unanswered(c)

\* Of a call that waits, one part or one credit is under way at a time.
Received(c) == IF c \in DOMAIN parts THEN parts[c] ELSE 0
OneUnderWay ==
    \A c \in BCalls : outcome[c] = "pending" =>
      /\ OnePart(port, c, Received(c)) /\ OnePart(dataDown, c, Received(c))
      /\ OneAt(credits, c)
      /\ NoPart(port, c) \/ NoPart(dataDown, c)
      /\ ~NoneAt(credits, c) => NoPart(port, c) /\ NoPart(dataDown, c)
      /\ c \in DOMAIN streams =>
           /\ ~NoPart(port, c) \/ ~NoPart(dataDown, c) => streams[c] = Received(c) + 1
           /\ ~NoneAt(credits, c) => streams[c] = Received(c)

\* The first message that waits in the port about a call that a revocation ended
\* says so.
FirstFails(s, c) ==
    \E i \in DOMAIN s : /\ s[i].kind = "failed" /\ s[i].call = c
                        /\ \A j \in DOMAIN s : j < i => s[j].call # c
CutFirst ==
    \A c \in cut : outcome[c] = "failed" \/ (outcome[c] = "pending" /\ FirstFails(port, c))

BrokerInv == BrokerTyped /\ AskedOnce /\ NothingEarly /\ OneUnderWay /\ CutFirst

-----------------------------------------------------------------------------
(* Queues.                                                                 *)

LEMMA AppendIs ==
  ASSUME NEW S, NEW s \in Seq(S), NEW e \in S
  PROVE  /\ Append(s, e) \in Seq(S)
         /\ \A i \in DOMAIN s : /\ i \in DOMAIN Append(s, e) /\ Append(s, e)[i] = s[i]
                                /\ i < Len(s) + 1
         /\ Len(s) + 1 \in DOMAIN Append(s, e) /\ Append(s, e)[Len(s) + 1] = e
         /\ \A i \in DOMAIN Append(s, e) : i \in DOMAIN s \/ i = Len(s) + 1
  OBVIOUS

LEMMA TailIs ==
  ASSUME NEW S, NEW s \in Seq(S), s # <<>>
  PROVE  /\ Tail(s) \in Seq(S) /\ Head(s) \in S /\ 1 \in DOMAIN s /\ Head(s) = s[1]
         /\ \A i \in DOMAIN Tail(s) : i \in Nat /\ i + 1 \in DOMAIN s /\ Tail(s)[i] = s[i + 1]
         /\ \A i \in DOMAIN s : /\ i \in Nat /\ i >= 1
                                /\ i = 1 \/ (i - 1 \in DOMAIN Tail(s) /\ Tail(s)[i - 1] = s[i])
  OBVIOUS

\* A call joins a queue, or leaves it.
LEMMA Joins ==
  ASSUME NEW s \in Seq(BCalls), NEW c \in BCalls, NEW d \in BCalls
  PROVE  /\ Append(s, c) \in Seq(BCalls)
         /\ d # c => /\ NoneAt(Append(s, c), d) <=> NoneAt(s, d)
                     /\ OneAt(Append(s, c), d) <=> OneAt(s, d)
         /\ ~NoneAt(Append(s, c), c)
         /\ NoneAt(s, d) => OneAt(Append(s, c), d)
  <1> DEFINE t == Append(s, c)
  <1>1. /\ t \in Seq(BCalls)
        /\ \A i \in DOMAIN s : i \in DOMAIN t /\ t[i] = s[i]
        /\ Len(s) + 1 \in DOMAIN t /\ t[Len(s) + 1] = c
        /\ \A i \in DOMAIN t : i \in DOMAIN s \/ i = Len(s) + 1
    BY AppendIs
  <1> HIDE DEF t
  <1>2. d # c => (NoneAt(t, d) <=> NoneAt(s, d)) /\ (OneAt(t, d) <=> OneAt(s, d))
    BY <1>1 DEF NoneAt, OneAt
  <1>3. ~NoneAt(t, c)
    BY <1>1 DEF NoneAt
  <1>4. NoneAt(s, d) => OneAt(t, d)
    BY <1>1 DEF NoneAt, OneAt
  <1> QED
    BY <1>1, <1>2, <1>3, <1>4 DEF t

LEMMA Leaves ==
  ASSUME NEW s \in Seq(BCalls), s # <<>>, NEW d \in BCalls
  PROVE  /\ Tail(s) \in Seq(BCalls) /\ Head(s) \in BCalls
         /\ ~NoneAt(s, Head(s))
         /\ NoneAt(s, d) => NoneAt(Tail(s), d)
         /\ OneAt(s, d) => OneAt(Tail(s), d)
         /\ OneAt(s, d) /\ d = Head(s) => NoneAt(Tail(s), d)
  <1> DEFINE t == Tail(s)
  <1>1. /\ t \in Seq(BCalls) /\ Head(s) \in BCalls /\ 1 \in DOMAIN s /\ Head(s) = s[1]
        /\ \A i \in DOMAIN t : i \in Nat /\ i + 1 \in DOMAIN s /\ t[i] = s[i + 1]
    BY TailIs
  <1>2. \A i \in DOMAIN t : i >= 1
    BY <1>1
  <1> HIDE DEF t
  <1>3. ~NoneAt(s, Head(s)) /\ (NoneAt(s, d) => NoneAt(t, d))
    BY <1>1 DEF NoneAt
  <1>4. OneAt(s, d) => OneAt(t, d)
    <2> SUFFICES ASSUME OneAt(s, d), NEW i \in DOMAIN t, NEW j \in DOMAIN t, t[i] = d, t[j] = d
                 PROVE  i = j
      BY DEF OneAt
    <2>1. i + 1 = j + 1
      BY <1>1 DEF OneAt
    <2> QED
      BY <1>1, <2>1
  <1>5. OneAt(s, d) /\ d = Head(s) => NoneAt(t, d)
    <2> SUFFICES ASSUME OneAt(s, d), d = Head(s), NEW i \in DOMAIN t, t[i] = d
                 PROVE  FALSE
      BY DEF NoneAt
    <2>1. i + 1 = 1
      BY <1>1 DEF OneAt
    <2> QED
      BY <1>1, <1>2, <2>1
  <1> QED
    BY <1>1, <1>3, <1>4, <1>5 DEF t

\* Answers that are no parts change nothing about parts.
LEMMA NotParts ==
  ASSUME NEW s \in Seq(Answers), NEW e \in Answers, NEW c, NEW n, ~IsPart(e, c)
  PROVE  /\ Append(s, e) \in Seq(Answers)
         /\ NoPart(Append(s, e), c) <=> NoPart(s, c)
         /\ OnePart(Append(s, e), c, n) <=> OnePart(s, c, n)
  <1> DEFINE t == Append(s, e)
  <1>1. /\ t \in Seq(Answers)
        /\ \A i \in DOMAIN s : i \in DOMAIN t /\ t[i] = s[i]
        /\ t[Len(s) + 1] = e
        /\ \A i \in DOMAIN t : i \in DOMAIN s \/ i = Len(s) + 1
    BY AppendIs
  <1> HIDE DEF t
  <1>2. NoPart(t, c) <=> NoPart(s, c)
    BY <1>1 DEF NoPart
  <1>3. OnePart(t, c, n) <=> OnePart(s, c, n)
    BY <1>1 DEF OnePart
  <1> QED
    BY <1>1, <1>2, <1>3 DEF t

\* The first part of a call.
LEMMA PartJoins ==
  ASSUME NEW s \in Seq(Answers), NEW e \in Answers, NEW c, IsPart(e, c), NoPart(s, c)
  PROVE  /\ Append(s, e) \in Seq(Answers)
         /\ OnePart(Append(s, e), c, e.seq) /\ ~NoPart(Append(s, e), c)
  <1> DEFINE t == Append(s, e)
  <1>1. /\ t \in Seq(Answers)
        /\ \A i \in DOMAIN s : i \in DOMAIN t /\ t[i] = s[i]
        /\ Len(s) + 1 \in DOMAIN t /\ t[Len(s) + 1] = e
        /\ \A i \in DOMAIN t : i \in DOMAIN s \/ i = Len(s) + 1
    BY AppendIs
  <1> HIDE DEF t
  <1> QED
    BY <1>1 DEF t, NoPart, OnePart

LEMMA PartLeaves ==
  ASSUME NEW s \in Seq(Answers), s # <<>>, NEW c, NEW n
  PROVE  /\ Tail(s) \in Seq(Answers) /\ Head(s) \in Answers
         /\ NoPart(s, c) => NoPart(Tail(s), c) /\ ~IsPart(Head(s), c)
         /\ OnePart(s, c, n) => OnePart(Tail(s), c, n)
         /\ OnePart(s, c, n) /\ IsPart(Head(s), c) => NoPart(Tail(s), c) /\ Head(s).seq = n
         /\ ~IsPart(Head(s), c) => (NoPart(s, c) <=> NoPart(Tail(s), c))
  <1> DEFINE t == Tail(s)
  <1>1. /\ t \in Seq(Answers) /\ Head(s) \in Answers /\ 1 \in DOMAIN s /\ Head(s) = s[1]
        /\ \A i \in DOMAIN t : i \in Nat /\ i + 1 \in DOMAIN s /\ t[i] = s[i + 1]
        /\ \A i \in DOMAIN s : i = 1 \/ (i - 1 \in DOMAIN t /\ t[i - 1] = s[i])
    BY TailIs
  <1>2. \A i \in DOMAIN t : i >= 1
    BY <1>1
  <1> HIDE DEF t
  <1>3. /\ NoPart(s, c) => NoPart(t, c) /\ ~IsPart(Head(s), c)
        /\ ~IsPart(Head(s), c) => (NoPart(s, c) <=> NoPart(t, c))
    BY <1>1 DEF NoPart
  <1>4. OnePart(s, c, n) => OnePart(t, c, n)
    <2> SUFFICES ASSUME OnePart(s, c, n), NEW i \in DOMAIN t, NEW j \in DOMAIN t,
                        IsPart(t[i], c), IsPart(t[j], c)
                 PROVE  i = j /\ t[i].seq = n
      BY DEF OnePart
    <2>1. i + 1 = j + 1 /\ t[i].seq = n
      BY <1>1 DEF OnePart
    <2> QED
      BY <1>1, <2>1
  <1>5. OnePart(s, c, n) /\ IsPart(Head(s), c) => NoPart(t, c) /\ Head(s).seq = n
    <2> SUFFICES ASSUME OnePart(s, c, n), IsPart(Head(s), c)
                 PROVE  NoPart(t, c) /\ Head(s).seq = n
      OBVIOUS
    <2>1. ASSUME NEW i \in DOMAIN t, IsPart(t[i], c) PROVE FALSE
      <3>1. i + 1 = 1
        BY <1>1, <2>1 DEF OnePart
      <3> QED
        BY <1>1, <1>2, <2>1, <3>1
    <2> QED
      BY <1>1, <2>1 DEF OnePart, NoPart
  <1> QED
    BY <1>1, <1>3, <1>4, <1>5 DEF t

LEMMA FirstStays ==
  ASSUME NEW s \in Seq(Answers), NEW e \in Answers, NEW c, FirstFails(s, c)
  PROVE  FirstFails(Append(s, e), c)
  <1> DEFINE t == Append(s, e)
  <1>1. /\ \A i \in DOMAIN s : /\ i \in DOMAIN t /\ t[i] = s[i] /\ i < Len(s) + 1
                               /\ i \in Nat
        /\ \A i \in DOMAIN t : i \in DOMAIN s \/ i = Len(s) + 1
        /\ Len(s) \in Nat
    BY AppendIs
  <1> HIDE DEF t
  <1>2. PICK i \in DOMAIN s : /\ s[i].kind = "failed" /\ s[i].call = c
                              /\ \A j \in DOMAIN s : j < i => s[j].call # c
    BY DEF FirstFails
  <1>3. \A j \in DOMAIN t : j < i => j \in DOMAIN s
    BY <1>1, <1>2
  <1> QED
    BY <1>1, <1>2, <1>3 DEF FirstFails, t

LEMMA FirstLeaves ==
  ASSUME NEW s \in Seq(Answers), s # <<>>, NEW c, FirstFails(s, c)
  PROVE  IF Head(s).call = c THEN Head(s).kind = "failed" ELSE FirstFails(Tail(s), c)
  <1> DEFINE t == Tail(s)
  <1>1. /\ 1 \in DOMAIN s /\ Head(s) = s[1]
        /\ \A i \in DOMAIN t : i \in Nat /\ i + 1 \in DOMAIN s /\ t[i] = s[i + 1]
        /\ \A i \in DOMAIN s : /\ i \in Nat /\ i >= 1
                               /\ i = 1 \/ (i - 1 \in DOMAIN t /\ t[i - 1] = s[i])
    BY TailIs
  <1> HIDE DEF t
  <1>2. PICK i \in DOMAIN s : /\ s[i].kind = "failed" /\ s[i].call = c
                              /\ \A j \in DOMAIN s : j < i => s[j].call # c
    BY DEF FirstFails
  <1>3. CASE i = 1
    BY <1>1, <1>2, <1>3
  <1>4. CASE i # 1
    <2>1. 1 < i /\ i - 1 \in DOMAIN t /\ t[i - 1] = s[i] /\ i \in Nat
      BY <1>1, <1>4
    <2>2. Head(s).call # c
      BY <1>1, <1>2, <2>1
    <2>3. ASSUME NEW j \in DOMAIN t, j < i - 1 PROVE t[j].call # c
      <3>1. j + 1 \in DOMAIN s /\ t[j] = s[j + 1] /\ j \in Nat
        BY <1>1
      <3>2. j + 1 < i
        BY <2>1, <2>3, <3>1
      <3> QED
        BY <1>2, <3>1, <3>2
    <2>4. FirstFails(t, c)
      BY <1>2, <2>1, <2>3 DEF FirstFails
    <2> QED
      BY <2>2, <2>4 DEF t
  <1> QED
    BY <1>3, <1>4

\* The order in which a set is gone through names each member.
LEMMA OrderIs ==
  ASSUME NEW cs, IsFiniteSet(cs)
  PROVE  /\ Cardinality(cs) \in Nat
         /\ SetToSeq(cs) \in [1 .. Cardinality(cs) -> cs]
         /\ \A c \in cs : \E i \in 1 .. Cardinality(cs) : SetToSeq(cs)[i] = c
         /\ \A i, j \in 1 .. Cardinality(cs) : SetToSeq(cs)[i] = SetToSeq(cs)[j] => i = j
  <1> DEFINE n == Cardinality(cs)
             f == SetToSeq(cs)
  <1>1. n \in Nat /\ ExistsBijection(1 .. n, cs)
    BY FS_CardinalityType
  <1>2. \E g \in [1 .. n -> cs] : IsInjective(g)
    BY <1>1 DEF ExistsBijection, Bijection, Injection
  <1>3. f \in [1 .. n -> cs] /\ IsInjective(f)
    BY <1>2 DEF SetToSeq
  <1>4. f \in Injection(1 .. n, cs)
    BY <1>3 DEF Injection
  <1>5. Cardinality(1 .. n) = n
    <2>1. 1 \in Int /\ n \in Int /\ 1 .. n = 1 .. n
      BY <1>1
    <2>2. Cardinality(1 .. n) = IF 1 > n THEN 0 ELSE n - 1 + 1
      BY <2>1, FS_Interval
    <2> QED
      BY <1>1, <2>2
  <1>6. f \in Surjection(1 .. n, cs)
    BY <1>4, <1>5, FS_Injection
  <1>7. \A i, j \in 1 .. n : f[i] = f[j] => i = j
    BY <1>3 DEF IsInjective
  <1> QED
    BY <1>1, <1>3, <1>6, <1>7 DEF Surjection

\* What a revocation posts for the calls it ends.
Aborts(cs) == [i \in 1 .. Cardinality(cs) |-> Msg("failed", SetToSeq(cs)[i])]

LEMMA AbortsAre ==
  ASSUME NEW s \in Seq(Answers), NEW cs \in SUBSET BCalls, IsFiniteSet(cs)
  PROVE  /\ s \o Aborts(cs) \in Seq(Answers)
         /\ \A c, n : OnePart(s, c, n) => OnePart(s \o Aborts(cs), c, n)
         /\ \A c : NoPart(s, c) <=> NoPart(s \o Aborts(cs), c)
         /\ \A c : FirstFails(s, c) => FirstFails(s \o Aborts(cs), c)
         /\ \A c \in cs : (\A i \in DOMAIN s : s[i].call # c) => FirstFails(s \o Aborts(cs), c)
  <1> DEFINE es == Aborts(cs)
             t == s \o es
             n == Cardinality(cs)
             l == Len(s)
  <1>1. /\ n \in Nat /\ SetToSeq(cs) \in [1 .. n -> cs]
        /\ \A c \in cs : \E i \in 1 .. n : SetToSeq(cs)[i] = c
        /\ \A i, j \in 1 .. n : SetToSeq(cs)[i] = SetToSeq(cs)[j] => i = j
    BY OrderIs
  <1>2. \A i \in 1 .. n : es[i] \in Answers /\ es[i].kind = "failed" /\ es[i].call = SetToSeq(cs)[i]
    BY <1>1 DEF Aborts, Msg, Answers
  <1>3. es \in Seq(Answers) /\ Len(es) = n
    BY <1>1, <1>2 DEF Aborts
  <1> HIDE DEF es
  <1>4. /\ t \in Seq(Answers) /\ l \in Nat /\ DOMAIN s = 1 .. l /\ DOMAIN t = 1 .. l + n
        /\ \A i \in 1 .. l : t[i] = s[i]
        /\ \A i \in 1 .. n : t[l + i] = es[i]
    BY <1>1, <1>3
  <1> HIDE DEF t, n, l
  <1>5. \A i \in DOMAIN s : i \in DOMAIN t /\ t[i] = s[i] /\ i \in Nat /\ i <= l
    BY <1>1, <1>4
  <1>6. ASSUME NEW i \in DOMAIN t, i \notin DOMAIN s
        PROVE  /\ i - l \in 1 .. n /\ t[i] = es[i - l] /\ t[i].kind = "failed" /\ i > l
               /\ i \in Nat
    <2>1. i \in Nat /\ i > l /\ i - l \in 1 .. n
      BY <1>1, <1>4, <1>6
    <2>2. l + (i - l) = i
      BY <1>4, <2>1
    <2> QED
      BY <1>2, <1>4, <2>1, <2>2
  <1>7. \A c, k : OnePart(s, c, k) => OnePart(t, c, k)
    BY <1>5, <1>6 DEF OnePart, IsPart
  <1>8. \A c : NoPart(s, c) <=> NoPart(t, c)
    BY <1>5, <1>6 DEF NoPart, IsPart
  <1>9. ASSUME NEW c, FirstFails(s, c) PROVE FirstFails(t, c)
    <2>1. PICK i \in DOMAIN s : /\ s[i].kind = "failed" /\ s[i].call = c
                                /\ \A j \in DOMAIN s : j < i => s[j].call # c
      BY <1>9 DEF FirstFails
    <2>2. ASSUME NEW j \in DOMAIN t, j < i PROVE j \in DOMAIN s
      <3> SUFFICES ASSUME j \notin DOMAIN s PROVE FALSE
        OBVIOUS
      <3>1. j > l /\ i <= l /\ j \in Nat /\ i \in Nat
        BY <1>5, <1>6
      <3> QED
        BY <1>4, <2>2, <3>1
    <2> QED
      BY <1>5, <2>1, <2>2 DEF FirstFails
  <1>10. ASSUME NEW c \in cs, \A i \in DOMAIN s : s[i].call # c PROVE FirstFails(t, c)
    <2>2. PICK i \in 1 .. n : SetToSeq(cs)[i] = c
      BY <1>1
    <2>3. l + i \in DOMAIN t /\ t[l + i] = es[i]
      BY <1>1, <1>4, <2>2
    <2>4. t[l + i].kind = "failed" /\ t[l + i].call = c
      BY <1>2, <2>2, <2>3
    <2>5. ASSUME NEW j \in DOMAIN t, j < l + i PROVE t[j].call # c
      <3>1. CASE j \in DOMAIN s
        BY <1>5, <1>10, <3>1
      <3>2. CASE j \notin DOMAIN s
        <4>1. j - l \in 1 .. n /\ t[j] = es[j - l] /\ j \in Nat
          BY <1>6, <3>2
        <4>2. j - l # i
          BY <1>1, <1>4, <2>2, <2>5, <4>1
        <4>3. SetToSeq(cs)[j - l] # c
          BY <1>1, <2>2, <4>1, <4>2
        <4> QED
          BY <1>2, <4>1, <4>3
      <3> QED
        BY <3>1, <3>2
    <2> QED
      BY <2>3, <2>4, <2>5 DEF FirstFails
  <1> QED
    BY <1>4, <1>7, <1>8, <1>9, <1>10 DEF t, es

-----------------------------------------------------------------------------
(* Steps.                                                                  *)

LEMMA InitBroker == BrokerInit => BrokerInv
  <1> SUFFICES ASSUME BrokerInit PROVE BrokerInv
    OBVIOUS
  <1>1. /\ <<>> \in Seq(BCalls) /\ <<>> \in Seq(Answers) /\ <<>> \in Seq(ControlFrames)
        /\ DOMAIN [c \in {} |-> 0] = {} /\ DOMAIN <<>> = {}
    OBVIOUS
  <1>2. IsFiniteSet({})
    BY FS_EmptySet
  <1>3. BrokerTyped
    BY <1>1, <1>2 DEF BrokerInit, BrokerTyped
  <1>4. /\ \A c : NoneAt(<<>>, c) /\ OneAt(<<>>, c) /\ NoPart(<<>>, c)
        /\ \A c, n : OnePart(<<>>, c, n)
    BY <1>1 DEF NoneAt, OneAt, NoPart, OnePart
  <1>5. AskedOnce /\ NothingEarly /\ OneUnderWay /\ CutFirst
    BY <1>1, <1>4 DEF BrokerInit, AskedOnce, Asking, NothingEarly, Unanswered, OneUnderWay, CutFirst
  <1> QED
    BY <1>3, <1>5 DEF BrokerInv

\* The port keeps its messages and gets no parts.
PortGrows ==
    /\ port' \in Seq(Answers)
    /\ \A c, n : OnePart(port, c, n) => OnePart(port', c, n)
    /\ \A c : NoPart(port, c) <=> NoPart(port', c)
    /\ \A c : FirstFails(port, c) => FirstFails(port', c)

LEMMA PortGets ==
  ASSUME BrokerInv, NEW m \in Answers, m.kind # "part", port' = Append(port, m)
  PROVE  PortGrows
  <1>1. port \in Seq(Answers) /\ \A c : ~IsPart(m, c)
    BY DEF BrokerInv, BrokerTyped, IsPart
  <1>2. port' \in Seq(Answers)
    BY <1>1, AppendIs
  <1>3. \A c, n : OnePart(port, c, n) => OnePart(port', c, n)
    BY <1>1, NotParts
  <1>4. \A c : NoPart(port, c) <=> NoPart(port', c)
    BY <1>1, NotParts
  <1>5. \A c : FirstFails(port, c) => FirstFails(port', c)
    BY <1>1, FirstStays
  <1> QED
    BY <1>2, <1>3, <1>4, <1>5 DEF PortGrows

LEMMA PortSame == BrokerInv /\ port' = port => PortGrows
  BY DEF BrokerInv, BrokerTyped, PortGrows

\* Steps that send no parts and settle nothing.
LEMMA Onward ==
  ASSUME BrokerInv, PortGrows, AskedOnce',
         UNCHANGED <<outcome, dataDown, credits, streams, parts, workerUp>>,
         posted' \subseteq BCalls, hostCalls' \subseteq BCalls,
         inFlight' \subseteq BCalls, IsFiniteSet(inFlight'),
         controlUp' \in Seq(BCalls), dataUp' \in Seq(BCalls), controlDown' \in Seq(ControlFrames),
         \A c \in BCalls : Asking(c)' => Asking(c),
         \A c \in cut' : c \in cut \/ (/\ c \in BCalls /\ outcome[c] = "pending"
                                       /\ FirstFails(port', c))
  PROVE  BrokerInv'
  <1>1. BrokerTyped'
    BY DEF BrokerInv, BrokerTyped, PortGrows
  <1>2. ASSUME NEW c \in BCalls, Unanswered(c) PROVE Unanswered(c)'
    BY <1>2 DEF Unanswered, PortGrows
  <1>3. NothingEarly'
    BY <1>2 DEF BrokerInv, NothingEarly
  <1>4. \A c : Received(c)' = Received(c)
    BY DEF Received
  <1>5. OneUnderWay'
    <2> SUFFICES ASSUME NEW c \in BCalls, outcome[c] = "pending"
                 PROVE  /\ OnePart(port', c, Received(c)) /\ OnePart(dataDown, c, Received(c))
                        /\ OneAt(credits, c)
                        /\ NoPart(port', c) \/ NoPart(dataDown, c)
                        /\ ~NoneAt(credits, c) => NoPart(port', c) /\ NoPart(dataDown, c)
                        /\ c \in DOMAIN streams =>
                             /\ ~NoPart(port', c) \/ ~NoPart(dataDown, c) => streams[c] = Received(c) + 1
                             /\ ~NoneAt(credits, c) => streams[c] = Received(c)
      BY <1>4 DEF OneUnderWay
    <2> QED
      BY DEF BrokerInv, OneUnderWay, PortGrows
  <1>6. CutFirst'
    BY DEF BrokerInv, CutFirst, PortGrows
  <1> QED
    BY <1>1, <1>3, <1>5, <1>6 DEF BrokerInv

LEMMA FailedIs ==
  ASSUME NEW c \in BCalls, NEW kind \in {"ok", "failed"}
  PROVE  /\ Msg(kind, c) \in Answers /\ Msg(kind, c) \in ControlFrames
         /\ Msg(kind, c).kind = kind /\ Msg(kind, c).call = c
  BY DEF Msg, Answers, ControlFrames

LEMMA ProcBrokerDeadline ==
  ASSUME BrokerInv, NEW c \in BCalls, RuntimeDeadline(c)
  PROVE  BrokerInv'
  <1>1. PortGrows
    BY FailedIs, PortGets DEF RuntimeDeadline
  <1>2. inFlight' \subseteq BCalls /\ IsFiniteSet(inFlight')
    <2>1. inFlight' \subseteq inFlight /\ IsFiniteSet(inFlight) /\ inFlight \subseteq BCalls
      BY DEF RuntimeDeadline, BrokerInv, BrokerTyped
    <2> QED
      BY <2>1, FS_Subset
  <1>3. UNCHANGED <<outcome, posted, controlUp, dataUp, hostCalls, streams, controlDown, dataDown,
                    credits, parts, workerUp, cut>>
    BY DEF RuntimeDeadline, upVars, brokerHostVars, downVars, pastVars
  <1>4. \A d \in BCalls : Asking(d)' <=> Asking(d)
    BY <1>3 DEF Asking
  <1>5. AskedOnce'
    BY <1>3, <1>4 DEF BrokerInv, AskedOnce
  <1>6. /\ posted' \subseteq BCalls /\ hostCalls' \subseteq BCalls
        /\ controlUp' \in Seq(BCalls) /\ dataUp' \in Seq(BCalls) /\ controlDown' \in Seq(ControlFrames)
    BY <1>3 DEF BrokerInv, BrokerTyped
  <1> QED
    BY <1>1, <1>2, <1>3, <1>4, <1>5, <1>6, Onward

LEMMA ProcRevokes ==
  ASSUME BrokerInv, RevokeCapability
  PROVE  BrokerInv'
  <1>1. PortGrows
    BY PortSame DEF RevokeCapability
  <1>2. UNCHANGED <<outcome, posted, controlUp, dataUp, hostCalls, streams, inFlight, dataDown,
                    credits, parts, workerUp, cut>>
    BY DEF RevokeCapability, upVars, brokerHostVars, pastVars
  <1>3. controlDown' \in Seq(ControlFrames)
    <2>1. [kind |-> "revoke", call |-> NoCall, seq |-> 0] \in ControlFrames
      BY DEF ControlFrames
    <2>2. controlDown \in Seq(ControlFrames)
      BY DEF BrokerInv, BrokerTyped
    <2> QED
      BY <2>1, <2>2, AppendIs DEF RevokeCapability
  <1>4. \A d \in BCalls : Asking(d)' <=> Asking(d)
    BY <1>2 DEF Asking
  <1>5. AskedOnce'
    BY <1>2, <1>4 DEF BrokerInv, AskedOnce
  <1>6. /\ posted' \subseteq BCalls /\ hostCalls' \subseteq BCalls
        /\ controlUp' \in Seq(BCalls) /\ dataUp' \in Seq(BCalls)
        /\ inFlight' \subseteq BCalls /\ IsFiniteSet(inFlight')
    BY <1>2 DEF BrokerInv, BrokerTyped
  <1> QED
    BY <1>1, <1>2, <1>3, <1>4, <1>5, <1>6, Onward

LEMMA ProcRuntimeControl ==
  ASSUME BrokerInv, RuntimeControl
  PROVE  BrokerInv'
  <1> DEFINE m == Head(controlDown)
             ended == {c \in inFlight : /\ outcome[c] = "pending"
                                        /\ \A i \in DOMAIN port : port[i].call # c}
  <1>0. /\ inFlight \subseteq BCalls /\ IsFiniteSet(inFlight) /\ port \in Seq(Answers)
        /\ controlDown \in Seq(ControlFrames) /\ controlDown # <<>>
    BY DEF BrokerInv, BrokerTyped, RuntimeControl
  <1>1. m \in ControlFrames /\ controlDown' \in Seq(ControlFrames)
    BY <1>0, TailIs DEF RuntimeControl
  <1>2. \/ /\ m.kind = "revoke" /\ AbortInFlight(inFlight) /\ cut' = cut \cup ended
        \/ /\ m.kind # "revoke" /\ m.call \in inFlight /\ cut' = cut
           /\ inFlight' = inFlight \ {m.call} /\ port' = Append(port, m)
        \/ m.kind # "revoke" /\ UNCHANGED <<inFlight, port, cut>>
    BY DEF RuntimeControl
  <1>3. UNCHANGED <<outcome, posted, controlUp, dataUp, hostCalls, streams, dataDown,
                    credits, parts, workerUp>>
    BY DEF RuntimeControl, upVars, brokerHostVars
  <1>4. inFlight' \subseteq BCalls /\ IsFiniteSet(inFlight')
    <2>1. inFlight' \subseteq inFlight
      BY <1>2 DEF AbortInFlight
    <2> QED
      BY <1>0, <2>1, FS_Subset
  <1>5. /\ PortGrows
        /\ \A c \in cut' : c \in cut \/ (/\ c \in BCalls /\ outcome[c] = "pending"
                                         /\ FirstFails(port', c))
    <2>1. CASE m.kind = "revoke" /\ AbortInFlight(inFlight) /\ cut' = cut \cup ended
      <3>1. port' = port \o Aborts(inFlight)
        BY <2>1 DEF AbortInFlight, Aborts
      <3>2. PortGrows
        BY <1>0, <3>1, AbortsAre DEF PortGrows
      <3>3. \A c \in ended : FirstFails(port', c)
        BY <1>0, <3>1, AbortsAre
      <3> QED
        BY <1>0, <2>1, <3>2, <3>3
    <2>2. CASE /\ m.kind # "revoke" /\ m.call \in inFlight /\ cut' = cut
               /\ inFlight' = inFlight \ {m.call} /\ port' = Append(port, m)
      <3>1. m \in Answers /\ m.kind # "part"
        BY <1>1, <2>2 DEF ControlFrames, Answers
      <3> QED
        BY <2>2, <3>1, PortGets
    <2>3. CASE m.kind # "revoke" /\ UNCHANGED <<inFlight, port, cut>>
      BY <2>3, PortSame
    <2> QED
      BY <1>2, <2>1, <2>2, <2>3
  <1>6. \A d \in BCalls : Asking(d)' <=> Asking(d)
    BY <1>3 DEF Asking
  <1>7. AskedOnce'
    BY <1>3, <1>6 DEF BrokerInv, AskedOnce
  <1>8. /\ posted' \subseteq BCalls /\ hostCalls' \subseteq BCalls
        /\ controlUp' \in Seq(BCalls) /\ dataUp' \in Seq(BCalls)
    BY <1>3 DEF BrokerInv, BrokerTyped
  <1> QED
    BY <1>1, <1>3, <1>4, <1>5, <1>6, <1>7, <1>8, Onward

LEMMA ProcSubmit ==
  ASSUME BrokerInv, NEW c \in BCalls, Submit(c)
  PROVE  BrokerInv'
  <1>0. /\ c \in posted /\ inFlight \subseteq BCalls /\ IsFiniteSet(inFlight)
        /\ controlUp \in Seq(BCalls) /\ dataUp \in Seq(BCalls)
    BY DEF BrokerInv, BrokerTyped, Submit
  <1>1. PortGrows
    BY FailedIs, PortGets, PortSame DEF Submit
  <1>2. inFlight' \subseteq BCalls /\ IsFiniteSet(inFlight')
    <2>1. inFlight' = inFlight \/ inFlight' = inFlight \cup {c}
      BY DEF Submit
    <2> QED
      BY <1>0, <2>1, FS_AddElement
  <1>3. UNCHANGED <<outcome, hostCalls, streams, controlDown, dataDown, credits, parts, workerUp, cut>>
    BY DEF Submit, brokerHostVars, downVars
  <1>4. /\ posted' = posted \ {c}
        /\ \/ controlUp' = Append(controlUp, c) /\ dataUp' = dataUp
           \/ controlUp' = controlUp /\ dataUp' = Append(dataUp, c)
           \/ controlUp' = controlUp /\ dataUp' = dataUp
    BY DEF Submit, Forward
  <1>5. /\ NoneAt(controlUp, c) /\ NoneAt(dataUp, c) /\ c \notin hostCalls
        /\ outcome[c] # "idle"
    BY <1>0 DEF BrokerInv, AskedOnce, Asking
  <1>6. ASSUME NEW d \in BCalls, d # c
        PROVE  /\ NoneAt(controlUp', d) <=> NoneAt(controlUp, d)
               /\ NoneAt(dataUp', d) <=> NoneAt(dataUp, d)
               /\ OneAt(controlUp', d) <=> OneAt(controlUp, d)
               /\ OneAt(dataUp', d) <=> OneAt(dataUp, d)
               /\ d \in posted' <=> d \in posted
    <2>1. /\ NoneAt(Append(controlUp, c), d) <=> NoneAt(controlUp, d)
          /\ OneAt(Append(controlUp, c), d) <=> OneAt(controlUp, d)
      BY <1>0, <1>6, Joins
    <2>2. /\ NoneAt(Append(dataUp, c), d) <=> NoneAt(dataUp, d)
          /\ OneAt(Append(dataUp, c), d) <=> OneAt(dataUp, d)
      BY <1>0, <1>6, Joins
    <2> QED
      BY <1>4, <1>6, <2>1, <2>2
  <1>7. OneAt(controlUp', c) /\ OneAt(dataUp', c) /\ (NoneAt(controlUp', c) \/ NoneAt(dataUp', c))
    <2>1. OneAt(controlUp, c) /\ OneAt(dataUp, c)
      BY DEF BrokerInv, AskedOnce
    <2>2. OneAt(Append(controlUp, c), c) /\ OneAt(Append(dataUp, c), c)
      BY <1>0, <1>5, Joins
    <2> QED
      BY <1>4, <1>5, <2>1, <2>2
  <1>8. ASSUME NEW d \in BCalls
        PROVE  Asking(d)' => Asking(d)
    <2>1. CASE d = c
      BY <1>0, <2>1 DEF Asking
    <2>2. CASE d # c
      BY <1>3, <1>6, <2>2 DEF Asking
    <2> QED
      BY <2>1, <2>2
  <1>9. AskedOnce'
    <2> SUFFICES ASSUME NEW d \in BCalls
                 PROVE  /\ outcome[d] = "idle" => ~Asking(d)'
                        /\ d \in posted' => NoneAt(controlUp', d) /\ NoneAt(dataUp', d) /\ d \notin hostCalls
                        /\ d \in hostCalls => NoneAt(controlUp', d) /\ NoneAt(dataUp', d)
                        /\ OneAt(controlUp', d) /\ OneAt(dataUp', d)
                        /\ NoneAt(controlUp', d) \/ NoneAt(dataUp', d)
      BY <1>3 DEF AskedOnce
    <2>1. outcome[d] = "idle" => ~Asking(d)'
      BY <1>8 DEF BrokerInv, AskedOnce
    <2>2. CASE d = c
      BY <1>4, <1>5, <1>7, <2>1, <2>2
    <2>3. CASE d # c
      BY <1>6, <2>1, <2>3 DEF BrokerInv, AskedOnce
    <2> QED
      BY <2>2, <2>3
  <1>10. controlUp' \in Seq(BCalls) /\ dataUp' \in Seq(BCalls)
    BY <1>0, <1>4, Joins
  <1>11. posted' \subseteq BCalls /\ hostCalls' \subseteq BCalls /\ controlDown' \in Seq(ControlFrames)
    BY <1>3, <1>4 DEF BrokerInv, BrokerTyped
  <1> QED
    BY <1>1, <1>2, <1>3, <1>8, <1>9, <1>10, <1>11, Onward

LEMMA ProcBrokerReceives ==
  ASSUME BrokerInv, BrokerReceives
  PROVE  BrokerInv'
  <1>0. /\ controlUp \in Seq(BCalls) /\ dataUp \in Seq(BCalls) /\ controlDown \in Seq(ControlFrames)
        /\ hostCalls \subseteq BCalls
    BY DEF BrokerInv, BrokerTyped
  <1>1. PICK c : /\ \/ /\ controlUp # <<>> /\ c = Head(controlUp)
                       /\ controlUp' = Tail(controlUp) /\ dataUp' = dataUp
                    \/ /\ dataUp # <<>> /\ c = Head(dataUp)
                       /\ dataUp' = Tail(dataUp) /\ controlUp' = controlUp
                 /\ Receive(c)
    BY DEF BrokerReceives
  <1>2. c \in BCalls /\ (~NoneAt(controlUp, c) \/ ~NoneAt(dataUp, c))
    BY <1>0, <1>1, Leaves
  <1>3. UNCHANGED <<outcome, posted, inFlight, port, streams, dataDown, credits, parts, workerUp, cut>>
    BY <1>1 DEF BrokerReceives, Receive, Reply, downVars, pastVars
  <1>4. /\ controlDown' \in Seq(ControlFrames)
        /\ hostCalls' = hostCalls \/ hostCalls' = hostCalls \cup {c}
    <2>1. controlDown' = controlDown \/ controlDown' = Append(controlDown, Msg("failed", c))
      BY <1>1 DEF Receive, Reply, downVars
    <2>2. hostCalls' = hostCalls \/ hostCalls' = hostCalls \cup {c}
      BY <1>1 DEF Receive
    <2>3. Append(controlDown, Msg("failed", c)) \in Seq(ControlFrames)
      BY <1>0, <1>2, FailedIs, AppendIs
    <2> QED
      BY <1>0, <2>1, <2>2, <2>3
  <1>5. /\ controlUp' \in Seq(BCalls) /\ dataUp' \in Seq(BCalls)
        /\ \A d \in BCalls : /\ NoneAt(controlUp, d) => NoneAt(controlUp', d)
                             /\ NoneAt(dataUp, d) => NoneAt(dataUp', d)
                             /\ OneAt(controlUp, d) => OneAt(controlUp', d)
                             /\ OneAt(dataUp, d) => OneAt(dataUp', d)
    <2>1. CASE controlUp # <<>> /\ controlUp' = Tail(controlUp) /\ dataUp' = dataUp
      BY <1>0, <2>1, Leaves
    <2>2. CASE dataUp # <<>> /\ dataUp' = Tail(dataUp) /\ controlUp' = controlUp
      BY <1>0, <2>2, Leaves
    <2> QED
      BY <1>1, <2>1, <2>2
  <1>6. /\ NoneAt(controlUp', c) /\ NoneAt(dataUp', c) /\ c \notin posted
        /\ outcome[c] # "idle"
    <2>1. /\ OneAt(controlUp, c) /\ OneAt(dataUp, c) /\ (NoneAt(controlUp, c) \/ NoneAt(dataUp, c))
          /\ c \notin posted /\ outcome[c] # "idle"
      BY <1>2 DEF BrokerInv, AskedOnce, Asking
    <2>2. CASE controlUp # <<>> /\ c = Head(controlUp) /\ controlUp' = Tail(controlUp) /\ dataUp' = dataUp
      BY <1>0, <1>2, <2>1, <2>2, Leaves
    <2>3. CASE dataUp # <<>> /\ c = Head(dataUp) /\ dataUp' = Tail(dataUp) /\ controlUp' = controlUp
      BY <1>0, <1>2, <2>1, <2>3, Leaves
    <2> QED
      BY <1>1, <2>1, <2>2, <2>3
  <1>7. ASSUME NEW d \in BCalls
        PROVE  Asking(d)' => Asking(d)
    <2>1. CASE d = c
      BY <1>2, <2>1 DEF Asking
    <2>2. CASE d # c
      BY <1>3, <1>4, <1>5, <2>2 DEF Asking
    <2> QED
      BY <2>1, <2>2
  <1>8. AskedOnce'
    <2> SUFFICES ASSUME NEW d \in BCalls
                 PROVE  /\ outcome[d] = "idle" => ~Asking(d)'
                        /\ d \in posted => NoneAt(controlUp', d) /\ NoneAt(dataUp', d) /\ d \notin hostCalls'
                        /\ d \in hostCalls' => NoneAt(controlUp', d) /\ NoneAt(dataUp', d)
                        /\ OneAt(controlUp', d) /\ OneAt(dataUp', d)
                        /\ NoneAt(controlUp', d) \/ NoneAt(dataUp', d)
      BY <1>3 DEF AskedOnce
    <2>1. outcome[d] = "idle" => ~Asking(d)'
      BY <1>7 DEF BrokerInv, AskedOnce
    <2>2. /\ OneAt(controlUp', d) /\ OneAt(dataUp', d)
          /\ NoneAt(controlUp', d) \/ NoneAt(dataUp', d)
      BY <1>5 DEF BrokerInv, AskedOnce
    <2>3. CASE d = c
      BY <1>6, <2>1, <2>2, <2>3
    <2>4. CASE d # c
      <3>1. d \in hostCalls' <=> d \in hostCalls
        BY <1>4, <2>4
      <3> QED
        BY <1>5, <2>1, <2>2, <3>1 DEF BrokerInv, AskedOnce
    <2> QED
      BY <2>3, <2>4
  <1>9. /\ posted' \subseteq BCalls /\ hostCalls' \subseteq BCalls
        /\ inFlight' \subseteq BCalls /\ IsFiniteSet(inFlight')
    BY <1>0, <1>2, <1>3, <1>4 DEF BrokerInv, BrokerTyped
  <1>10. PortGrows
    BY <1>3, PortSame
  <1> QED
    BY <1>3, <1>4, <1>5, <1>7, <1>8, <1>9, <1>10, Onward

LEMMA ProcInvoke ==
  ASSUME BrokerInv, NEW c \in BCalls, InvokeBrokerCall(c)
  PROVE  BrokerInv'
  <1>0. outcome[c] = "idle" /\ workerUp /\ outcome \in [BCalls -> {"idle", "pending", "ok", "failed"}]
    BY DEF BrokerInv, BrokerTyped, InvokeBrokerCall
  <1>1. /\ outcome' \in [BCalls -> {"idle", "pending", "ok", "failed"}]
        /\ outcome'[c] = "pending" /\ \A d \in BCalls \ {c} : outcome'[d] = outcome[d]
        /\ posted' = posted \cup {c}
    BY <1>0 DEF InvokeBrokerCall
  <1>2. UNCHANGED <<controlUp, dataUp, hostCalls, streams, inFlight, controlDown, dataDown, port,
                    credits, parts, workerUp, cut>>
    BY DEF InvokeBrokerCall, upVars, brokerHostVars, downVars, pastVars
  <1>3. BrokerTyped'
    BY <1>0, <1>1, <1>2 DEF BrokerInv, BrokerTyped
  <1>4. ~Asking(c) /\ Unanswered(c)
    BY <1>0 DEF BrokerInv, AskedOnce, NothingEarly
  <1>5. AskedOnce'
    <2> SUFFICES ASSUME NEW d \in BCalls
                 PROVE  /\ outcome'[d] = "idle" => ~Asking(d)'
                        /\ d \in posted' => NoneAt(controlUp, d) /\ NoneAt(dataUp, d) /\ d \notin hostCalls
                        /\ d \in hostCalls => NoneAt(controlUp, d) /\ NoneAt(dataUp, d)
                        /\ OneAt(controlUp, d) /\ OneAt(dataUp, d)
                        /\ NoneAt(controlUp, d) \/ NoneAt(dataUp, d)
      BY <1>2 DEF AskedOnce
    <2>1. CASE d = c
      BY <1>1, <1>4, <2>1 DEF BrokerInv, AskedOnce, Asking
    <2>2. CASE d # c
      BY <1>1, <1>2, <2>2 DEF BrokerInv, AskedOnce, Asking
    <2> QED
      BY <2>1, <2>2
  <1>6. NothingEarly'
    <2> SUFFICES ASSUME NEW d \in BCalls, outcome'[d] = "idle" \/ Asking(d)'
                 PROVE  Unanswered(d)
      BY <1>2 DEF NothingEarly, Unanswered
    <2>1. CASE d = c
      BY <1>4, <2>1
    <2>2. CASE d # c
      BY <1>1, <1>2, <2>2 DEF BrokerInv, NothingEarly, Asking
    <2> QED
      BY <2>1, <2>2
  <1>7. OneUnderWay'
    <2> SUFFICES ASSUME NEW d \in BCalls, outcome'[d] = "pending"
                 PROVE  /\ OnePart(port, d, Received(d)) /\ OnePart(dataDown, d, Received(d))
                        /\ OneAt(credits, d)
                        /\ NoPart(port, d) \/ NoPart(dataDown, d)
                        /\ ~NoneAt(credits, d) => NoPart(port, d) /\ NoPart(dataDown, d)
                        /\ d \in DOMAIN streams =>
                             /\ ~NoPart(port, d) \/ ~NoPart(dataDown, d) => streams[d] = Received(d) + 1
                             /\ ~NoneAt(credits, d) => streams[d] = Received(d)
      BY <1>2 DEF OneUnderWay, Received
    <2>1. CASE d = c
      BY <1>4, <2>1 DEF Unanswered, OnePart, OneAt, NoneAt, NoPart
    <2>2. CASE d # c
      BY <1>1, <2>2 DEF BrokerInv, OneUnderWay
    <2> QED
      BY <2>1, <2>2
  <1>8. CutFirst'
    <2>1. c \notin cut /\ cut \subseteq BCalls
      BY <1>0 DEF BrokerInv, BrokerTyped, CutFirst
    <2> QED
      BY <1>1, <1>2, <2>1 DEF BrokerInv, CutFirst
  <1> QED
    BY <1>3, <1>5, <1>6, <1>7, <1>8 DEF BrokerInv

LEMMA ProcCallerAborts ==
  ASSUME BrokerInv, NEW c \in BCalls, CallerAborts(c)
  PROVE  BrokerInv'
  <1>0. outcome[c] = "pending" /\ outcome \in [BCalls -> {"idle", "pending", "ok", "failed"}]
    BY DEF BrokerInv, BrokerTyped, CallerAborts
  <1>1. /\ outcome' \in [BCalls -> {"idle", "pending", "ok", "failed"}]
        /\ outcome'[c] = "failed" /\ \A d \in BCalls \ {c} : outcome'[d] = outcome[d]
    BY <1>0 DEF CallerAborts
  <1>2. UNCHANGED <<posted, controlUp, dataUp, hostCalls, streams, inFlight, controlDown, dataDown,
                    port, credits, parts, workerUp, cut>>
    BY DEF CallerAborts, upVars, brokerHostVars, downVars, pastVars
  <1>3. \A d \in BCalls : /\ outcome'[d] = "pending" => outcome[d] = "pending"
                          /\ outcome'[d] = "idle" => outcome[d] = "idle"
    BY <1>0, <1>1
  <1>4. BrokerTyped'
    BY <1>1, <1>2, <1>3 DEF BrokerInv, BrokerTyped
  <1>5. AskedOnce' /\ NothingEarly'
    BY <1>2, <1>3 DEF BrokerInv, AskedOnce, NothingEarly, Asking, Unanswered
  <1>6. OneUnderWay'
    BY <1>2, <1>3 DEF BrokerInv, OneUnderWay, Received
  <1>7. CutFirst'
    BY <1>0, <1>1, <1>2 DEF BrokerInv, BrokerTyped, CutFirst
  <1> QED
    BY <1>4, <1>5, <1>6, <1>7 DEF BrokerInv

LEMMA ProcWorkerExits ==
  ASSUME BrokerInv, WorkerExits
  PROVE  BrokerInv'
  <1>0. outcome \in [BCalls -> {"idle", "pending", "ok", "failed"}] /\ cut \subseteq BCalls
    BY DEF BrokerInv, BrokerTyped
  <1>1. /\ outcome' \in [BCalls -> {"idle", "pending", "ok", "failed"}]
        /\ \A d \in BCalls : /\ outcome'[d] # "pending"
                             /\ outcome'[d] = "idle" <=> outcome[d] = "idle"
                             /\ outcome[d] \in {"pending", "failed"} => outcome'[d] = "failed"
    BY <1>0 DEF WorkerExits
  <1>2. /\ posted' = {} /\ inFlight' = {} /\ port' = <<>> /\ credits' = <<>>
        /\ parts' = [d \in {} |-> 0] /\ workerUp' = FALSE
        /\ UNCHANGED <<controlUp, dataUp, hostCalls, streams, controlDown, dataDown, cut>>
    BY DEF WorkerExits, upVars, brokerHostVars, downVars, pastVars
  <1>3. DOMAIN parts' = {} /\ DOMAIN port' = {} /\ DOMAIN credits' = {}
    BY <1>2
  <1>4. BrokerTyped'
    <2>1. port' \in Seq(Answers) /\ credits' \in Seq(BCalls) /\ IsFiniteSet(inFlight')
      BY <1>2, FS_EmptySet
    <2> QED
      BY <1>1, <1>2, <1>3, <2>1 DEF BrokerInv, BrokerTyped
  <1>5. AskedOnce'
    BY <1>1, <1>2 DEF BrokerInv, AskedOnce, Asking
  <1>6. NothingEarly'
    BY <1>1, <1>2, <1>3 DEF BrokerInv, NothingEarly, Asking, Unanswered, NoPart, NoneAt
  <1>7. OneUnderWay'
    BY <1>1 DEF OneUnderWay
  <1>8. CutFirst'
    BY <1>0, <1>1, <1>2 DEF BrokerInv, CutFirst
  <1> QED
    BY <1>4, <1>5, <1>6, <1>7, <1>8 DEF BrokerInv

LEMMA ProcRuntimeData ==
  ASSUME BrokerInv, RuntimeData
  PROVE  BrokerInv'
  <1> DEFINE m == Head(dataDown)
  <1>0. dataDown \in Seq(Answers) /\ dataDown # <<>> /\ port \in Seq(Answers)
    BY DEF BrokerInv, BrokerTyped, RuntimeData
  <1>1. /\ dataDown' = Tail(dataDown) /\ port' = IF workerUp THEN Append(port, m) ELSE port
        /\ UNCHANGED <<outcome, posted, controlUp, dataUp, hostCalls, streams, inFlight, controlDown,
                       credits, parts, workerUp, cut>>
    BY DEF RuntimeData, upVars, brokerHostVars, pastVars
  <1>2. /\ m \in Answers /\ dataDown' \in Seq(Answers)
        /\ \A c, n : /\ NoPart(dataDown, c) => NoPart(dataDown', c) /\ ~IsPart(m, c)
                     /\ OnePart(dataDown, c, n) => OnePart(dataDown', c, n)
                     /\ OnePart(dataDown, c, n) /\ IsPart(m, c) => NoPart(dataDown', c) /\ m.seq = n
                     /\ ~IsPart(m, c) => (NoPart(dataDown, c) <=> NoPart(dataDown', c))
    BY <1>0, <1>1, PartLeaves
  <1>3. /\ port' \in Seq(Answers)
        /\ \A c, n : ~IsPart(m, c) => /\ NoPart(port', c) <=> NoPart(port, c)
                                      /\ OnePart(port', c, n) <=> OnePart(port, c, n)
        /\ \A c : FirstFails(port, c) => FirstFails(port', c)
    <2>1. CASE workerUp
      BY <1>0, <1>1, <1>2, <2>1, NotParts, AppendIs, FirstStays
    <2>2. CASE ~workerUp
      BY <1>0, <1>1, <2>2
    <2> QED
      BY <2>1, <2>2
  <1>4. ASSUME NEW c, workerUp, IsPart(m, c), NoPart(port, c)
        PROVE  OnePart(port', c, m.seq) /\ ~NoPart(port', c)
    BY <1>0, <1>1, <1>2, <1>4, PartJoins
  <1> HIDE DEF m
  <1>5. BrokerTyped'
    BY <1>1, <1>2, <1>3 DEF BrokerInv, BrokerTyped
  <1>6. AskedOnce'
    BY <1>1 DEF BrokerInv, AskedOnce, Asking
  <1>7. NothingEarly'
    BY <1>1, <1>2, <1>3 DEF BrokerInv, NothingEarly, Asking, Unanswered
  <1>8. OneUnderWay'
    <2> SUFFICES ASSUME NEW c \in BCalls, outcome[c] = "pending"
                 PROVE  /\ OnePart(port', c, Received(c)) /\ OnePart(dataDown', c, Received(c))
                        /\ OneAt(credits, c)
                        /\ NoPart(port', c) \/ NoPart(dataDown', c)
                        /\ ~NoneAt(credits, c) => NoPart(port', c) /\ NoPart(dataDown', c)
                        /\ c \in DOMAIN streams =>
                             /\ ~NoPart(port', c) \/ ~NoPart(dataDown', c) => streams[c] = Received(c) + 1
                             /\ ~NoneAt(credits, c) => streams[c] = Received(c)
      BY <1>1 DEF OneUnderWay, Received
    <2>1. workerUp
      BY DEF BrokerInv, BrokerTyped
    <2>2. /\ OnePart(port, c, Received(c)) /\ OnePart(dataDown, c, Received(c))
          /\ OneAt(credits, c)
          /\ NoPart(port, c) \/ NoPart(dataDown, c)
          /\ ~NoneAt(credits, c) => NoPart(port, c) /\ NoPart(dataDown, c)
          /\ c \in DOMAIN streams =>
               /\ ~NoPart(port, c) \/ ~NoPart(dataDown, c) => streams[c] = Received(c) + 1
               /\ ~NoneAt(credits, c) => streams[c] = Received(c)
      BY DEF BrokerInv, OneUnderWay
    <2>3. CASE IsPart(m, c)
      <3>1. ~NoPart(dataDown, c) /\ NoPart(port, c) /\ NoneAt(credits, c)
        BY <1>2, <2>2, <2>3
      <3>2. /\ m.seq = Received(c) /\ NoPart(dataDown', c)
            /\ OnePart(dataDown', c, Received(c))
        BY <1>2, <2>2, <2>3
      <3>3. OnePart(port', c, Received(c)) /\ ~NoPart(port', c)
        BY <1>4, <2>1, <2>3, <3>1, <3>2
      <3> QED
        BY <2>2, <3>1, <3>2, <3>3
    <2>4. CASE ~IsPart(m, c)
      BY <1>2, <1>3, <2>2, <2>4
    <2> QED
      BY <2>3, <2>4
  <1>9. CutFirst'
    BY <1>1, <1>3 DEF BrokerInv, CutFirst
  <1> QED
    BY <1>5, <1>6, <1>7, <1>8, <1>9 DEF BrokerInv

\* The parts of other calls, and the streams of other calls, are left alone.
OthersDown(c) ==
    \A d \in BCalls : d # c =>
      /\ NoPart(dataDown', d) <=> NoPart(dataDown, d)
      /\ \A n : OnePart(dataDown', d, n) <=> OnePart(dataDown, d, n)
      /\ d \in DOMAIN streams' <=> d \in DOMAIN streams
      /\ d \in DOMAIN streams => streams'[d] = streams[d]

LEMMA ProcHostResponds ==
  ASSUME BrokerInv, NEW c \in BCalls, HostResponds(c)
  PROVE  BrokerInv'
  <1>0. /\ c \in hostCalls /\ dataDown \in Seq(Answers) /\ controlDown \in Seq(ControlFrames)
        /\ DOMAIN streams \subseteq BCalls /\ \A d \in DOMAIN streams : streams[d] \in Nat
    BY DEF BrokerInv, BrokerTyped, HostResponds
  <1>1. /\ hostCalls' = hostCalls \ {c}
        /\ UNCHANGED <<outcome, posted, controlUp, dataUp, inFlight, port, credits, parts, workerUp, cut>>
    BY DEF HostResponds, upVars, pastVars
  <1>2. Asking(c) /\ Unanswered(c) /\ outcome[c] # "idle" /\ c \notin posted
        /\ NoneAt(controlUp, c) /\ NoneAt(dataUp, c)
    BY <1>0 DEF BrokerInv, AskedOnce, NothingEarly, Asking
  <1>3. /\ controlDown' \in Seq(ControlFrames) /\ dataDown' \in Seq(Answers)
        /\ DOMAIN streams' \subseteq BCalls /\ \A d \in DOMAIN streams' : streams'[d] \in Nat
        /\ OthersDown(c)
        /\ \/ NoPart(dataDown', c) /\ c \notin DOMAIN streams'
           \/ /\ OnePart(dataDown', c, 0) /\ ~NoPart(dataDown', c)
              /\ c \in DOMAIN streams' /\ streams'[c] = 1
    <2> DEFINE e == [kind |-> "part", call |-> c, seq |-> 0]
    <2>1. /\ e \in Answers /\ IsPart(e, c) /\ e.seq = 0
          /\ \A d : d # c => ~IsPart(e, d)
      BY DEF Answers, IsPart
    <2>2. \/ /\ \E kind \in {"ok", "failed"} : controlDown' = Append(controlDown, Msg(kind, c))
             /\ dataDown' = dataDown /\ streams' = streams
          \/ /\ dataDown' = Append(dataDown, Msg("ok", c))
             /\ controlDown' = controlDown /\ streams' = streams
          \/ /\ dataDown' = Append(dataDown, e) /\ streams' = With(streams, c, 1)
             /\ controlDown' = controlDown
      BY DEF HostResponds, Respond, Reply, SendPart
    <2> HIDE DEF e
    <2>3. CASE /\ \E kind \in {"ok", "failed"} : controlDown' = Append(controlDown, Msg(kind, c))
               /\ dataDown' = dataDown /\ streams' = streams
      <3>1. controlDown' \in Seq(ControlFrames)
        BY <1>0, <2>3, FailedIs, AppendIs
      <3> QED
        BY <1>0, <1>2, <2>3, <3>1 DEF OthersDown, Unanswered
    <2>4. CASE /\ dataDown' = Append(dataDown, Msg("ok", c))
               /\ controlDown' = controlDown /\ streams' = streams
      <3>1. Msg("ok", c) \in Answers /\ \A d : ~IsPart(Msg("ok", c), d)
        BY FailedIs DEF IsPart
      <3>2. /\ dataDown' \in Seq(Answers)
            /\ \A d : NoPart(dataDown', d) <=> NoPart(dataDown, d)
            /\ \A d, n : OnePart(dataDown', d, n) <=> OnePart(dataDown, d, n)
        BY <1>0, <2>4, <3>1, NotParts
      <3> QED
        BY <1>0, <1>2, <2>4, <3>2 DEF OthersDown, Unanswered
    <2>5. CASE /\ dataDown' = Append(dataDown, e) /\ streams' = With(streams, c, 1)
               /\ controlDown' = controlDown
      <3>1. /\ dataDown' \in Seq(Answers)
            /\ \A d : d # c => (NoPart(dataDown', d) <=> NoPart(dataDown, d))
            /\ \A d, n : d # c => (OnePart(dataDown', d, n) <=> OnePart(dataDown, d, n))
        BY <1>0, <2>1, <2>5, NotParts, AppendIs
      <3>2. OnePart(dataDown', c, 0) /\ ~NoPart(dataDown', c)
        BY <1>0, <1>2, <2>1, <2>5, PartJoins DEF Unanswered
      <3>3. /\ DOMAIN streams' = DOMAIN streams \cup {c} /\ streams'[c] = 1
            /\ \A d \in DOMAIN streams : d # c => streams'[d] = streams[d]
        BY <2>5 DEF With
      <3>4. DOMAIN streams' \subseteq BCalls /\ \A d \in DOMAIN streams' : streams'[d] \in Nat
        BY <1>0, <3>3
      <3> QED
        BY <1>0, <2>5, <3>1, <3>2, <3>3, <3>4 DEF OthersDown
    <2> QED
      BY <2>2, <2>3, <2>4, <2>5
  <1>4. BrokerTyped'
    BY <1>1, <1>3 DEF BrokerInv, BrokerTyped
  <1>5. \A d \in BCalls : Asking(d)' => Asking(d) /\ d # c
    BY <1>1, <1>2 DEF Asking
  <1>6. AskedOnce'
    BY <1>1, <1>5 DEF BrokerInv, AskedOnce
  <1>7. NothingEarly'
    <2> SUFFICES ASSUME NEW d \in BCalls, outcome[d] = "idle" \/ Asking(d)'
                 PROVE  /\ NoPart(port, d) /\ NoPart(dataDown', d) /\ NoneAt(credits, d)
                        /\ d \notin DOMAIN streams' /\ d \notin DOMAIN parts
      BY <1>1 DEF NothingEarly, Unanswered
    <2>1. d # c /\ Unanswered(d)
      BY <1>2, <1>5 DEF BrokerInv, NothingEarly
    <2> QED
      BY <1>3, <2>1 DEF Unanswered, OthersDown
  <1>8. OneUnderWay'
    <2> SUFFICES ASSUME NEW d \in BCalls, outcome[d] = "pending"
                 PROVE  /\ OnePart(port, d, Received(d)) /\ OnePart(dataDown', d, Received(d))
                        /\ OneAt(credits, d)
                        /\ NoPart(port, d) \/ NoPart(dataDown', d)
                        /\ ~NoneAt(credits, d) => NoPart(port, d) /\ NoPart(dataDown', d)
                        /\ d \in DOMAIN streams' =>
                             /\ ~NoPart(port, d) \/ ~NoPart(dataDown', d) => streams'[d] = Received(d) + 1
                             /\ ~NoneAt(credits, d) => streams'[d] = Received(d)
      BY <1>1 DEF OneUnderWay, Received
    <2>1. CASE d = c
      <3>1. /\ NoPart(port, d) /\ NoneAt(credits, d) /\ Received(d) = 0
            /\ OnePart(port, d, 0) /\ OneAt(credits, d)
        BY <1>2, <2>1 DEF Unanswered, Received, NoPart, OnePart, NoneAt, OneAt
      <3>2. NoPart(dataDown', d) => OnePart(dataDown', d, 0)
        BY DEF NoPart, OnePart
      <3> QED
        BY <1>3, <2>1, <3>1, <3>2
    <2>2. CASE d # c
      BY <1>3, <2>2 DEF BrokerInv, OneUnderWay, OthersDown
    <2> QED
      BY <2>1, <2>2
  <1>9. CutFirst'
    BY <1>1 DEF BrokerInv, CutFirst
  <1> QED
    BY <1>4, <1>6, <1>7, <1>8, <1>9 DEF BrokerInv

LEMMA ProcCreditArrives ==
  ASSUME BrokerInv, CreditArrives
  PROVE  BrokerInv'
  <1> DEFINE c == Head(credits)
  <1>0. /\ credits \in Seq(BCalls) /\ credits # <<>> /\ dataDown \in Seq(Answers)
        /\ DOMAIN streams \subseteq BCalls /\ \A d \in DOMAIN streams : streams[d] \in Nat
    BY DEF BrokerInv, BrokerTyped, CreditArrives
  <1>1. /\ credits' = Tail(credits)
        /\ UNCHANGED <<outcome, posted, controlUp, dataUp, inFlight, hostCalls, controlDown, port, parts,
                       workerUp, cut>>
    BY DEF CreditArrives, upVars, pastVars
  <1>2. /\ credits' \in Seq(BCalls) /\ c \in BCalls /\ ~NoneAt(credits, c)
        /\ \A d \in BCalls : /\ NoneAt(credits, d) => NoneAt(credits', d)
                             /\ OneAt(credits, d) => OneAt(credits', d)
        /\ OneAt(credits, c) => NoneAt(credits', c)
    BY <1>0, <1>1, Leaves
  <1>3. IF c \in DOMAIN streams THEN Granted(c) ELSE UNCHANGED <<dataDown, streams>>
    BY DEF CreditArrives
  <1> HIDE DEF c
  <1>4. outcome[c] # "idle" /\ ~Asking(c)
    BY <1>2 DEF BrokerInv, NothingEarly, Unanswered
  <1>5. outcome[c] = "pending" =>
          /\ NoPart(port, c) /\ NoPart(dataDown, c) /\ OneAt(credits, c)
          /\ c \in DOMAIN streams => streams[c] = Received(c)
    BY <1>2 DEF BrokerInv, OneUnderWay
  <1>6. /\ dataDown' \in Seq(Answers)
        /\ DOMAIN streams' \subseteq BCalls /\ \A d \in DOMAIN streams' : streams'[d] \in Nat
        /\ OthersDown(c)
        /\ NoPart(dataDown, c) =>
             \/ NoPart(dataDown', c) /\ c \notin DOMAIN streams'
             \/ /\ c \in DOMAIN streams /\ OnePart(dataDown', c, streams[c])
                /\ c \in DOMAIN streams' => streams'[c] = streams[c] + 1
    <2>1. CASE c \notin DOMAIN streams
      BY <1>0, <1>3, <2>1 DEF OthersDown
    <2>2. CASE c \in DOMAIN streams
      <3> DEFINE e == [kind |-> "part", call |-> c, seq |-> streams[c]]
      <3>1. streams[c] \in Nat
        BY <1>0, <2>2
      <3>2. /\ e \in Answers /\ IsPart(e, c) /\ e.seq = streams[c]
            /\ \A d : d # c => ~IsPart(e, d)
        BY <1>2, <3>1 DEF Answers, IsPart
      <3>3. /\ dataDown' = Append(dataDown, e)
            /\ streams' = Without(streams, c) \/ streams' = With(streams, c, streams[c] + 1)
        BY <1>3, <2>2 DEF Granted, SendPart
      <3> HIDE DEF e
      <3>4. /\ dataDown' \in Seq(Answers)
            /\ \A d : d # c => (NoPart(dataDown', d) <=> NoPart(dataDown, d))
            /\ \A d, n : d # c => (OnePart(dataDown', d, n) <=> OnePart(dataDown, d, n))
        BY <1>0, <3>2, <3>3, NotParts, AppendIs
      <3>5. NoPart(dataDown, c) => OnePart(dataDown', c, streams[c])
        BY <1>0, <3>2, <3>3, PartJoins
      <3>6. /\ DOMAIN streams' \subseteq DOMAIN streams
            /\ DOMAIN streams \ {c} \subseteq DOMAIN streams'
            /\ \A d \in DOMAIN streams : d # c => streams'[d] = streams[d]
            /\ c \in DOMAIN streams' => streams'[c] = streams[c] + 1
        <4>1. CASE streams' = Without(streams, c)
          BY <2>2, <4>1 DEF Without
        <4>2. CASE streams' = With(streams, c, streams[c] + 1)
          BY <2>2, <4>2 DEF With
        <4> QED
          BY <3>3, <4>1, <4>2
      <3>7. DOMAIN streams' \subseteq BCalls /\ \A d \in DOMAIN streams' : streams'[d] \in Nat
        BY <1>0, <3>1, <3>6
      <3> QED
        BY <2>2, <3>4, <3>5, <3>6, <3>7 DEF OthersDown
    <2> QED
      BY <2>1, <2>2
  <1>7. BrokerTyped'
    BY <1>1, <1>2, <1>6 DEF BrokerInv, BrokerTyped
  <1>8. AskedOnce'
    BY <1>1 DEF BrokerInv, AskedOnce, Asking
  <1>9. NothingEarly'
    <2> SUFFICES ASSUME NEW d \in BCalls, outcome[d] = "idle" \/ Asking(d)
                 PROVE  /\ NoPart(port, d) /\ NoPart(dataDown', d) /\ NoneAt(credits', d)
                        /\ d \notin DOMAIN streams' /\ d \notin DOMAIN parts
      BY <1>1 DEF NothingEarly, Unanswered, Asking
    <2>1. d # c /\ Unanswered(d)
      BY <1>4 DEF BrokerInv, NothingEarly
    <2> QED
      BY <1>2, <1>6, <2>1 DEF Unanswered, OthersDown
  <1>10. OneUnderWay'
    <2> SUFFICES ASSUME NEW d \in BCalls, outcome[d] = "pending"
                 PROVE  /\ OnePart(port, d, Received(d)) /\ OnePart(dataDown', d, Received(d))
                        /\ OneAt(credits', d)
                        /\ NoPart(port, d) \/ NoPart(dataDown', d)
                        /\ ~NoneAt(credits', d) => NoPart(port, d) /\ NoPart(dataDown', d)
                        /\ d \in DOMAIN streams' =>
                             /\ ~NoPart(port, d) \/ ~NoPart(dataDown', d) => streams'[d] = Received(d) + 1
                             /\ ~NoneAt(credits', d) => streams'[d] = Received(d)
      BY <1>1 DEF OneUnderWay, Received
    <2>1. /\ OnePart(port, d, Received(d)) /\ OnePart(dataDown, d, Received(d))
          /\ OneAt(credits, d)
          /\ NoPart(port, d) \/ NoPart(dataDown, d)
          /\ ~NoneAt(credits, d) => NoPart(port, d) /\ NoPart(dataDown, d)
          /\ d \in DOMAIN streams =>
               /\ ~NoPart(port, d) \/ ~NoPart(dataDown, d) => streams[d] = Received(d) + 1
               /\ ~NoneAt(credits, d) => streams[d] = Received(d)
      BY DEF BrokerInv, OneUnderWay
    <2>2. CASE d = c
      <3>1. NoPart(port, d) /\ NoneAt(credits', d) /\ OneAt(credits', d)
        BY <1>2, <1>5, <2>2
      <3>2. NoPart(dataDown', d) => OnePart(dataDown', d, Received(d))
        BY DEF NoPart, OnePart
      <3> QED
        BY <1>5, <1>6, <2>1, <2>2, <3>1, <3>2
    <2>3. CASE d # c
      BY <1>2, <1>6, <2>1, <2>3 DEF OthersDown
    <2> QED
      BY <2>2, <2>3
  <1>11. CutFirst'
    BY <1>1 DEF BrokerInv, CutFirst
  <1> QED
    BY <1>7, <1>8, <1>9, <1>10, <1>11 DEF BrokerInv

LEMMA ProcWorkerReceives ==
  ASSUME BrokerInv, WorkerReceives
  PROVE  BrokerInv'
  <1> DEFINE m == Head(port)
             c == m.call
             Ignored == outcome[c] # "pending" /\ UNCHANGED <<outcome, parts, credits>>
             Ends(k) == /\ outcome[c] = "pending" /\ outcome' = [outcome EXCEPT ![c] = k]
                        /\ m.kind # "part" => k = m.kind
                        /\ parts' = parts \/ parts' = Without(parts, c)
                        /\ credits' = credits
             Goes == /\ outcome[c] = "pending" /\ m.kind = "part" /\ outcome' = outcome
                     /\ parts' = With(parts, c, m.seq + 1) /\ credits' = Append(credits, c)
  <1>0. /\ port \in Seq(Answers) /\ port # <<>> /\ credits \in Seq(BCalls) /\ workerUp
        /\ outcome \in [BCalls -> {"idle", "pending", "ok", "failed"}] /\ cut \subseteq BCalls
        /\ DOMAIN parts \subseteq BCalls /\ \A d \in DOMAIN parts : parts[d] \in Nat
    BY DEF BrokerInv, BrokerTyped, WorkerReceives
  <1>1. /\ port' = Tail(port)
        /\ UNCHANGED <<posted, controlUp, dataUp, inFlight, hostCalls, streams, controlDown, dataDown,
                       workerUp, cut>>
    BY DEF WorkerReceives, upVars, brokerHostVars, downVars, pastVars
  <1>2. /\ m \in Answers /\ port' \in Seq(Answers)
        /\ \A d, n : /\ NoPart(port, d) => NoPart(port', d) /\ ~IsPart(m, d)
                     /\ OnePart(port, d, n) => OnePart(port', d, n)
                     /\ OnePart(port, d, n) /\ IsPart(m, d) => NoPart(port', d) /\ m.seq = n
                     /\ ~IsPart(m, d) => (NoPart(port, d) <=> NoPart(port', d))
    BY <1>0, <1>1, PartLeaves
  <1>3. /\ c \in BCalls /\ m.seq \in Nat /\ m.kind \in {"ok", "failed", "part"}
        /\ IsPart(m, c) <=> m.kind = "part"
        /\ \A d : IsPart(m, d) => d = c
    BY <1>2 DEF Answers, IsPart
  <1>4. \A d : FirstFails(port, d) => IF c = d THEN m.kind = "failed" ELSE FirstFails(port', d)
    BY <1>0, <1>1, FirstLeaves
  <1>5. Ignored \/ (\E k \in {"ok", "failed"} : Ends(k)) \/ Goes
    <2>1. CASE m.kind # "part"
      <3>1. outcome' = Settled(c, m.kind) /\ UNCHANGED <<parts, credits>>
        BY <2>1 DEF WorkerReceives
      <3> QED
        BY <1>3, <2>1, <3>1 DEF Settled
    <2>2. CASE m.kind = "part"
      <3>1. OnPart(m)
        BY <2>2 DEF WorkerReceives
      <3> QED
        BY <2>2, <3>1 DEF OnPart, Settled
    <2> QED
      BY <2>1, <2>2
  <1> HIDE DEF m, Ignored, Ends, Goes
  <1>6. /\ outcome' \in [BCalls -> {"idle", "pending", "ok", "failed"}]
        /\ \A d \in BCalls : /\ outcome'[d] = "pending" => outcome[d] = "pending"
                             /\ outcome'[d] = "idle" => outcome[d] = "idle"
                             /\ d # c => outcome'[d] = outcome[d]
                             /\ outcome[d] = "failed" => outcome'[d] = "failed"
        /\ outcome'[c] = "pending" => Goes
        /\ outcome[c] = "pending" /\ m.kind = "failed" => outcome'[c] = "failed"
    BY <1>0, <1>3, <1>5 DEF Ignored, Ends, Goes
  <1>7. /\ credits' \in Seq(BCalls)
        /\ \A d \in BCalls : d # c => /\ NoneAt(credits', d) <=> NoneAt(credits, d)
                                      /\ OneAt(credits', d) <=> OneAt(credits, d)
        /\ Goes \/ credits' = credits
    <2>1. CASE Goes
      <3>1. credits' = Append(credits, c)
        BY <2>1 DEF Goes
      <3> QED
        BY <1>0, <1>3, <2>1, <3>1, Joins
    <2>2. CASE ~Goes
      <3>1. credits' = credits
        BY <1>5, <2>2 DEF Ignored, Ends
      <3> QED
        BY <1>0, <3>1
    <2> QED
      BY <2>1, <2>2
  <1>8. /\ DOMAIN parts' \subseteq BCalls /\ \A d \in DOMAIN parts' : parts'[d] \in Nat
        /\ \A d \in BCalls : d # c => /\ d \in DOMAIN parts' <=> d \in DOMAIN parts
                                      /\ d \in DOMAIN parts => parts'[d] = parts[d]
        /\ ~Goes => DOMAIN parts' \subseteq DOMAIN parts
    <2>1. CASE Goes
      <3>1. parts' = With(parts, c, m.seq + 1) /\ m.seq + 1 \in Nat
        BY <1>3, <2>1 DEF Goes
      <3> QED
        BY <1>0, <1>3, <2>1, <3>1 DEF With
    <2>2. CASE ~Goes
      <3>1. parts' = parts \/ parts' = Without(parts, c)
        BY <1>5, <2>2 DEF Ignored, Ends
      <3> QED
        BY <1>0, <2>2, <3>1 DEF Without
    <2> QED
      BY <2>1, <2>2
  <1>9. Goes => IsPart(m, c) /\ ~NoPart(port, c) /\ outcome[c] = "pending"
    BY <1>2, <1>3 DEF Goes
  <1>10. BrokerTyped'
    BY <1>0, <1>1, <1>2, <1>6, <1>7, <1>8 DEF BrokerInv, BrokerTyped
  <1>11. AskedOnce'
    BY <1>1, <1>6 DEF BrokerInv, AskedOnce, Asking
  <1>12. NothingEarly'
    <2> SUFFICES ASSUME NEW d \in BCalls, outcome'[d] = "idle" \/ Asking(d)
                 PROVE  /\ NoPart(port', d) /\ NoPart(dataDown, d) /\ NoneAt(credits', d)
                        /\ d \notin DOMAIN streams /\ d \notin DOMAIN parts'
      BY <1>1 DEF NothingEarly, Unanswered, Asking
    <2>1. Unanswered(d)
      BY <1>6 DEF BrokerInv, NothingEarly
    <2>2. NoPart(port', d) /\ NoPart(dataDown, d) /\ d \notin DOMAIN streams
      BY <1>2, <2>1 DEF Unanswered
    <2>3. CASE d = c
      <3>1. ~Goes
        BY <1>9, <2>1, <2>3 DEF Unanswered
      <3> QED
        BY <1>7, <1>8, <2>1, <2>2, <2>3, <3>1 DEF Unanswered
    <2>4. CASE d # c
      BY <1>7, <1>8, <2>1, <2>2, <2>4 DEF Unanswered
    <2> QED
      BY <2>3, <2>4
  <1>13. OneUnderWay'
    <2> SUFFICES ASSUME NEW d \in BCalls, outcome'[d] = "pending"
                 PROVE  /\ OnePart(port', d, Received(d)') /\ OnePart(dataDown, d, Received(d)')
                        /\ OneAt(credits', d)
                        /\ NoPart(port', d) \/ NoPart(dataDown, d)
                        /\ ~NoneAt(credits', d) => NoPart(port', d) /\ NoPart(dataDown, d)
                        /\ d \in DOMAIN streams =>
                             /\ ~NoPart(port', d) \/ ~NoPart(dataDown, d) => streams[d] = Received(d)' + 1
                             /\ ~NoneAt(credits', d) => streams[d] = Received(d)'
      BY <1>1 DEF OneUnderWay
    <2>1. /\ OnePart(port, d, Received(d)) /\ OnePart(dataDown, d, Received(d))
          /\ OneAt(credits, d)
          /\ NoPart(port, d) \/ NoPart(dataDown, d)
          /\ ~NoneAt(credits, d) => NoPart(port, d) /\ NoPart(dataDown, d)
          /\ d \in DOMAIN streams =>
               /\ ~NoPart(port, d) \/ ~NoPart(dataDown, d) => streams[d] = Received(d) + 1
               /\ ~NoneAt(credits, d) => streams[d] = Received(d)
      BY <1>6 DEF BrokerInv, OneUnderWay
    <2>2. CASE d = c
      <3>1. Goes /\ IsPart(m, d) /\ ~NoPart(port, d)
        BY <1>6, <1>9, <2>2
      <3>2. m.seq = Received(d) /\ NoPart(port', d) /\ NoPart(dataDown, d) /\ NoneAt(credits, d)
        BY <1>2, <2>1, <3>1
      <3>3. Received(d)' = m.seq + 1
        <4>1. parts' = With(parts, d, m.seq + 1)
          BY <2>2, <3>1 DEF Goes
        <4> QED
          BY <4>1 DEF Received, With
      <3>4. OneAt(credits', d)
        <4>1. credits' = Append(credits, d)
          BY <2>2, <3>1 DEF Goes
        <4> QED
          BY <1>0, <3>2, <4>1, Joins
      <3>5. OnePart(port', d, Received(d)') /\ OnePart(dataDown, d, Received(d)')
        BY <3>2 DEF NoPart, OnePart
      <3>6. d \in DOMAIN streams => streams[d] = Received(d)'
        BY <2>1, <3>1, <3>2, <3>3
      <3> QED
        BY <3>2, <3>4, <3>5, <3>6
    <2>3. CASE d # c
      <3>1. ~IsPart(m, d) /\ Received(d)' = Received(d)
        BY <1>3, <1>8, <2>3 DEF Received
      <3>2. /\ NoneAt(credits', d) <=> NoneAt(credits, d)
            /\ OneAt(credits', d) <=> OneAt(credits, d)
            /\ NoPart(port, d) <=> NoPart(port', d)
            /\ OnePart(port', d, Received(d))
        BY <1>2, <1>7, <2>1, <2>3, <3>1
      <3> QED
        BY <2>1, <3>1, <3>2
    <2> QED
      BY <2>2, <2>3
  <1>14. CutFirst'
    <2> SUFFICES ASSUME NEW d \in cut
                 PROVE  outcome'[d] = "failed" \/ (outcome'[d] = "pending" /\ FirstFails(port', d))
      BY <1>1 DEF CutFirst
    <2>1. d \in BCalls /\ (outcome[d] = "failed" \/ (outcome[d] = "pending" /\ FirstFails(port, d)))
      BY <1>0 DEF BrokerInv, CutFirst
    <2>2. CASE outcome[d] = "failed"
      BY <1>6, <2>1, <2>2
    <2>3. CASE outcome[d] = "pending" /\ FirstFails(port, d)
      <3>1. CASE d = c
        BY <1>4, <1>6, <2>3, <3>1
      <3>2. CASE d # c
        BY <1>4, <1>6, <2>1, <2>3, <3>2
      <3> QED
        BY <3>1, <3>2
    <2> QED
      BY <2>1, <2>2, <2>3
  <1> QED
    BY <1>10, <1>11, <1>12, <1>13, <1>14 DEF BrokerInv

LEMMA NextBroker == BrokerInv /\ [BrokerNext]_brokerCallVars => BrokerInv'
  <1> SUFFICES ASSUME BrokerInv, [BrokerNext]_brokerCallVars PROVE BrokerInv'
    OBVIOUS
  <1>1. CASE UNCHANGED brokerCallVars
    <2>1. UNCHANGED <<outcome, posted, inFlight, controlUp, dataUp, hostCalls, controlDown, dataDown,
                      port, streams, credits, parts, workerUp, cut>>
      BY <1>1 DEF brokerCallVars
    <2>2. BrokerTyped'
      BY <2>1 DEF BrokerInv, BrokerTyped
    <2>3. AskedOnce' /\ NothingEarly' /\ CutFirst'
      BY <2>1 DEF BrokerInv, AskedOnce, NothingEarly, Asking, Unanswered, CutFirst
    <2>4. OneUnderWay'
      BY <2>1 DEF BrokerInv, OneUnderWay, Received
    <2> QED
      BY <2>2, <2>3, <2>4 DEF BrokerInv
  <1>2. CASE BrokerNext
    <2>1. CASE BrokerRuns
      BY <2>1, ProcWorkerReceives, ProcRuntimeControl, ProcRuntimeData, ProcBrokerReceives,
         ProcCreditArrives, ProcSubmit, ProcHostResponds DEF BrokerRuns
    <2>2. CASE RevokeCapability \/ WorkerExits
      BY <2>2, ProcRevokes, ProcWorkerExits
    <2>3. CASE \E c \in BCalls : InvokeBrokerCall(c) \/ CallerAborts(c) \/ RuntimeDeadline(c)
      BY <2>3, ProcInvoke, ProcCallerAborts, ProcBrokerDeadline
    <2> QED
      BY <1>2, <2>1, <2>2, <2>3 DEF BrokerNext
  <1> QED
    BY <1>1, <1>2

LEMMA AnswersFollow == BrokerInv => AnswersSound
  <1> SUFFICES ASSUME BrokerInv PROVE AnswersSound
    OBVIOUS
  <1>1. CutFails
    BY DEF BrokerInv, CutFirst, CutFails
  <1>2. StreamWhole
    <2> SUFFICES ASSUME NEW i \in DOMAIN port, port[i].kind = "part",
                        outcome[port[i].call] = "pending"
                 PROVE  LET c == port[i].call
                            earlier == {j \in 1 .. i - 1 : port[j].kind = "part" /\ port[j].call = c}
                        IN  port[i].seq = Cardinality(earlier)
                                          + (IF c \in DOMAIN parts THEN parts[c] ELSE 0)
      BY DEF StreamWhole
    <2> DEFINE c == port[i].call
               earlier == {j \in 1 .. i - 1 : port[j].kind = "part" /\ port[j].call = c}
    <2>1. port \in Seq(Answers)
      BY DEF BrokerInv, BrokerTyped
    <2>2. port[i] \in Answers /\ c \in BCalls /\ IsPart(port[i], c)
      <3>1. port[i] \in Answers
        BY <2>1
      <3> QED
        BY <3>1 DEF Answers, IsPart
    <2>3. OnePart(port, c, Received(c))
      BY <2>2 DEF BrokerInv, OneUnderWay
    <2>4. port[i].seq = Received(c) /\ port[i].seq \in Nat
      <3> HIDE DEF c
      <3>1. port[i].seq = Received(c)
        BY <2>2, <2>3 DEF OnePart
      <3>2. port[i].seq \in Nat
        BY <2>2 DEF Answers
      <3> QED
        BY <3>1, <3>2
    <2>5. earlier = {}
      <3> SUFFICES ASSUME NEW j \in 1 .. i - 1, port[j].kind = "part", port[j].call = c
                   PROVE  FALSE
        OBVIOUS
      <3>1. j \in DOMAIN port /\ j # i
        BY <2>1
      <3> QED
        BY <2>2, <2>3, <3>1 DEF OnePart, IsPart
    <2>6. Cardinality(earlier) = 0
      BY <2>5, FS_EmptySet
    <2> HIDE DEF earlier
    <2> QED
      BY <2>4, <2>6 DEF Received, earlier
  <1> QED
    BY <1>1, <1>2 DEF AnswersSound

\* Whatever calls a worker makes, in whatever order answers, parts, credits,
\* deadlines, revocations and the worker's exit come: a call that a revocation ended
\* does not succeed, and the parts of a streamed answer reach the plugin in order
\* and without a gap.
THEOREM AnswersAreSound == BrokerSpec => []AnswersSound
  BY InitBroker, NextBroker, AnswersFollow, PTL DEF BrokerSpec

\* A call settles once: an answer, a part or a failure that comes after the deadline, a
\* revocation, the caller's abort or the worker's exit does not change what the
\* plugin saw (handleRpcResponse and handleRpcResponseStream look the call up in
\* pendingCalls first).
THEOREM CallsAreFinal == BrokerSpec => CallSettlesOnce
  <1> DEFINE Over(c) == outcome[c] \in {"ok", "failed"}
             Kept == \A c \in BCalls : Over(c) => outcome'[c] = outcome[c]
  <1>1. BrokerInv /\ [BrokerNext]_brokerCallVars => [Kept]_brokerCallVars
    <2> SUFFICES ASSUME BrokerInv, BrokerNext, NEW c \in BCalls, Over(c)
                 PROVE  outcome'[c] = outcome[c]
      OBVIOUS
    <2>1. outcome[c] # "pending" /\ outcome[c] # "idle" /\ DOMAIN outcome = BCalls
      BY DEF BrokerInv, BrokerTyped
    <2>2. \/ outcome' = outcome
          \/ \E d, s : d # c /\ outcome' = [outcome EXCEPT ![d] = s]
          \/ outcome' = [d \in BCalls |-> IF outcome[d] = "pending" THEN "failed" ELSE outcome[d]]
      <3>1. ASSUME NEW d \in BCalls,
                   \/ InvokeBrokerCall(d) \/ CallerAborts(d) \/ RuntimeDeadline(d)
                   \/ Submit(d) \/ HostResponds(d)
            PROVE  outcome' = outcome \/ \E e, s : e # c /\ outcome' = [outcome EXCEPT ![e] = s]
        BY <2>1, <3>1 DEF InvokeBrokerCall, CallerAborts, RuntimeDeadline, Submit, HostResponds
      <3>2. CASE WorkerReceives
        <4>1. PICK m : m = Head(port)
          OBVIOUS
        <4>2. outcome' = outcome \/ \E s : outcome' = Settled(m.call, s)
          BY <3>2, <4>1 DEF WorkerReceives, OnPart
        <4> QED
          BY <2>1, <4>2 DEF Settled
      <3>3. CASE RuntimeControl \/ RuntimeData \/ BrokerReceives \/ CreditArrives
                   \/ RevokeCapability
        BY <3>3 DEF RuntimeControl, RuntimeData, BrokerReceives, CreditArrives, RevokeCapability
      <3>4. CASE WorkerExits
        BY <3>4 DEF WorkerExits
      <3> QED
        BY <3>1, <3>2, <3>3, <3>4 DEF BrokerNext, BrokerRuns
    <2> QED
      BY <2>1, <2>2
  <1> QED
    BY <1>1, InitBroker, NextBroker, PTL DEF BrokerSpec, CallSettlesOnce
=============================================================================
