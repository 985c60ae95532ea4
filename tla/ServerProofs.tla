---------------------------- MODULE ServerProofs ----------------------------
(***************************************************************************)
(* Parts of the plugin host of the Node server, proved for every value of  *)
(* their constants: the bodies that a backend plugin streams are whole and *)
(* bounded in the host's memory, for any number of requests at once; the   *)
(* package of a plugin agrees with its registry row and is never lost, for *)
(* any number of installs, updates, deletes and server crashes; and every  *)
(* worker process, registration and governor entry has its owner, for any  *)
(* number of lifecycle requests, processes, samples and crashes.           *)
(***************************************************************************)
EXTENDS RouteStreams, PluginPackages, BackendHost, FiniteSetTheorems, SequenceTheorems, TLAPS

-----------------------------------------------------------------------------
(* Messages in a channel.                                                  *)

LEMMA Appended ==
  ASSUME NEW S, NEW q \in Seq(S), NEW m \in S
  PROVE  /\ Append(q, m) \in Seq(S) /\ Len(Append(q, m)) = Len(q) + 1
         /\ Len(q) \in Nat /\ DOMAIN q = 1 .. Len(q)
         /\ DOMAIN Append(q, m) = 1 .. Len(q) + 1
         /\ \A k \in DOMAIN q : Append(q, m)[k] = q[k]
         /\ Append(q, m)[Len(q) + 1] = m
  OBVIOUS

LEMMA Taken ==
  ASSUME NEW S, NEW q \in Seq(S), q # <<>>
  PROVE  /\ Tail(q) \in Seq(S) /\ Len(Tail(q)) = Len(q) - 1
         /\ Len(q) \in Nat \ {0} /\ DOMAIN q = 1 .. Len(q)
         /\ DOMAIN Tail(q) = 1 .. Len(q) - 1
         /\ \A k \in DOMAIN Tail(q) : k + 1 \in DOMAIN q /\ Tail(q)[k] = q[k + 1]
         /\ Head(q) = q[1] /\ 1 \in DOMAIN q /\ Head(q) \in S
  OBVIOUS

Chunk(m, i) == m.t = "chunk" /\ m.i = i
ChunksIn(q, i) == Cardinality({k \in DOMAIN q : Chunk(q[k], i)})
Says(q, i, t) == \E k \in DOMAIN q : q[k].i = i /\ q[k].t = t

LEMMA CountType ==
  ASSUME NEW S, NEW q \in Seq(S), NEW i
  PROVE  /\ IsFiniteSet({k \in DOMAIN q : Chunk(q[k], i)})
         /\ ChunksIn(q, i) \in Nat
         /\ (\A k \in DOMAIN q : ~Chunk(q[k], i)) => ChunksIn(q, i) = 0
  <1> DEFINE C == {k \in DOMAIN q : Chunk(q[k], i)}
  <1>1. Len(q) \in Nat /\ DOMAIN q = 1 .. Len(q)
    OBVIOUS
  <1>2. IsFiniteSet(1 .. Len(q))
    BY <1>1, FS_Interval
  <1>3. C \in SUBSET (1 .. Len(q))
    BY <1>1
  <1>4. IsFiniteSet(C)
    BY <1>2, <1>3, FS_Subset
  <1>5. Cardinality(C) \in Nat
    BY <1>4, FS_CardinalityType
  <1>6. (\A k \in DOMAIN q : ~Chunk(q[k], i)) => C = {}
    OBVIOUS
  <1> QED
    BY <1>4, <1>5, <1>6, FS_EmptySet DEF ChunksIn

LEMMA CountAppend ==
  ASSUME NEW S, NEW q \in Seq(S), NEW m \in S, NEW i
  PROVE  ChunksIn(Append(q, m), i) = ChunksIn(q, i) + (IF Chunk(m, i) THEN 1 ELSE 0)
  <1> DEFINE C == {k \in DOMAIN q : Chunk(q[k], i)}
             r == Append(q, m)
             D == {k \in DOMAIN r : Chunk(r[k], i)}
             n == Len(q) + 1
  <1>1. /\ n \in Nat /\ n \notin DOMAIN q /\ DOMAIN r = DOMAIN q \cup {n}
        /\ (\A k \in DOMAIN q : r[k] = q[k]) /\ r[n] = m
    BY Appended
  <1>2. IsFiniteSet(C) /\ Cardinality(C) \in Nat
    BY CountType DEF ChunksIn
  <1>3. n \notin C
    BY <1>1
  <1>7. ChunksIn(q, i) = Cardinality(C) /\ ChunksIn(Append(q, m), i) = Cardinality(D)
    BY DEF ChunksIn
  <1> HIDE DEF n, r
  <1>4. CASE Chunk(m, i)
    <2>1. D = C \cup {n}
      BY <1>1, <1>4
    <2>2. Cardinality(C \cup {n}) = Cardinality(C) + 1
      BY <1>2, <1>3, FS_AddElement
    <2> QED
      BY <2>1, <2>2, <1>4, <1>7
  <1>5. CASE ~Chunk(m, i)
    <2>1. D = C
      BY <1>1, <1>5
    <2> HIDE DEF C, D
    <2> QED
      BY <2>1, <1>2, <1>5, <1>7
  <1> QED
    BY <1>4, <1>5

LEMMA CountTail ==
  ASSUME NEW S, NEW q \in Seq(S), q # <<>>, NEW i
  PROVE  ChunksIn(q, i) = ChunksIn(Tail(q), i) + (IF Chunk(Head(q), i) THEN 1 ELSE 0)
  <1> DEFINE C == {k \in DOMAIN q : Chunk(q[k], i)}
             r == Tail(q)
             D == {k \in DOMAIN r : Chunk(r[k], i)}
             E == C \ {1}
             f == [k \in D |-> k + 1]
  <1>1. /\ r \in Seq(S) /\ Len(q) \in Nat \ {0} /\ DOMAIN q = 1 .. Len(q)
        /\ DOMAIN r = 1 .. Len(q) - 1
        /\ \A k \in DOMAIN r : k + 1 \in DOMAIN q /\ r[k] = q[k + 1]
        /\ Head(q) = q[1] /\ 1 \in DOMAIN q
    BY Taken
  <1> HIDE DEF r
  <1>2. /\ IsFiniteSet(C) /\ Cardinality(C) \in Nat
        /\ IsFiniteSet(D) /\ Cardinality(D) \in Nat
    BY <1>1, CountType DEF ChunksIn
  <1>3. ExistsBijection(D, E)
    <2>1. \A k \in D : k \in Nat /\ f[k] = k + 1 /\ f[k] \in E
      BY <1>1
    <2>2. f \in [D -> E]
      BY <2>1
    <2>3. \A j, k \in D : f[j] = f[k] => j = k
      BY <2>1
    <2>4. ASSUME NEW e \in E
          PROVE  \E k \in D : f[k] = e
      <3>1. e \in Int /\ e \in 2 .. Len(q) /\ Chunk(q[e], i)
        BY <1>1
      <3>2. e - 1 \in DOMAIN r /\ (e - 1) + 1 = e
        BY <1>1, <3>1
      <3>3. e - 1 \in D
        BY <1>1, <3>1, <3>2
      <3> QED
        BY <3>2, <3>3
    <2> HIDE DEF f, D, E
    <2>5. f \in Bijection(D, E)
      BY <2>2, <2>3, <2>4 DEF Bijection, Injection, Surjection, IsInjective
    <2> QED
      BY <2>5 DEF ExistsBijection
  <1>4. IsFiniteSet(E) /\ Cardinality(E) = Cardinality(D)
    BY <1>2, <1>3, FS_Bijection
  <1>5. Cardinality(C) = Cardinality(E) + (IF 1 \in C THEN 1 ELSE 0)
    <2>1. Cardinality(E) = IF 1 \in C THEN Cardinality(C) - 1 ELSE Cardinality(C)
      BY <1>2, FS_RemoveElement
    <2> QED
      BY <2>1, <1>2
  <1>6. 1 \in C <=> Chunk(Head(q), i)
    BY <1>1
  <1>7. ChunksIn(q, i) = Cardinality(C) /\ ChunksIn(Tail(q), i) = Cardinality(D)
    BY DEF ChunksIn, r
  <1> QED
    BY <1>4, <1>5, <1>6, <1>7

\* n is what the acknowledgements in a channel release for i: g holds the
\* sums of its suffixes.
AckOf(m, i) == IF m.t = "ack" /\ m.i = i THEN m.n ELSE 0
Sums(g, q, i) ==
    /\ g \in [1 .. Len(q) + 1 -> Nat] /\ g[Len(q) + 1] = 0
    /\ \A k \in 1 .. Len(q) : g[k] = AckOf(q[k], i) + g[k + 1]
Acked(q, i, n) == \E g : Sums(g, q, i) /\ g[1] = n

LEMMA AckedNone == ASSUME NEW i PROVE Acked(<<>>, i, 0)
  <1> DEFINE g == [k \in 1 .. 1 |-> 0]
  <1>1. Sums(g, <<>>, i) /\ g[1] = 0
    BY DEF Sums
  <1> QED
    BY <1>1 DEF Acked

LEMMA AckedAppend ==
  ASSUME NEW S, NEW q \in Seq(S), NEW m \in S, NEW i, NEW n, Acked(q, i, n),
         \A x \in S : AckOf(x, i) \in Nat
  PROVE  n + AckOf(m, i) \in Nat /\ Acked(Append(q, m), i, n + AckOf(m, i))
  <1> DEFINE a == AckOf(m, i)
             r == Append(q, m)
  <1>1. PICK g : Sums(g, q, i) /\ g[1] = n
    BY DEF Acked
  <1> DEFINE h == [k \in 1 .. Len(r) + 1 |-> IF k <= Len(q) + 1 THEN g[k] + a ELSE 0]
  <1>2. /\ Len(r) = Len(q) + 1 /\ Len(q) \in Nat /\ DOMAIN q = 1 .. Len(q)
        /\ (\A k \in 1 .. Len(q) : r[k] = q[k]) /\ r[Len(q) + 1] = m
    BY Appended
  <1>3. /\ \A k \in 1 .. Len(q) + 1 : g[k] \in Nat
        /\ g[Len(q) + 1] = 0 /\ a \in Nat
        /\ \A k \in 1 .. Len(q) : g[k] = AckOf(q[k], i) + g[k + 1]
    BY <1>1 DEF Sums
  <1> HIDE DEF a, r
  <1>4. /\ h \in [1 .. Len(r) + 1 -> Nat] /\ h[Len(r) + 1] = 0 /\ h[1] = n + a
        /\ n \in Nat
    BY <1>1, <1>2, <1>3
  <1>5. ASSUME NEW k \in 1 .. Len(r)
        PROVE  h[k] = AckOf(r[k], i) + h[k + 1]
    <2>1. CASE k \in 1 .. Len(q)
      <3>0. /\ k \in 1 .. Len(q) + 1 /\ k + 1 \in 1 .. Len(q) + 1
            /\ k \in 1 .. Len(r) + 1 /\ k + 1 \in 1 .. Len(r) + 1
            /\ k <= Len(q) + 1 /\ k + 1 <= Len(q) + 1
        BY <2>1, <1>2
      <3>1. h[k] = g[k] + a /\ h[k + 1] = g[k + 1] + a /\ g[k] \in Nat /\ g[k + 1] \in Nat
        BY <3>0, <1>3
      <3>2. r[k] = q[k] /\ g[k] = AckOf(q[k], i) + g[k + 1]
        BY <2>1, <1>2, <1>3
      <3>3. q[k] \in S
        BY <2>1, <1>2
      <3>4. AckOf(q[k], i) \in Nat
        BY <3>3
      <3> QED
        BY <3>1, <3>2, <3>4, <1>3
    <2>2. CASE k = Len(q) + 1
      <3>1. h[k] = 0 + a /\ h[k + 1] = 0 /\ AckOf(r[k], i) = a
        BY <2>2, <1>2, <1>3 DEF a
      <3> QED
        BY <3>1, <1>3
    <2> QED
      BY <2>1, <2>2, <1>2
  <1>6. Sums(h, r, i)
    BY <1>4, <1>5 DEF Sums
  <1> QED
    BY <1>4, <1>6, <1>3 DEF Acked, a, r

LEMMA AckedTail ==
  ASSUME NEW S, NEW q \in Seq(S), q # <<>>, NEW i, NEW n, Acked(q, i, n)
  PROVE  \E l \in Nat : Acked(Tail(q), i, l) /\ n = AckOf(Head(q), i) + l
  <1> DEFINE r == Tail(q)
  <1>1. PICK g : Sums(g, q, i) /\ g[1] = n
    BY DEF Acked
  <1> DEFINE h == [k \in 1 .. Len(r) + 1 |-> g[k + 1]]
  <1>2. /\ Len(r) = Len(q) - 1 /\ Len(q) \in Nat \ {0}
        /\ DOMAIN r = 1 .. Len(q) - 1
        /\ (\A k \in DOMAIN r : r[k] = q[k + 1]) /\ Head(q) = q[1]
    BY Taken
  <1>3. /\ \A k \in 1 .. Len(q) + 1 : g[k] \in Nat
        /\ g[Len(q) + 1] = 0
        /\ \A k \in 1 .. Len(q) : g[k] = AckOf(q[k], i) + g[k + 1]
    BY <1>1 DEF Sums
  <1> HIDE DEF r
  <1>4. /\ h \in [1 .. Len(r) + 1 -> Nat] /\ h[Len(r) + 1] = 0
        /\ h[1] = g[2] /\ g[2] \in Nat /\ n = AckOf(Head(q), i) + g[2]
    BY <1>1, <1>2, <1>3
  <1>5. ASSUME NEW k \in 1 .. Len(r)
        PROVE  h[k] = AckOf(r[k], i) + h[k + 1]
    <2>1. /\ k + 1 \in 1 .. Len(q) /\ h[k] = g[k + 1] /\ h[k + 1] = g[(k + 1) + 1]
          /\ r[k] = q[k + 1]
      BY <1>2, SMTT(30)
    <2>2. g[k + 1] = AckOf(q[k + 1], i) + g[(k + 1) + 1]
      BY <2>1, <1>3
    <2> QED
      BY <2>1, <2>2
  <1>6. Sums(h, r, i)
    BY <1>4, <1>5 DEF Sums
  <1> QED
    BY <1>4, <1>6 DEF Acked, r

LEMMA SaysAppend ==
  ASSUME NEW S, NEW q \in Seq(S), NEW m \in S, NEW i, NEW t
  PROVE  Says(Append(q, m), i, t) <=> Says(q, i, t) \/ (m.i = i /\ m.t = t)
  <1> DEFINE r == Append(q, m)
  <1>1. /\ Len(q) \in Nat /\ DOMAIN q = 1 .. Len(q) /\ DOMAIN r = 1 .. Len(q) + 1
        /\ (\A k \in DOMAIN q : r[k] = q[k]) /\ r[Len(q) + 1] = m
    BY Appended
  <1> HIDE DEF r
  <1>2. Says(r, i, t) <=> Says(q, i, t) \/ (m.i = i /\ m.t = t)
    BY <1>1 DEF Says
  <1> QED
    BY <1>2 DEF r

LEMMA SaysTail ==
  ASSUME NEW S, NEW q \in Seq(S), q # <<>>, NEW i, NEW t
  PROVE  Says(q, i, t) <=> Says(Tail(q), i, t) \/ (Head(q).i = i /\ Head(q).t = t)
  <1> DEFINE r == Tail(q)
  <1>1. /\ Len(q) \in Nat \ {0} /\ DOMAIN q = 1 .. Len(q) /\ DOMAIN r = 1 .. Len(q) - 1
        /\ (\A k \in DOMAIN r : k + 1 \in DOMAIN q /\ r[k] = q[k + 1])
        /\ Head(q) = q[1] /\ 1 \in DOMAIN q
    BY Taken
  <1> HIDE DEF r
  <1>2. Says(r, i, t) \/ (Head(q).i = i /\ Head(q).t = t) => Says(q, i, t)
    BY <1>1 DEF Says
  <1>3. ASSUME NEW k \in DOMAIN q, q[k].i = i, q[k].t = t, k # 1
        PROVE  Says(r, i, t)
    <2>1. k - 1 \in DOMAIN r /\ r[k - 1] = q[k]
      <3>1. k - 1 \in DOMAIN r /\ (k - 1) + 1 = k
        BY <1>1, <1>3
      <3> QED
        BY <3>1, <1>1
    <2> QED
      BY <2>1, <1>3 DEF Says
  <1>4. Says(q, i, t) => Says(r, i, t) \/ (Head(q).i = i /\ Head(q).t = t)
    BY <1>1, <1>3 DEF Says
  <1> QED
    BY <1>2, <1>4 DEF r

-----------------------------------------------------------------------------
(* Routes and streamed bodies.                                             *)

Final == {"result", "end", "error"}
HostMsgs == [t : {"open", "chunk"} \cup Final, i : Invs, n : {0}]
WorkerMsgs == [t : {"invoke", "abort", "ack"}, i : Invs, n : Nat]
EntryRecs == [pending : BOOLEAN, timer : BOOLEAN]
BodyRecs == [open : BOOLEAN, got : Nat, buffered : Nat, credit : Nat]
RequestRecs == [st : {"none", "waiting", "streaming", "answered", "failed"},
                pipe : {"none", "open", "ended", "destroyed"}, client : BOOLEAN]
WorkerRecs == [st : {"none", "handling", "pumping", "done"}, aborted : BOOLEAN,
               stop : BOOLEAN, unread : Nat, len : Nat, inFlight : Nat]
RouteTyped ==
    /\ entry \in [Invs -> EntryRecs] /\ body \in [Invs -> BodyRecs]
    /\ request \in [Invs -> RequestRecs] /\ worker \in [Invs -> WorkerRecs]
    /\ toWorker \in Seq(WorkerMsgs) /\ toHost \in Seq(HostMsgs) /\ alive \in BOOLEAN

\* A request reaches the worker once, before the worker does anything for it.
InvokedOnce ==
    /\ \A k \in DOMAIN toWorker : toWorker[k].t = "invoke" =>
         worker[toWorker[k].i].st = "none" /\ request[toWorker[k].i].st # "none"
    /\ \A j, k \in DOMAIN toWorker :
         toWorker[j].t = "invoke" /\ toWorker[k].t = "invoke" /\ toWorker[j].i = toWorker[k].i
           => j = k
    /\ alive => \A i \in Invs : request[i].st = "none" => worker[i].st = "none"

\* What the worker says about an invocation starts with the announcement of a
\* stream, if there is one, and stops with its last word, said when it is done;
\* the regular end comes after the whole stream.
InOrder ==
    /\ \A j, k \in DOMAIN toHost : j < k /\ toHost[j].i = toHost[k].i =>
         toHost[k].t # "open" /\ toHost[j].t \notin Final
    /\ \A k \in DOMAIN toHost : toHost[k].t \in Final => worker[toHost[k].i].st = "done"
    /\ \A k \in DOMAIN toHost : toHost[k].t = "end" => worker[toHost[k].i].unread = 0

\* Nothing was said for an invocation whose handler has not answered.
Silent(i) ==
    worker[i].st \in {"none", "handling"} =>
      /\ \A t : ~Says(toHost, i, t)
      /\ ~body[i].open /\ body[i].got = 0 /\ request[i].pipe = "none"

\* An open body, or one about to be opened, has lost nothing: what was received,
\* what travels and what the worker still holds is the stream.
Whole(i) ==
    body[i].open \/ Says(toHost, i, "open") =>
      body[i].got + ChunksOnWay(i) + worker[i].unread = worker[i].len
EndedWhole(i) ==
    request[i].pipe = "ended" =>
      /\ body[i].got = worker[i].len /\ worker[i].st = "done"
      /\ ~body[i].open /\ ~Says(toHost, i, "open")

\* The worker counts as in flight whatever travels, waits for the pipe to drain
\* or has been acknowledged without the worker knowing it.
InWindow(i) ==
    /\ worker[i].inFlight <= Window /\ body[i].buffered <= HighWater - 1 + body[i].credit
    /\ \E n \in Nat : /\ Acked(toWorker, i, n)
                      /\ ChunksOnWay(i) + body[i].credit + n <= worker[i].inFlight
BodyInv(i) == Silent(i) /\ Whole(i) /\ EndedWhole(i) /\ InWindow(i)
RouteInv == RouteTyped /\ InvokedOnce /\ InOrder /\ \A i \in Invs : BodyInv(i)

LEMMA InitRoute == StreamInit => RouteInv
  <1> SUFFICES ASSUME StreamInit PROVE RouteInv
    OBVIOUS
  <1>1. RouteTyped
    <2>1. <<>> \in Seq(WorkerMsgs) /\ <<>> \in Seq(HostMsgs)
      OBVIOUS
    <2> QED
      BY <2>1 DEF StreamInit, RouteTyped, NoEntry, NoBody, EntryRecs, BodyRecs, RequestRecs,
                  WorkerRecs
  <1>2. InvokedOnce /\ InOrder
    BY DEF StreamInit, InvokedOnce, InOrder
  <1>3. ASSUME NEW i \in Invs
        PROVE  BodyInv(i)
    <2>1. toHost \in Seq(HostMsgs) /\ \A k \in DOMAIN toHost : FALSE
      BY DEF StreamInit
    <2>2. ChunksOnWay(i) = 0
      BY <2>1, CountType DEF ChunksOnWay, ChunksIn, Chunk
    <2>3. \A t : ~Says(toHost, i, t)
      BY <2>1 DEF Says
    <2>4. InWindow(i)
      BY <2>2, AckedNone, RouteStreamsAssumption DEF InWindow, StreamInit, NoBody
    <2> QED
      BY <2>3, <2>4 DEF BodyInv, Silent, Whole, EndedWhole, StreamInit, NoBody
  <1> QED
    BY <1>1, <1>2, <1>3 DEF RouteInv

\* The invocations an action does not touch.
LEMMA Untouched ==
  ASSUME NEW j \in Invs, BodyInv(j),
         body'[j] = body[j], request'[j].pipe = request[j].pipe, worker'[j] = worker[j],
         ChunksIn(toHost', j) = ChunksIn(toHost, j),
         \A t : Says(toHost', j, t) <=> Says(toHost, j, t),
         \A n \in Nat : Acked(toWorker, j, n) =>
           \E l \in Nat : l <= n /\ Acked(toWorker', j, l),
         body[j] \in BodyRecs, worker[j] \in WorkerRecs, ChunksIn(toHost, j) \in Nat
  PROVE  BodyInv(j)'
  <1>1. ChunksOnWay(j) = ChunksIn(toHost, j) /\ ChunksOnWay(j)' = ChunksIn(toHost', j)
    BY DEF ChunksOnWay, ChunksIn, Chunk
  <1>2. Silent(j)' /\ EndedWhole(j)'
    BY DEF BodyInv, Silent, EndedWhole
  <1>3. Whole(j)'
    BY <1>1 DEF BodyInv, Whole
  <1>4. InWindow(j)'
    <2>1. PICK n \in Nat : /\ Acked(toWorker, j, n)
                           /\ ChunksOnWay(j) + body[j].credit + n <= worker[j].inFlight
      BY DEF BodyInv, InWindow
    <2>2. PICK l \in Nat : l <= n /\ Acked(toWorker', j, l)
      BY <2>1
    <2>3. body[j].credit \in Nat /\ worker[j].inFlight \in Nat
      BY DEF BodyRecs, WorkerRecs
    <2>4. ChunksIn(toHost', j) + body'[j].credit + l <= worker'[j].inFlight
      BY <2>1, <2>2, <2>3, <1>1
    <2> QED
      BY <2>2, <2>4, <1>1 DEF BodyInv, InWindow
  <1> QED
    BY <1>2, <1>3, <1>4 DEF BodyInv

\* Steps that change neither the requests' stage nor the worker's, and send no
\* invocation.
LEMMA StillInvokedOnce ==
  ASSUME RouteTyped, InvokedOnce, alive' = alive,
         toWorker' = toWorker \/ \E m \in WorkerMsgs : m.t # "invoke" /\ toWorker' = Sent(m),
         \A i \in Invs : request'[i].st = "none" => request[i].st = "none",
         \A i \in Invs : worker'[i].st = "none" <=> worker[i].st = "none"
  PROVE  InvokedOnce'
  <1>0. toWorker \in Seq(WorkerMsgs)
    BY DEF RouteTyped
  <1>1. \A k \in DOMAIN toWorker : toWorker[k].i \in Invs
    <2>1. \A k \in DOMAIN toWorker : toWorker[k] \in WorkerMsgs
      BY <1>0
    <2> QED
      BY <2>1 DEF WorkerMsgs
  <1>2. CASE toWorker' = toWorker
    BY <1>1, <1>2 DEF InvokedOnce
  <1>3. CASE toWorker' # toWorker
    <2>1. PICK m \in WorkerMsgs : m.t # "invoke" /\ toWorker' = Append(toWorker, m)
      BY <1>3 DEF Sent
    <2>2. /\ DOMAIN toWorker = 1 .. Len(toWorker) /\ Len(toWorker) \in Nat
          /\ DOMAIN toWorker' = 1 .. Len(toWorker) + 1
          /\ \A k \in DOMAIN toWorker : toWorker'[k] = toWorker[k]
          /\ toWorker'[Len(toWorker) + 1] = m
      BY <2>1, <1>0, Appended
    <2>3. \A k \in DOMAIN toWorker' : toWorker'[k].t = "invoke" =>
            k \in DOMAIN toWorker /\ toWorker'[k] = toWorker[k]
      <3>1. \A k \in DOMAIN toWorker' : k \in DOMAIN toWorker \/ k = Len(toWorker) + 1
        BY <2>2
      <3> QED
        BY <3>1, <2>1, <2>2
    <2> QED
      BY <1>1, <2>3 DEF InvokedOnce
  <1> QED
    BY <1>2, <1>3

LEMMA AckedSent ==
  ASSUME RouteTyped, NEW m \in WorkerMsgs, NEW j
  PROVE  /\ Sent(m) \in Seq(WorkerMsgs)
         /\ AckOf(m, j) \in Nat
         /\ \A n \in Nat : Acked(toWorker, j, n) =>
              \E l \in Nat : l <= n + AckOf(m, j) /\ Acked(Sent(m), j, l)
  <1>1. toWorker \in Seq(WorkerMsgs) /\ Append(toWorker, m) \in Seq(WorkerMsgs)
    BY DEF RouteTyped
  <1>2. \A x \in WorkerMsgs : AckOf(x, j) \in Nat
    BY DEF AckOf, WorkerMsgs
  <1>3. ASSUME NEW n \in Nat, Acked(toWorker, j, n)
        PROVE  \E l \in Nat : l <= n + AckOf(m, j) /\ Acked(Sent(m), j, l)
    <2>1. CASE alive
      <3>1. n + AckOf(m, j) \in Nat /\ Acked(Append(toWorker, m), j, n + AckOf(m, j))
        BY <1>1, <1>2, <1>3, AckedAppend
      <3>2. n + AckOf(m, j) <= n + AckOf(m, j)
        BY <3>1
      <3> QED
        BY <3>1, <3>2, <2>1 DEF Sent
    <2>2. CASE ~alive
      <3>1. n <= n + AckOf(m, j)
        BY <1>2
      <3> QED
        BY <3>1, <2>2, <1>3 DEF Sent
    <2> QED
      BY <2>1, <2>2
  <1> QED
    BY <1>1, <1>2, <1>3 DEF Sent

LEMMA ProcSaid ==
  ASSUME RouteInv, NEW i \in Invs, NEW t \in {"open", "chunk"} \cup Final,
         NEW w \in WorkerRecs, Said(i, t, w),
         worker[i].st \in {"handling", "pumping"}, w.st \in {"pumping", "done"},
         t = "open" => worker[i].st = "handling",
         t \in Final => w.st = "done",
         t = "end" => w.unread = 0,
         w.inFlight <= Window,
         worker[i].inFlight + (IF t = "chunk" THEN 1 ELSE 0) <= w.inFlight,
         body[i].open \/ Says(toHost, i, "open") \/ t = "open" =>
           body[i].got + ChunksIn(toHost, i) + (IF t = "chunk" THEN 1 ELSE 0) + w.unread = w.len
  PROVE  RouteInv'
  <1> DEFINE m == Ipc(t, i, 0)
  <1>1. /\ m \in HostMsgs /\ m.t = t /\ m.i = i
        /\ toHost \in Seq(HostMsgs) /\ toHost' = Append(toHost, m)
        /\ worker' = [worker EXCEPT ![i] = w] /\ worker \in [Invs -> WorkerRecs]
        /\ UNCHANGED <<entry, body, request, toWorker, alive>>
    BY DEF Said, Ipc, HostMsgs, RouteInv, RouteTyped
  <1> HIDE DEF m
  <1>2. worker'[i] = w /\ \A j \in Invs \ {i} : worker'[j] = worker[j]
    BY <1>1
  <1>3. RouteTyped'
    <2>1. toHost' \in Seq(HostMsgs) /\ worker' \in [Invs -> WorkerRecs]
      BY <1>1
    <2> QED
      BY <2>1, <1>1 DEF RouteInv, RouteTyped
  <1>4. InvokedOnce'
    BY <1>1, <1>2, StillInvokedOnce DEF RouteInv
  <1>5. InOrder'
    <2>1. /\ DOMAIN toHost = 1 .. Len(toHost) /\ Len(toHost) \in Nat
          /\ DOMAIN toHost' = 1 .. Len(toHost) + 1
          /\ \A k \in DOMAIN toHost : toHost'[k] = toHost[k]
          /\ toHost'[Len(toHost) + 1] = m
      BY <1>1, Appended
    <2>2. \A k \in DOMAIN toHost : toHost[k].i \in Invs
      <3>1. \A k \in DOMAIN toHost : toHost[k] \in HostMsgs
        BY <1>1
      <3> QED
        BY <3>1 DEF HostMsgs
    <2>3. \A k \in DOMAIN toHost : toHost[k].t \in Final => toHost[k].i # i
      BY DEF RouteInv, InOrder
    <2>4. t = "open" => \A k \in DOMAIN toHost : toHost[k].i # i
      <3>1. t = "open" => \A u : ~Says(toHost, i, u)
        BY DEF RouteInv, BodyInv, Silent
      <3> QED
        BY <3>1 DEF Says
    <2>5. \A k \in DOMAIN toHost' :
            \/ k \in DOMAIN toHost /\ toHost'[k] = toHost[k]
            \/ k = Len(toHost) + 1 /\ toHost'[k] = m
      BY <2>1
    <2>6. \A k \in DOMAIN toHost' : /\ toHost'[k].t \in Final => worker'[toHost'[k].i].st = "done"
                                    /\ toHost'[k].t = "end" => worker'[toHost'[k].i].unread = 0
      BY <2>2, <2>3, <2>5, <1>1, <1>2 DEF RouteInv, InOrder, Final
    <2>7. ASSUME NEW j \in DOMAIN toHost', NEW k \in DOMAIN toHost',
                 j < k, toHost'[j].i = toHost'[k].i
          PROVE  toHost'[k].t # "open" /\ toHost'[j].t \notin Final
      <3>1. j \in DOMAIN toHost /\ toHost'[j] = toHost[j]
        BY <2>1, <2>7
      <3> QED
        BY <3>1, <2>3, <2>4, <2>5, <2>7, <1>1 DEF RouteInv, InOrder
    <2> QED
      BY <2>6, <2>7 DEF InOrder
  <1>6. \A j \in Invs : ChunksIn(toHost', j) = ChunksIn(toHost, j) + (IF Chunk(m, j) THEN 1 ELSE 0)
    BY <1>1, CountAppend
  <1>7. \A j \in Invs : \A u : Says(toHost', j, u) <=> Says(toHost, j, u) \/ (m.i = j /\ m.t = u)
    BY <1>1, SaysAppend
  <1>8. \A j \in Invs : ChunksIn(toHost, j) \in Nat
    BY <1>1, CountType
  <1>9. ASSUME NEW j \in Invs
        PROVE  BodyInv(j)'
    <2>0. body[j] \in BodyRecs /\ worker[j] \in WorkerRecs /\ BodyInv(j)
      BY DEF RouteInv, RouteTyped
    <2>1. CASE j # i
      <3>1. ChunksIn(toHost', j) = ChunksIn(toHost, j)
        BY <2>1, <1>1, <1>6, <1>8 DEF Chunk
      <3>2. \A u : Says(toHost', j, u) <=> Says(toHost, j, u)
        BY <2>1, <1>1, <1>7
      <3>3. \A n \in Nat : n <= n
        OBVIOUS
      <3>4. \A n \in Nat : Acked(toWorker, j, n) => \E l \in Nat : l <= n /\ Acked(toWorker', j, l)
        BY <3>3, <1>1
      <3> QED
        BY <2>0, <2>1, <3>1, <3>2, <3>4, <1>1, <1>2, <1>8, Untouched
    <2>2. CASE j = i
      <3>1. /\ ChunksOnWay(i)' = ChunksIn(toHost, i) + (IF t = "chunk" THEN 1 ELSE 0)
            /\ ChunksOnWay(i) = ChunksIn(toHost, i)
        <4>1. ChunksOnWay(i) = ChunksIn(toHost, i) /\ ChunksOnWay(i)' = ChunksIn(toHost', i)
          BY DEF ChunksOnWay, ChunksIn, Chunk
        <4> QED
          BY <4>1, <1>1, <1>6 DEF Chunk
      <3>2. Silent(i)' /\ EndedWhole(i)'
        BY <2>0, <2>2, <1>1, <1>2 DEF Silent, EndedWhole, BodyInv
      <3>3. Whole(i)'
        <4>1. Says(toHost', i, "open") => Says(toHost, i, "open") \/ t = "open"
          BY <1>1, <1>7
        <4>2. body[i].got \in Nat /\ w.unread \in Nat /\ w.len \in Nat
          BY <2>0, <2>2 DEF BodyRecs, WorkerRecs
        <4> QED
          BY <4>1, <4>2, <3>1, <1>1, <1>2, <1>8 DEF Whole
      <3>4. InWindow(i)'
        <4>1. PICK n \in Nat : /\ Acked(toWorker, i, n)
                               /\ ChunksOnWay(i) + body[i].credit + n <= worker[i].inFlight
          BY <2>0, <2>2 DEF BodyInv, InWindow
        <4>2. body[i].credit \in Nat /\ worker[i].inFlight \in Nat /\ w.inFlight \in Nat
          BY <2>0, <2>2 DEF BodyRecs, WorkerRecs
        <4>3. ChunksOnWay(i)' + body'[i].credit + n <= worker'[i].inFlight
          <5> DEFINE d == IF t = "chunk" THEN 1 ELSE 0
          <5>1. /\ ChunksOnWay(i)' = ChunksOnWay(i) + d /\ ChunksOnWay(i) \in Nat /\ d \in Nat
                /\ worker[i].inFlight + d <= w.inFlight
            BY <3>1, <1>8
          <5>2. body'[i].credit = body[i].credit /\ worker'[i].inFlight = w.inFlight
            BY <1>1, <1>2
          <5> HIDE DEF d
          <5>3. ChunksOnWay(i) + d + body[i].credit + n <= w.inFlight
            BY <4>1, <4>2, <5>1
          <5> QED
            BY <5>1, <5>2, <5>3
        <4> QED
          BY <4>1, <4>3, <2>0, <2>2, <1>1, <1>2 DEF InWindow, BodyInv
      <3> QED
        BY <2>2, <3>2, <3>3, <3>4 DEF BodyInv
    <2> QED
      BY <2>1, <2>2
  <1> QED
    BY <1>3, <1>4, <1>5, <1>9 DEF RouteInv

LEMMA ProcWorkerSays ==
  ASSUME RouteInv, NEW i \in Invs,
         HandlerAnswers(i) \/ HandlerStreams(i) \/ Pump(i) \/ PumpEnds(i) \/ PumpFails(i)
  PROVE  RouteInv'
  <1>0. /\ worker[i] \in WorkerRecs /\ body[i] \in BodyRecs /\ BodyInv(i)
        /\ ChunksOnWay(i) = ChunksIn(toHost, i) /\ ChunksIn(toHost, i) \in Nat
    <2>1. ChunksOnWay(i) = ChunksIn(toHost, i)
      BY DEF ChunksOnWay, ChunksIn, Chunk
    <2>2. toHost \in Seq(HostMsgs) /\ worker[i] \in WorkerRecs /\ body[i] \in BodyRecs /\ BodyInv(i)
      BY DEF RouteInv, RouteTyped
    <2> QED
      BY <2>1, <2>2, CountType
  <1>1. /\ worker[i].inFlight \in Nat /\ worker[i].inFlight <= Window
        /\ worker[i].unread \in Nat /\ worker[i].len \in Nat
        /\ body[i].got \in Nat /\ body[i].open \in BOOLEAN
        /\ body[i].open \/ Says(toHost, i, "open") =>
             body[i].got + ChunksIn(toHost, i) + worker[i].unread = worker[i].len
        /\ worker[i].st = "handling" =>
             ~body[i].open /\ body[i].got = 0 /\ ~Says(toHost, i, "open") /\ ChunksIn(toHost, i) = 0
    <2>1. /\ worker[i].inFlight \in Nat /\ worker[i].unread \in Nat /\ worker[i].len \in Nat
          /\ body[i].got \in Nat /\ body[i].open \in BOOLEAN
      BY <1>0 DEF WorkerRecs, BodyRecs
    <2>2. toHost \in Seq(HostMsgs)
      BY DEF RouteInv, RouteTyped
    <2>3. worker[i].st = "handling" => \A k \in DOMAIN toHost : ~Chunk(toHost[k], i)
      <3>1. worker[i].st = "handling" => \A t : ~Says(toHost, i, t)
        BY <1>0 DEF BodyInv, Silent
      <3> QED
        BY <3>1 DEF Says, Chunk
    <2>4. worker[i].st = "handling" => ChunksIn(toHost, i) = 0
      BY <2>2, <2>3, CountType
    <2> QED
      BY <2>1, <2>4, <1>0 DEF BodyInv, Silent, Whole, InWindow
  <1>2. CASE HandlerAnswers(i)
    <2> DEFINE w == [worker[i] EXCEPT !.st = "done"]
    <2>1. /\ w \in WorkerRecs /\ w.st = "done" /\ w.inFlight = worker[i].inFlight
          /\ worker[i].st = "handling" /\ Said(i, "result", w)
      BY <1>0, <1>2 DEF HandlerAnswers, WorkerRecs
    <2> HIDE DEF w
    <2> QED
      BY <2>1, <1>1, ProcSaid DEF Final
  <1>3. CASE HandlerStreams(i)
    <2>1. worker[i].st = "handling"
      BY <1>3 DEF HandlerStreams
    <2>2. PICK n \in Bodies :
            Said(i, "open", [worker[i] EXCEPT !.st = "pumping", !.len = n, !.unread = n])
      BY <1>3 DEF HandlerStreams
    <2>3. n \in Nat
      BY RouteStreamsAssumption
    <2> DEFINE w == [worker[i] EXCEPT !.st = "pumping", !.len = n, !.unread = n]
    <2>4. /\ w \in WorkerRecs /\ w.st = "pumping" /\ w.inFlight = worker[i].inFlight
          /\ w.len = n /\ w.unread = n
      BY <1>0, <2>3 DEF WorkerRecs
    <2>5. Said(i, "open", w)
      BY <2>2
    <2> HIDE DEF w
    <2>6. body[i].got + ChunksIn(toHost, i) + 0 + w.unread = w.len
      BY <2>1, <2>3, <2>4, <1>1
    <2> QED
      BY <2>1, <2>4, <2>5, <2>6, <1>1, ProcSaid DEF Final
  <1>4. CASE Pump(i)
    <2> DEFINE w == [worker[i] EXCEPT !.unread = @ - 1, !.inFlight = @ + 1]
    <2>1. /\ worker[i].st = "pumping" /\ worker[i].unread > 0
          /\ worker[i].inFlight + 1 <= Window /\ Said(i, "chunk", w)
      BY <1>4 DEF Pump
    <2>2. worker[i].unread - 1 \in Nat /\ worker[i].inFlight + 1 \in Nat
      BY <2>1, <1>1
    <2>3. /\ w \in WorkerRecs /\ w.st = "pumping" /\ w.inFlight = worker[i].inFlight + 1
          /\ w.len = worker[i].len /\ w.unread = worker[i].unread - 1
      BY <1>0, <2>1, <2>2 DEF WorkerRecs
    <2> HIDE DEF w
    <2>4. body[i].open \/ Says(toHost, i, "open") =>
            body[i].got + ChunksIn(toHost, i) + 1 + w.unread = w.len
      BY <2>2, <2>3, <1>0, <1>1
    <2>5. w.inFlight <= Window /\ worker[i].inFlight + 1 <= w.inFlight
      BY <2>1, <2>2, <2>3
    <2> QED
      BY <2>1, <2>3, <2>4, <2>5, ProcSaid DEF Final
  <1>5. CASE PumpEnds(i) \/ PumpFails(i)
    <2> DEFINE w == [worker[i] EXCEPT !.st = "done"]
    <2>1. /\ worker[i].st = "pumping"
          /\ Said(i, "error", w) \/ (Said(i, "end", w) /\ worker[i].unread = 0)
      BY <1>5 DEF PumpEnds, PumpFails
    <2>2. /\ w \in WorkerRecs /\ w.st = "done" /\ w.inFlight = worker[i].inFlight
          /\ w.len = worker[i].len /\ w.unread = worker[i].unread
      BY <1>0 DEF WorkerRecs
    <2> HIDE DEF w
    <2>3. body[i].open \/ Says(toHost, i, "open") =>
            body[i].got + ChunksIn(toHost, i) + 0 + w.unread = w.len
      BY <2>2, <1>0, <1>1
    <2>4. worker[i].inFlight + 0 <= w.inFlight
      BY <2>2, <1>1
    <2>5. CASE Said(i, "error", w)
      BY <2>1, <2>2, <2>3, <2>4, <2>5, <1>1, ProcSaid DEF Final
    <2>6. CASE Said(i, "end", w) /\ worker[i].unread = 0
      BY <2>1, <2>2, <2>3, <2>4, <2>6, <1>1, ProcSaid DEF Final
    <2> QED
      BY <2>1, <2>5, <2>6
  <1> QED
    BY <1>2, <1>3, <1>4, <1>5

\* The worker's own steps that say nothing.
LEMMA ProcPumpStops ==
  ASSUME RouteInv, NEW i \in Invs, PumpStops(i)
  PROVE  RouteInv'
  <1>1. /\ worker[i].st = "pumping" /\ worker' = [worker EXCEPT ![i].st = "done"]
        /\ UNCHANGED <<entry, body, request, toWorker, toHost, alive>>
        /\ worker \in [Invs -> WorkerRecs]
    BY DEF PumpStops, RouteInv, RouteTyped
  <1>2. /\ worker' \in [Invs -> WorkerRecs] /\ \A j \in Invs \ {i} : worker'[j] = worker[j]
        /\ worker'[i].st = "done" /\ worker'[i].unread = worker[i].unread
        /\ worker'[i].len = worker[i].len /\ worker'[i].inFlight = worker[i].inFlight
    BY <1>1 DEF WorkerRecs
  <1>3. RouteTyped'
    BY <1>1, <1>2 DEF RouteInv, RouteTyped
  <1>4. InvokedOnce'
    BY <1>1, <1>2, StillInvokedOnce DEF RouteInv
  <1>5. \A j \in Invs : /\ worker[j].st = "done" => worker'[j].st = "done"
                        /\ worker'[j].unread = worker[j].unread
                        /\ worker'[j].len = worker[j].len /\ worker'[j].inFlight = worker[j].inFlight
                        /\ worker'[j].st \in {"none", "handling"} => worker[j].st \in {"none", "handling"}
    BY <1>1, <1>2
  <1>6. InOrder'
    <2>1. \A k \in DOMAIN toHost : toHost[k].i \in Invs
      <3>1. \A k \in DOMAIN toHost : toHost[k] \in HostMsgs
        BY DEF RouteInv, RouteTyped
      <3> QED
        BY <3>1 DEF HostMsgs
    <2> QED
      BY <2>1, <1>1, <1>5 DEF RouteInv, InOrder
  <1>7. ASSUME NEW j \in Invs
        PROVE  BodyInv(j)'
    <2>1. BodyInv(j)
      BY DEF RouteInv
    <2> QED
      BY <2>1, <1>1, <1>5 DEF BodyInv, Silent, Whole, EndedWhole, InWindow, ChunksOnWay
  <1> QED
    BY <1>3, <1>4, <1>6, <1>7 DEF RouteInv

LEMMA ProcWorkerGets ==
  ASSUME RouteInv, WorkerGets
  PROVE  RouteInv'
  <1> DEFINE m == Head(toWorker)
             i == m.i
  <1>1. /\ toWorker # <<>> /\ alive /\ toWorker' = Tail(toWorker)
        /\ UNCHANGED <<entry, body, request, toHost, alive>>
        /\ toWorker \in Seq(WorkerMsgs) /\ worker \in [Invs -> WorkerRecs]
    BY DEF WorkerGets, RouteInv, RouteTyped
  <1>2. /\ Len(toWorker) \in Nat \ {0} /\ DOMAIN toWorker = 1 .. Len(toWorker)
        /\ toWorker' \in Seq(WorkerMsgs) /\ DOMAIN toWorker' = 1 .. Len(toWorker) - 1
        /\ \A k \in DOMAIN toWorker' : k + 1 \in DOMAIN toWorker /\ toWorker'[k] = toWorker[k + 1]
        /\ m = toWorker[1] /\ 1 \in DOMAIN toWorker /\ m \in WorkerMsgs
    BY <1>1, Taken
  <1>3. m.i \in Invs /\ m.n \in Nat /\ m.t \in {"invoke", "abort", "ack"}
    BY <1>2 DEF WorkerMsgs
  <1>4. PICK w : /\ worker' = [worker EXCEPT ![i] = w] /\ w \in WorkerRecs
                 /\ w.unread = worker[i].unread /\ w.len = worker[i].len
                 /\ IF m.t = "invoke" THEN w.st = "handling" ELSE w.st = worker[i].st
                 /\ IF m.t = "ack" /\ worker[i].st = "pumping"
                    THEN w.inFlight = IF worker[i].inFlight > m.n THEN worker[i].inFlight - m.n ELSE 0
                    ELSE w.inFlight = worker[i].inFlight
    <2>0. worker[i] \in WorkerRecs
      BY <1>1, <1>3
    <2>1. CASE m.t = "invoke"
      <3> DEFINE w == [worker[i] EXCEPT !.st = "handling"]
      <3>1. worker' = [worker EXCEPT ![i] = w]
        BY <2>1, <1>1, <1>3 DEF WorkerGets
      <3>2. /\ w \in WorkerRecs /\ w.unread = worker[i].unread /\ w.len = worker[i].len
            /\ w.st = "handling" /\ w.inFlight = worker[i].inFlight
        BY <2>0 DEF WorkerRecs
      <3> QED
        BY <3>1, <3>2, <2>1
    <2>2. CASE m.t = "abort" /\ Handling(i) /\ ~worker[i].aborted
      <3> DEFINE b == worker[i].st = "pumping"
                 w == [worker[i] EXCEPT !.aborted = TRUE, !.stop = b]
      <3>1. worker' = [worker EXCEPT ![i] = w]
        BY <2>2, <1>1, <1>3 DEF WorkerGets
      <3>2. b \in BOOLEAN
        OBVIOUS
      <3> HIDE DEF b
      <3>3. /\ w \in WorkerRecs /\ w.unread = worker[i].unread /\ w.len = worker[i].len
            /\ w.st = worker[i].st /\ w.inFlight = worker[i].inFlight
        BY <2>0, <3>2 DEF WorkerRecs
      <3> QED
        BY <3>1, <3>3, <2>2
    <2>3. CASE m.t = "ack" /\ worker[i].st = "pumping"
      <3> DEFINE f == IF worker[i].inFlight > m.n THEN worker[i].inFlight - m.n ELSE 0
                 w == [worker[i] EXCEPT !.inFlight = f]
      <3>0. m.t # "invoke" /\ m.t # "abort"
        BY <2>3
      <3>1. worker' = [worker EXCEPT ![i] = w]
        <4>1. worker' = [worker EXCEPT ![i] =
                CASE m.t = "invoke" -> [worker[i] EXCEPT !.st = "handling"]
                  [] m.t = "abort" /\ Handling(i) /\ ~worker[i].aborted ->
                         [worker[i] EXCEPT !.aborted = TRUE, !.stop = (worker[i].st = "pumping")]
                  [] m.t = "ack" /\ worker[i].st = "pumping" -> w
                  [] OTHER -> worker[i]]
          BY DEF WorkerGets
        <4> HIDE DEF w
        <4> QED
          BY <4>1, <2>3, <3>0
      <3>2. f \in Nat
        BY <2>0, <1>3 DEF WorkerRecs
      <3> HIDE DEF f
      <3>3. /\ w \in WorkerRecs /\ w.unread = worker[i].unread /\ w.len = worker[i].len
            /\ w.st = worker[i].st /\ w.inFlight = f
        BY <2>0, <3>2 DEF WorkerRecs
      <3> QED
        BY <3>1, <3>3, <2>3 DEF f
    <2>4. CASE /\ m.t # "invoke" /\ ~(m.t = "ack" /\ worker[i].st = "pumping")
               /\ ~(m.t = "abort" /\ Handling(i) /\ ~worker[i].aborted)
      <3>1. worker' = [worker EXCEPT ![i] = worker[i]]
        BY <2>4, <1>1, <1>3 DEF WorkerGets
      <3> QED
        BY <3>1, <2>0, <2>4
    <2> QED
      BY <2>1, <2>2, <2>3, <2>4, <1>3
  <1> HIDE DEF m, i
  <1>5. i = m.i /\ i \in Invs /\ worker'[i] = w /\ \A j \in Invs \ {i} : worker'[j] = worker[j]
    BY <1>1, <1>3, <1>4 DEF i
  <1>6. RouteTyped'
    <2>1. worker' \in [Invs -> WorkerRecs]
      BY <1>1, <1>4
    <2> QED
      BY <2>1, <1>1, <1>2 DEF RouteInv, RouteTyped
  <1>7. m.t = "invoke" => worker[i].st = "none" /\ request[i].st # "none"
    BY <1>2, <1>5 DEF RouteInv, InvokedOnce
  <1>8. InvokedOnce'
    <2>1. ASSUME NEW k \in DOMAIN toWorker'
          PROVE  /\ k + 1 \in DOMAIN toWorker /\ k + 1 # 1 /\ toWorker'[k] = toWorker[k + 1]
                 /\ toWorker[k + 1].i \in Invs
      <3>1. k + 1 \in DOMAIN toWorker /\ toWorker'[k] = toWorker[k + 1] /\ k + 1 # 1
        BY <1>2
      <3>2. toWorker[k + 1] \in WorkerMsgs
        BY <3>1, <1>1
      <3> QED
        BY <3>1, <3>2 DEF WorkerMsgs
    <2>2. ASSUME NEW k \in DOMAIN toWorker', toWorker'[k].t = "invoke"
          PROVE  worker'[toWorker'[k].i].st = "none" /\ request'[toWorker'[k].i].st # "none"
      <3> DEFINE x == toWorker'[k].i
      <3>1. x \in Invs /\ worker[x].st = "none" /\ request[x].st # "none"
        BY <2>1, <2>2 DEF RouteInv, InvokedOnce
      <3>2. m.t = "invoke" => x # i
        BY <2>1, <2>2, <1>2, <1>5 DEF RouteInv, InvokedOnce
      <3> HIDE DEF x
      <3>3. worker'[x].st = "none" /\ request'[x].st # "none"
        BY <3>1, <3>2, <1>1, <1>4, <1>5
      <3> QED
        BY <3>3 DEF x
    <2>3. \A j, k \in DOMAIN toWorker' :
            toWorker'[j].t = "invoke" /\ toWorker'[k].t = "invoke" /\ toWorker'[j].i = toWorker'[k].i
              => j = k
      <3>1. \A j, k \in DOMAIN toWorker' : j + 1 = k + 1 => j = k
        BY <1>2
      <3> QED
        BY <3>1, <2>1 DEF RouteInv, InvokedOnce
    <2>4. \A j \in Invs : request'[j].st = "none" => worker'[j].st = "none"
      BY <1>1, <1>4, <1>5, <1>7 DEF RouteInv, InvokedOnce
    <2> QED
      BY <2>2, <2>3, <2>4 DEF InvokedOnce
  <1>9. \A j \in Invs : /\ worker[j].st = "done" => worker'[j].st = "done"
                        /\ worker'[j].unread = worker[j].unread /\ worker'[j].len = worker[j].len
                        /\ worker'[j].st \in {"none", "handling"} => worker[j].st \in {"none", "handling"}
    BY <1>4, <1>5, <1>7
  <1>10. InOrder'
    <2>1. \A k \in DOMAIN toHost : toHost[k].i \in Invs
      <3>1. \A k \in DOMAIN toHost : toHost[k] \in HostMsgs
        BY DEF RouteInv, RouteTyped
      <3> QED
        BY <3>1 DEF HostMsgs
    <2> QED
      BY <2>1, <1>1, <1>9 DEF RouteInv, InOrder
  <1>11. ASSUME NEW j \in Invs
         PROVE  BodyInv(j)'
    <2>1. /\ BodyInv(j) /\ worker[j] \in WorkerRecs /\ body[j] \in BodyRecs
          /\ toHost \in Seq(HostMsgs)
      BY DEF RouteInv, RouteTyped
    <2>2. Silent(j)' /\ Whole(j)' /\ EndedWhole(j)'
      BY <2>1, <1>1, <1>9 DEF BodyInv, Silent, Whole, EndedWhole, ChunksOnWay
    <2>3. InWindow(j)'
      <3>1. PICK n \in Nat : /\ Acked(toWorker, j, n)
                             /\ ChunksOnWay(j) + body[j].credit + n <= worker[j].inFlight
        BY <2>1 DEF BodyInv, InWindow
      <3>2. PICK l \in Nat : Acked(Tail(toWorker), j, l) /\ n = AckOf(m, j) + l
        BY <3>1, <1>1, AckedTail DEF m
      <3>3. /\ body[j].credit \in Nat /\ worker[j].inFlight \in Nat /\ ChunksOnWay(j) \in Nat
            /\ worker[j].inFlight <= Window
        <4>1. ChunksOnWay(j) = ChunksIn(toHost, j)
          BY DEF ChunksOnWay, ChunksIn, Chunk
        <4>2. ChunksIn(toHost, j) \in Nat
          BY <2>1, CountType
        <4>3. /\ body[j].credit \in Nat /\ worker[j].inFlight \in Nat
              /\ worker[j].inFlight <= Window
          BY <2>1 DEF BodyRecs, WorkerRecs, BodyInv, InWindow
        <4> QED
          BY <4>1, <4>2, <4>3
      <3>4. \/ worker'[j].inFlight = worker[j].inFlight
            \/ /\ AckOf(m, j) = m.n
               /\ worker'[j].inFlight =
                    IF worker[j].inFlight > m.n THEN worker[j].inFlight - m.n ELSE 0
        BY <1>4, <1>5 DEF AckOf
      <3>5. AckOf(m, j) \in Nat /\ m.n \in Nat
        BY <1>3 DEF AckOf, m
      <3>6. /\ worker'[j].inFlight <= Window
            /\ ChunksOnWay(j) + body[j].credit + l <= worker'[j].inFlight
        BY <3>1, <3>2, <3>3, <3>4, <3>5, RouteStreamsAssumption
      <3>7. ChunksOnWay(j)' = ChunksOnWay(j)
        BY <1>1 DEF ChunksOnWay
      <3> QED
        BY <2>1, <3>2, <3>6, <3>7, <1>1 DEF BodyInv, InWindow
    <2> QED
      BY <2>2, <2>3 DEF BodyInv
  <1> QED
    BY <1>6, <1>8, <1>10, <1>11 DEF RouteInv

\* A step of the host for one invocation: the others are as they were.
LEMMA HostStep ==
  ASSUME RouteInv, NEW i \in Invs, RouteTyped', InvokedOnce', InOrder', BodyInv(i)',
         worker' = worker,
         \A j \in Invs \ {i} : body'[j] = body[j] /\ request'[j].pipe = request[j].pipe,
         \A j \in Invs \ {i} : /\ ChunksIn(toHost', j) = ChunksIn(toHost, j)
                               /\ \A u : Says(toHost', j, u) <=> Says(toHost, j, u),
         toWorker' = toWorker \/ \E x \in WorkerMsgs : x.i = i /\ toWorker' = Sent(x)
  PROVE  RouteInv'
  <1>1. ASSUME NEW j \in Invs, j # i
        PROVE  BodyInv(j)'
    <2>1. /\ BodyInv(j) /\ worker[j] \in WorkerRecs /\ body[j] \in BodyRecs /\ RouteTyped
          /\ toHost \in Seq(HostMsgs)
      BY DEF RouteInv, RouteTyped
    <2>2. ChunksIn(toHost, j) \in Nat
      BY <2>1, CountType
    <2>3. ASSUME NEW n \in Nat, Acked(toWorker, j, n)
          PROVE  \E l \in Nat : l <= n /\ Acked(toWorker', j, l)
      <3>1. CASE toWorker' = toWorker
        <4>1. n <= n
          OBVIOUS
        <4> QED
          BY <4>1, <3>1, <2>3
      <3>2. ASSUME NEW x \in WorkerMsgs, x.i = i, toWorker' = Sent(x)
            PROVE  \E l \in Nat : l <= n /\ Acked(toWorker', j, l)
        <4>1. AckOf(x, j) = 0
          BY <3>2, <1>1 DEF AckOf
        <4>2. PICK l \in Nat : l <= n + AckOf(x, j) /\ Acked(Sent(x), j, l)
          BY <2>1, <2>3, AckedSent
        <4> QED
          BY <4>1, <4>2, <3>2
      <3> QED
        BY <3>1, <3>2
    <2> QED
      BY <2>1, <2>2, <2>3, <1>1, Untouched
  <1> QED
    BY <1>1 DEF RouteInv

\* The message the host takes, and what is behind it.
LEMMA HeadIs ==
  ASSUME RouteInv, toHost # <<>>, toHost' = Tail(toHost), worker' = worker
  PROVE  LET m == Head(toHost)
             i == m.i
         IN  /\ m \in HostMsgs /\ i \in Invs /\ toHost' \in Seq(HostMsgs) /\ InOrder'
             /\ worker[i].st \in {"pumping", "done"}
             /\ ~Says(toHost', i, "open")
             /\ ChunksIn(toHost', i) \in Nat
             /\ ChunksIn(toHost, i) = ChunksIn(toHost', i) + (IF m.t = "chunk" THEN 1 ELSE 0)
             /\ m.t \in Final => worker[i].st = "done" /\ ChunksIn(toHost', i) = 0
             /\ m.t = "end" => worker[i].unread = 0
             /\ m.t = "open" => Says(toHost, i, "open")
             /\ \A j \in Invs \ {i} : /\ ChunksIn(toHost', j) = ChunksIn(toHost, j)
                                      /\ \A u : Says(toHost', j, u) <=> Says(toHost, j, u)
  <1> DEFINE m == Head(toHost)
             i == m.i
  <1>1. /\ toHost \in Seq(HostMsgs) /\ worker \in [Invs -> WorkerRecs]
        /\ Len(toHost) \in Nat \ {0} /\ DOMAIN toHost = 1 .. Len(toHost)
        /\ toHost' \in Seq(HostMsgs) /\ DOMAIN toHost' = 1 .. Len(toHost) - 1
        /\ \A k \in DOMAIN toHost' : k + 1 \in DOMAIN toHost /\ toHost'[k] = toHost[k + 1]
        /\ m = toHost[1] /\ 1 \in DOMAIN toHost /\ m \in HostMsgs
    <2>1. toHost \in Seq(HostMsgs) /\ worker \in [Invs -> WorkerRecs]
      BY DEF RouteInv, RouteTyped
    <2> QED
      BY <2>1, Taken
  <1>2. m.i \in Invs /\ m.t \in {"open", "chunk"} \cup Final
    BY <1>1 DEF HostMsgs
  <1>3. \A j \in Invs : /\ ChunksIn(toHost', j) \in Nat
                        /\ ChunksIn(toHost, j) = ChunksIn(toHost', j) + (IF Chunk(m, j) THEN 1 ELSE 0)
    BY <1>1, CountType, CountTail
  <1>4. \A j \in Invs : \A u : Says(toHost, j, u) <=> Says(toHost', j, u) \/ (m.i = j /\ m.t = u)
    BY <1>1, SaysTail
  <1> HIDE DEF m
  <1>5. ASSUME NEW k \in DOMAIN toHost', toHost'[k].i = i
        PROVE  toHost'[k].t # "open" /\ m.t \notin Final
    <2>1. k + 1 \in DOMAIN toHost /\ 1 < k + 1 /\ toHost'[k] = toHost[k + 1]
      BY <1>1
    <2> QED
      BY <2>1, <1>1, <1>5 DEF RouteInv, InOrder
  <1>6. InOrder'
    <2>1. \A k \in DOMAIN toHost' : k + 1 \in DOMAIN toHost /\ toHost'[k] = toHost[k + 1]
      BY <1>1
    <2>2. \A j, k \in DOMAIN toHost' : j < k => j + 1 < k + 1
      BY <1>1
    <2> QED
      BY <2>1, <2>2 DEF RouteInv, InOrder
  <1>7. worker[i].st \in {"pumping", "done"}
    <2>1. Says(toHost, i, m.t)
      BY <1>2, <1>4
    <2> QED
      BY <2>1, <1>1, <1>2 DEF RouteInv, BodyInv, Silent, WorkerRecs
  <1>8. ~Says(toHost', i, "open") /\ (m.t = "open" => Says(toHost, i, "open"))
    <2>1. ~Says(toHost', i, "open")
      BY <1>5 DEF Says
    <2> QED
      BY <2>1, <1>2, <1>4
  <1>9. ASSUME m.t \in Final
        PROVE  worker[i].st = "done" /\ ChunksIn(toHost', i) = 0
    <2>1. \A k \in DOMAIN toHost' : ~Chunk(toHost'[k], i)
      BY <1>5, <1>9 DEF Chunk
    <2>2. ChunksIn(toHost', i) = 0
      BY <2>1, <1>1, CountType
    <2> QED
      BY <2>2, <1>1, <1>9 DEF RouteInv, InOrder
  <1>10. m.t = "end" => worker[i].unread = 0
    BY <1>1 DEF RouteInv, InOrder
  <1>11. \A j \in Invs \ {i} : /\ ChunksIn(toHost', j) = ChunksIn(toHost, j)
                               /\ \A u : Says(toHost', j, u) <=> Says(toHost, j, u)
    BY <1>3, <1>4 DEF Chunk
  <1>12. ChunksIn(toHost, i) = ChunksIn(toHost', i) + (IF m.t = "chunk" THEN 1 ELSE 0)
    BY <1>2, <1>3 DEF Chunk
  <1> QED
    BY <1>1, <1>2, <1>3, <1>6, <1>7, <1>8, <1>9, <1>10, <1>11, <1>12 DEF m

\* A window with less in it, and as much acknowledged as left it.
LEMMA StillInside ==
  ASSUME NEW c \in Nat, NEW d \in Nat, NEW b \in Nat, NEW e \in Nat, NEW a \in Nat,
         NEW n \in Nat, NEW l \in Nat, NEW w \in Nat,
         c + b + n <= w, l <= n + a, d + e + a <= c + b
  PROVE  d + e + l <= w
  OBVIOUS

\* What is to be known of the invocation for which the host takes a message:
\* a is what it acknowledges.
LEMMA HostTakes ==
  ASSUME RouteInv, toHost # <<>>, toHost' = Tail(toHost), UNCHANGED <<worker, alive>>,
         NEW i, i = Head(toHost).i, NEW a \in Nat,
         \/ toWorker' = toWorker /\ a = 0
         \/ \E x \in WorkerMsgs : /\ x.i = i /\ x.t # "invoke" /\ AckOf(x, i) = a
                                  /\ toWorker' = Sent(x),
         entry' \in [Invs -> EntryRecs], body' \in [Invs -> BodyRecs],
         request' \in [Invs -> RequestRecs],
         \A j \in Invs \ {i} : body'[j] = body[j] /\ request'[j] = request[j],
         request'[i].st = "none" => request[i].st = "none",
         body'[i].open =>
           body'[i].got + ChunksIn(toHost', i) + worker[i].unread = worker[i].len,
         request'[i].pipe = "ended" =>
           body'[i].got = worker[i].len /\ worker[i].st = "done" /\ ~body'[i].open,
         body'[i].buffered <= HighWater - 1 + body'[i].credit,
         ChunksIn(toHost', i) + body'[i].credit + a <= ChunksIn(toHost, i) + body[i].credit
  PROVE  RouteInv'
  <1>1. /\ i \in Invs /\ toHost' \in Seq(HostMsgs) /\ InOrder'
        /\ worker[i].st \in {"pumping", "done"} /\ ~Says(toHost', i, "open")
        /\ ChunksIn(toHost', i) \in Nat /\ ChunksIn(toHost, i) \in Nat
        /\ \A j \in Invs \ {i} : /\ ChunksIn(toHost', j) = ChunksIn(toHost, j)
                                 /\ \A u : Says(toHost', j, u) <=> Says(toHost, j, u)
    <2>1. toHost \in Seq(HostMsgs)
      BY DEF RouteInv, RouteTyped
    <2> QED
      BY <2>1, HeadIs, CountType
  <1>2. /\ RouteTyped /\ toWorker' \in Seq(WorkerMsgs)
        /\ toWorker' = toWorker \/ \E x \in WorkerMsgs :
             x.i = i /\ x.t # "invoke" /\ toWorker' = Sent(x)
    BY AckedSent DEF RouteInv, RouteTyped
  <1>3. RouteTyped'
    BY <1>1, <1>2 DEF RouteTyped
  <1>4. InvokedOnce'
    <2>1. \A j \in Invs : request'[j].st = "none" => request[j].st = "none"
      BY <1>1
    <2> QED
      BY <2>1, <1>2, StillInvokedOnce DEF RouteInv
  <1>5. InWindow(i)'
    <2>1. PICK n \in Nat : /\ Acked(toWorker, i, n)
                           /\ ChunksOnWay(i) + body[i].credit + n <= worker[i].inFlight
      BY <1>1 DEF RouteInv, BodyInv, InWindow
    <2>2. PICK l \in Nat : l <= n + a /\ Acked(toWorker', i, l)
      <3>1. n <= n + 0
        OBVIOUS
      <3> QED
        BY <2>1, <3>1, <1>2, AckedSent
    <2>3. /\ body[i].credit \in Nat /\ body'[i].credit \in Nat /\ worker[i].inFlight \in Nat
          /\ worker[i].inFlight <= Window
      BY <1>1, <1>2 DEF RouteTyped, BodyRecs, WorkerRecs, RouteInv, BodyInv, InWindow
    <2>4. ChunksOnWay(i) = ChunksIn(toHost, i) /\ ChunksOnWay(i)' = ChunksIn(toHost', i)
      BY DEF ChunksOnWay, ChunksIn, Chunk
    <2>5. ChunksIn(toHost, i) + body[i].credit + n <= worker[i].inFlight
      BY <2>1, <2>4
    <2>6. ChunksIn(toHost', i) + body'[i].credit + l <= worker[i].inFlight
      BY <2>2, <2>3, <2>5, <1>1, StillInside, SMTT(30)
    <2> QED
      BY <2>2, <2>3, <2>4, <2>6 DEF InWindow
  <1>6. BodyInv(i)'
    <2>1. ChunksOnWay(i)' = ChunksIn(toHost', i)
      BY DEF ChunksOnWay, ChunksIn, Chunk
    <2> QED
      BY <2>1, <1>1, <1>5 DEF BodyInv, Silent, Whole, EndedWhole
  <1> QED
    BY <1>1, <1>2, <1>3, <1>4, <1>6, HostStep

\* The entries of a stream go: the body is closed, and its pipe ends as told.
LEMMA ClosedIs ==
  ASSUME RouteTyped, NEW i \in Invs, NEW pipe \in {"ended", "destroyed"}, Closed(i, pipe)
  PROVE  /\ entry' \in [Invs -> EntryRecs] /\ body' \in [Invs -> BodyRecs]
         /\ request' \in [Invs -> RequestRecs]
         /\ \A j \in Invs \ {i} : body'[j] = body[j] /\ request'[j] = request[j]
         /\ request'[i].st = "none" => request[i].st = "none"
         /\ request'[i].pipe = IF request[i].pipe = "open" THEN pipe ELSE request[i].pipe
         /\ ~body'[i].open /\ body'[i].got = body[i].got
         /\ body'[i].buffered = body[i].buffered /\ body'[i].credit = body[i].credit
  <1>1. /\ body \in [Invs -> BodyRecs] /\ request \in [Invs -> RequestRecs]
        /\ entry \in [Invs -> EntryRecs] /\ NoEntry \in EntryRecs
    BY DEF RouteTyped, NoEntry, EntryRecs
  <1> DEFINE b == [body[i] EXCEPT !.open = FALSE]
             p == IF request[i].pipe = "open" THEN pipe ELSE request[i].pipe
             t == IF pipe = "destroyed" THEN "failed" ELSE request[i].st
             r == [request[i] EXCEPT !.pipe = p, !.st = t]
  <1>2. /\ body' = [body EXCEPT ![i] = b] /\ request' = [request EXCEPT ![i] = r]
        /\ entry' = [entry EXCEPT ![i] = NoEntry]
    BY <1>1 DEF Closed
  <1>3. /\ b \in BodyRecs /\ ~b.open /\ b.got = body[i].got
        /\ b.buffered = body[i].buffered /\ b.credit = body[i].credit
    BY <1>1 DEF BodyRecs
  <1>4. /\ p \in {"none", "open", "ended", "destroyed"}
        /\ t \in {"none", "waiting", "streaming", "answered", "failed"}
        /\ t = "none" => request[i].st = "none"
    BY <1>1 DEF RequestRecs
  <1> HIDE DEF p, t
  <1>5. r \in RequestRecs /\ r.st = t /\ r.pipe = p
    BY <1>1, <1>4 DEF RequestRecs
  <1> HIDE DEF b, r
  <1>6. /\ body' \in [Invs -> BodyRecs] /\ request' \in [Invs -> RequestRecs]
        /\ entry' \in [Invs -> EntryRecs] /\ body'[i] = b /\ request'[i] = r
        /\ \A j \in Invs \ {i} : body'[j] = body[j] /\ request'[j] = request[j]
    BY <1>1, <1>2, <1>3, <1>5
  <1> QED
    BY <1>3, <1>4, <1>5, <1>6 DEF p

LEMMA ProcHostGets ==
  ASSUME RouteInv, HostGets
  PROVE  RouteInv'
  <1>1. toHost # <<>> /\ toHost' = Tail(toHost) /\ UNCHANGED <<worker, alive>>
    BY DEF HostGets
  <1>0. PICK m \in HostMsgs, i \in Invs : m = Head(toHost) /\ i = m.i
    BY <1>1, HeadIs
  <1> DEFINE c == ChunksIn(toHost', i)
  <1>2. /\ m \in HostMsgs /\ i \in Invs /\ c \in Nat
        /\ ~Says(toHost', i, "open")
        /\ ChunksIn(toHost, i) = c + (IF m.t = "chunk" THEN 1 ELSE 0)
        /\ m.t \in Final => worker[i].st = "done" /\ c = 0
        /\ m.t = "end" => worker[i].unread = 0
        /\ m.t = "open" => Says(toHost, i, "open")
    BY <1>0, <1>1, HeadIs
  <1>3. /\ entry \in [Invs -> EntryRecs] /\ body \in [Invs -> BodyRecs]
        /\ request \in [Invs -> RequestRecs] /\ worker \in [Invs -> WorkerRecs]
        /\ RouteTyped
    BY DEF RouteInv, RouteTyped
  <1>4. /\ body[i] \in BodyRecs /\ request[i] \in RequestRecs /\ entry[i] \in EntryRecs
        /\ body[i].got \in Nat /\ body[i].buffered \in Nat /\ body[i].credit \in Nat
        /\ body[i].open \in BOOLEAN
        /\ worker[i].unread \in Nat /\ worker[i].len \in Nat
    BY <1>2, <1>3 DEF BodyRecs, WorkerRecs
  <1>5. /\ body[i].open \/ m.t = "open" =>
             body[i].got + ChunksIn(toHost, i) + worker[i].unread = worker[i].len
        /\ request[i].pipe = "ended" =>
             body[i].got = worker[i].len /\ worker[i].st = "done" /\ ~body[i].open /\ m.t # "open"
        /\ body[i].buffered <= HighWater - 1 + body[i].credit
    <2>1. ChunksOnWay(i) = ChunksIn(toHost, i)
      BY DEF ChunksOnWay, ChunksIn, Chunk
    <2> QED
      BY <2>1, <1>2 DEF RouteInv, BodyInv, Whole, EndedWhole, InWindow
  <1>6. HighWater \in Nat \ {0} /\ 0 \in Nat
    BY RouteStreamsAssumption
  <1>7. m.t \in {"open", "chunk"} \cup Final
    BY <1>2 DEF HostMsgs
  <1>8. NoEntry \in EntryRecs
    BY DEF NoEntry, EntryRecs
  <1>9. CASE m.t = "result"
    <2>1. OnResult(i)
      BY <1>0, <1>9 DEF HostGets
    <2>2. /\ toWorker' = toWorker /\ body' = body
          /\ entry' \in [Invs -> EntryRecs] /\ request' \in [Invs -> RequestRecs]
          /\ \A j \in Invs \ {i} : request'[j] = request[j]
          /\ request'[i].pipe = request[i].pipe
          /\ request'[i].st = "none" => request[i].st = "none"
      <3>1. CASE entry[i].pending
        <4> DEFINE r == [request[i] EXCEPT !.st = "answered"]
        <4>1. /\ UNCHANGED <<toWorker, body>> /\ entry' = [entry EXCEPT ![i] = NoEntry]
              /\ request' = [request EXCEPT ![i] = r]
          BY <2>1, <3>1 DEF OnResult
        <4>2. r \in RequestRecs /\ r.st = "answered" /\ r.pipe = request[i].pipe
          BY <1>4 DEF RequestRecs
        <4> HIDE DEF r
        <4> QED
          BY <4>1, <4>2, <1>2, <1>3, <1>8
      <3>2. CASE ~entry[i].pending
        BY <2>1, <3>2, <1>3 DEF OnResult
      <3> QED
        BY <3>1, <3>2
    <2>3. ChunksIn(toHost, i) = c + 0 /\ c = 0
      BY <1>2, <1>9 DEF Final
    <2> HIDE DEF c
    <2>4. /\ body'[i].open => body'[i].got + c + worker[i].unread = worker[i].len
          /\ request'[i].pipe = "ended" =>
               body'[i].got = worker[i].len /\ worker[i].st = "done" /\ ~body'[i].open
          /\ body'[i].buffered <= HighWater - 1 + body'[i].credit
          /\ c + body'[i].credit + 0 <= ChunksIn(toHost, i) + body[i].credit
      BY <2>2, <2>3, <1>4, <1>5
    <2> QED
      BY <2>2, <2>4, <1>0, <1>1, <1>3, <1>6, HostTakes DEF c
  <1>10. CASE m.t = "open"
    <2>1. OnOpen(i)
      BY <1>0, <1>10 DEF HostGets
    <2>2. /\ toWorker' = toWorker
          /\ entry' \in [Invs -> EntryRecs] /\ body' \in [Invs -> BodyRecs]
          /\ request' \in [Invs -> RequestRecs]
          /\ \A j \in Invs \ {i} : body'[j] = body[j] /\ request'[j] = request[j]
          /\ request'[i].pipe = "ended" => body'[i].open = body[i].open /\ request[i].pipe = "ended"
          /\ request'[i].st = "none" => request[i].st = "none"
          /\ body'[i].got = body[i].got
          /\ body'[i].buffered = body[i].buffered /\ body'[i].credit = body[i].credit
      <3>1. CASE entry[i].pending /\ ~body[i].open
        <4> DEFINE e == [entry[i] EXCEPT !.timer = FALSE]
                   b == [body[i] EXCEPT !.open = TRUE]
                   p == IF request[i].client THEN "open" ELSE "destroyed"
                   r == [request[i] EXCEPT !.st = "streaming", !.pipe = p]
        <4>1. /\ toWorker' = toWorker /\ entry' = [entry EXCEPT ![i] = e]
              /\ body' = [body EXCEPT ![i] = b] /\ request' = [request EXCEPT ![i] = r]
          BY <2>1, <3>1, <1>3 DEF OnOpen
        <4>2. e \in EntryRecs
          BY <1>4 DEF EntryRecs
        <4>3. /\ b \in BodyRecs /\ b.got = body[i].got
              /\ b.buffered = body[i].buffered /\ b.credit = body[i].credit
          BY <1>4 DEF BodyRecs
        <4>4. p \in {"open", "destroyed"}
          OBVIOUS
        <4> HIDE DEF p
        <4>5. r \in RequestRecs /\ r.st = "streaming" /\ r.pipe = p
          BY <1>4, <4>4 DEF RequestRecs
        <4> HIDE DEF e, b, r
        <4>6. /\ entry' \in [Invs -> EntryRecs] /\ body' \in [Invs -> BodyRecs]
              /\ request' \in [Invs -> RequestRecs] /\ body'[i] = b /\ request'[i] = r
              /\ \A j \in Invs \ {i} : body'[j] = body[j] /\ request'[j] = request[j]
          BY <4>1, <4>2, <4>3, <4>5, <1>3
        <4> QED
          BY <4>1, <4>3, <4>4, <4>5, <4>6
      <3>2. CASE ~(entry[i].pending /\ ~body[i].open)
        BY <2>1, <3>2, <1>3 DEF OnOpen
      <3> QED
        BY <3>1, <3>2
    <2>3. ChunksIn(toHost, i) = c + 0
      BY <1>2, <1>10
    <2> HIDE DEF c
    <2>4. /\ body'[i].open => body'[i].got + c + worker[i].unread = worker[i].len
          /\ request'[i].pipe = "ended" =>
               body'[i].got = worker[i].len /\ worker[i].st = "done" /\ ~body'[i].open
          /\ body'[i].buffered <= HighWater - 1 + body'[i].credit
          /\ c + body'[i].credit + 0 <= ChunksIn(toHost, i) + body[i].credit
      BY <2>2, <2>3, <1>2, <1>4, <1>5, <1>10 DEF c
    <2> QED
      BY <2>2, <2>4, <1>0, <1>1, <1>3, <1>6, HostTakes DEF c
  <1>11. CASE m.t \in {"end", "error"}
    <2>1. PICK pipe \in {"ended", "destroyed"} :
            OnClose(i, pipe) /\ (m.t = "end" <=> pipe = "ended")
      <3>1. m.t = "end" => OnClose(i, "ended")
        BY <1>0 DEF HostGets
      <3>2. m.t = "error" => OnClose(i, "destroyed")
        BY <1>0 DEF HostGets
      <3> QED
        BY <3>1, <3>2, <1>11
    <2>2. ChunksIn(toHost, i) = c + 0 /\ c = 0 /\ worker[i].st = "done"
      BY <1>2, <1>11 DEF Final
    <2> HIDE DEF c
    <2>3. CASE body[i].open
      <3>1. toWorker' = toWorker /\ Closed(i, pipe)
        BY <2>1, <2>3 DEF OnClose
      <3>2. /\ entry' \in [Invs -> EntryRecs] /\ body' \in [Invs -> BodyRecs]
            /\ request' \in [Invs -> RequestRecs]
            /\ \A j \in Invs \ {i} : body'[j] = body[j] /\ request'[j] = request[j]
            /\ request'[i].st = "none" => request[i].st = "none"
            /\ request'[i].pipe = IF request[i].pipe = "open" THEN pipe ELSE request[i].pipe
            /\ ~body'[i].open /\ body'[i].got = body[i].got
            /\ body'[i].buffered = body[i].buffered /\ body'[i].credit = body[i].credit
        BY <3>1, <1>3, ClosedIs
      <3>3. request'[i].pipe = "ended" => m.t = "end" /\ worker[i].unread = 0
        BY <3>2, <2>1, <2>3, <1>2, <1>5
      <3>4. /\ body'[i].open => body'[i].got + c + worker[i].unread = worker[i].len
            /\ request'[i].pipe = "ended" =>
                 body'[i].got = worker[i].len /\ worker[i].st = "done" /\ ~body'[i].open
            /\ body'[i].buffered <= HighWater - 1 + body'[i].credit
            /\ c + body'[i].credit + 0 <= ChunksIn(toHost, i) + body[i].credit
        BY <3>2, <3>3, <2>2, <2>3, <1>4, <1>5
      <3> QED
        BY <3>1, <3>2, <3>4, <1>0, <1>1, <1>6, HostTakes DEF c
    <2>4. CASE ~body[i].open
      <3>1. UNCHANGED <<entry, body, request, toWorker>>
        BY <2>1, <2>4 DEF OnClose
      <3>4. /\ body'[i].open => body'[i].got + c + worker[i].unread = worker[i].len
            /\ request'[i].pipe = "ended" =>
                 body'[i].got = worker[i].len /\ worker[i].st = "done" /\ ~body'[i].open
            /\ body'[i].buffered <= HighWater - 1 + body'[i].credit
            /\ c + body'[i].credit + 0 <= ChunksIn(toHost, i) + body[i].credit
        BY <3>1, <2>2, <2>4, <1>4, <1>5
      <3> QED
        BY <3>1, <3>4, <1>0, <1>1, <1>3, <1>6, HostTakes DEF c
    <2> QED
      BY <2>3, <2>4
  <1>12. CASE m.t = "chunk"
    <2>1. OnChunk(i)
      BY <1>0, <1>12 DEF HostGets
    <2>2. ChunksIn(toHost, i) = c + 1
      BY <1>2, <1>12
    <2> HIDE DEF c
    <2>3. CASE ~body[i].open
      <3>1. UNCHANGED <<entry, body, request, toWorker>>
        BY <2>1, <2>3 DEF OnChunk
      <3>2. /\ body'[i].open => body'[i].got + c + worker[i].unread = worker[i].len
            /\ request'[i].pipe = "ended" =>
                 body'[i].got = worker[i].len /\ worker[i].st = "done" /\ ~body'[i].open
            /\ body'[i].buffered <= HighWater - 1 + body'[i].credit
            /\ c + body'[i].credit + 0 <= ChunksIn(toHost, i) + body[i].credit
        <4>1. c \in Nat
          BY <1>2 DEF c
        <4> QED
          BY <4>1, <3>1, <2>2, <2>3, <1>4, <1>5
      <3> QED
        BY <3>1, <3>2, <1>0, <1>1, <1>3, <1>6, HostTakes DEF c
    <2>4. CASE body[i].open /\ body[i].got + 1 > Quota
      <3>1. Closed(i, "destroyed") /\ toWorker' = Sent(Ipc("abort", i, 0))
        BY <2>1, <2>4 DEF OnChunk
      <3>2. /\ entry' \in [Invs -> EntryRecs] /\ body' \in [Invs -> BodyRecs]
            /\ request' \in [Invs -> RequestRecs]
            /\ \A j \in Invs \ {i} : body'[j] = body[j] /\ request'[j] = request[j]
            /\ request'[i].st = "none" => request[i].st = "none"
            /\ request'[i].pipe = IF request[i].pipe = "open" THEN "destroyed" ELSE request[i].pipe
            /\ ~body'[i].open /\ body'[i].got = body[i].got
            /\ body'[i].buffered = body[i].buffered /\ body'[i].credit = body[i].credit
        BY <3>1, <1>3, ClosedIs
      <3>3. \E x \in WorkerMsgs : /\ x.i = i /\ x.t # "invoke" /\ AckOf(x, i) = 0
                                  /\ toWorker' = Sent(x)
        <4>1. LET x == Ipc("abort", i, 0) IN
                x \in WorkerMsgs /\ x.i = i /\ x.t # "invoke" /\ AckOf(x, i) = 0
          BY <1>6 DEF Ipc, WorkerMsgs, AckOf
        <4> QED
          BY <4>1, <3>1
      <3>4. /\ body'[i].open => body'[i].got + c + worker[i].unread = worker[i].len
            /\ request'[i].pipe = "ended" =>
                 body'[i].got = worker[i].len /\ worker[i].st = "done" /\ ~body'[i].open
            /\ body'[i].buffered <= HighWater - 1 + body'[i].credit
            /\ c + body'[i].credit + 0 <= ChunksIn(toHost, i) + body[i].credit
        <4>1. c \in Nat
          BY <1>2 DEF c
        <4> QED
          BY <4>1, <3>2, <2>2, <2>4, <1>4, <1>5
      <3> QED
        BY <3>2, <3>3, <3>4, <1>0, <1>1, <1>6, HostTakes DEF c
    <2>5. CASE /\ body[i].open /\ ~(body[i].got + 1 > Quota)
      <3>1. PICK b \in BodyRecs, a \in {0, 1} :
              /\ body' = [body EXCEPT ![i] = b] /\ UNCHANGED <<entry, request>>
              /\ IF a = 0 THEN toWorker' = toWorker ELSE toWorker' = Sent(Ipc("ack", i, 1))
              /\ b.open = body[i].open /\ b.got = body[i].got + 1
              /\ b.buffered <= HighWater - 1 + b.credit
              /\ b.credit + a <= 1 + body[i].credit
        <4>1. CASE request[i].pipe = "destroyed"
          <5> DEFINE b == [body[i] EXCEPT !.got = @ + 1]
          <5>1. body' = [body EXCEPT ![i] = b] /\ UNCHANGED <<entry, request, toWorker>>
            BY <4>1, <2>1, <2>5, <1>3 DEF OnChunk
          <5>2. /\ b \in BodyRecs /\ b.open = body[i].open /\ b.got = body[i].got + 1
                /\ b.buffered = body[i].buffered /\ b.credit = body[i].credit
            BY <1>4 DEF BodyRecs
          <5> HIDE DEF b
          <5>3. b.credit + 0 <= 1 + body[i].credit
            BY <5>2, <1>4
          <5> QED
            BY <5>1, <5>2, <5>3, <1>5
        <4>2. CASE request[i].pipe # "destroyed"
          <5> DEFINE accepted == body[i].buffered + 1 < HighWater
                     k == IF accepted THEN body[i].credit ELSE body[i].credit + 1
                     a == IF accepted THEN 1 ELSE 0
                     g == body[i].got + 1
                     f == body[i].buffered + 1
                     b == [body[i] EXCEPT !.got = g, !.buffered = f, !.credit = k]
          <5>1. /\ body' = [body EXCEPT ![i] = b] /\ UNCHANGED <<entry, request>>
                /\ IF accepted THEN toWorker' = Sent(Ipc("ack", i, 1)) ELSE toWorker' = toWorker
            BY <4>2, <2>1, <2>5, <1>3 DEF OnChunk
          <5>2. /\ k \in Nat /\ k + a <= 1 + body[i].credit /\ a \in {0, 1}
                /\ body[i].buffered + 1 <= HighWater - 1 + k
            BY <1>4, <1>5, <1>6
          <5>3. IF a = 0 THEN toWorker' = toWorker ELSE toWorker' = Sent(Ipc("ack", i, 1))
            BY <5>1
          <5>4. g \in Nat /\ f \in Nat
            BY <1>4
          <5> HIDE DEF k, a, g, f
          <5>5. b \in BodyRecs /\ b.open = body[i].open /\ b.got = g /\ b.buffered = f /\ b.credit = k
            BY <5>2, <5>4, <1>4 DEF BodyRecs
          <5> HIDE DEF b
          <5> QED
            BY <5>1, <5>2, <5>3, <5>5 DEF g, f
        <4> QED
          BY <4>1, <4>2
      <3>2. /\ body' \in [Invs -> BodyRecs] /\ body'[i] = b
            /\ entry' \in [Invs -> EntryRecs] /\ request' \in [Invs -> RequestRecs]
            /\ request' = request
            /\ \A j \in Invs \ {i} : body'[j] = body[j] /\ request'[j] = request[j]
        BY <3>1, <1>3
      <3>3. \/ toWorker' = toWorker /\ a = 0
            \/ \E x \in WorkerMsgs : /\ x.i = i /\ x.t # "invoke" /\ AckOf(x, i) = a
                                     /\ toWorker' = Sent(x)
        <4>1. LET x == Ipc("ack", i, 1) IN
                x \in WorkerMsgs /\ x.i = i /\ x.t # "invoke" /\ AckOf(x, i) = 1
          BY <1>6 DEF Ipc, WorkerMsgs, AckOf
        <4> QED
          BY <4>1, <3>1
      <3>4. /\ body'[i].open => body'[i].got + c + worker[i].unread = worker[i].len
            /\ request'[i].pipe = "ended" =>
                 body'[i].got = worker[i].len /\ worker[i].st = "done" /\ ~body'[i].open
            /\ body'[i].buffered <= HighWater - 1 + body'[i].credit
            /\ c + body'[i].credit + a <= ChunksIn(toHost, i) + body[i].credit
        <4>1. c \in Nat /\ b.credit \in Nat
          BY <1>2 DEF c, BodyRecs
        <4> QED
          BY <4>1, <3>1, <3>2, <2>2, <2>5, <1>4, <1>5
      <3>5. a \in Nat
        BY <3>1
      <3> QED
        BY <3>2, <3>3, <3>4, <3>5, <1>0, <1>1, HostTakes DEF c
    <2> QED
      BY <2>3, <2>4, <2>5
  <1> QED
    BY <1>7, <1>9, <1>10, <1>11, <1>12 DEF Final

\* A step of the host for one invocation that takes no message.
LEMMA HostActs ==
  ASSUME RouteInv, UNCHANGED <<toHost, worker, alive>>, InvokedOnce',
         NEW i \in Invs, NEW a \in Nat,
         \/ toWorker' = toWorker /\ a = 0
         \/ \E x \in WorkerMsgs : x.i = i /\ AckOf(x, i) = a /\ toWorker' = Sent(x),
         entry' \in [Invs -> EntryRecs], body' \in [Invs -> BodyRecs],
         request' \in [Invs -> RequestRecs],
         \A j \in Invs \ {i} : body'[j] = body[j] /\ request'[j] = request[j],
         body'[i].open = body[i].open, body'[i].got = body[i].got,
         \/ request'[i].pipe = request[i].pipe
         \/ request[i].pipe = "open" /\ request'[i].pipe = "destroyed",
         body'[i].buffered <= HighWater - 1 + body'[i].credit,
         body'[i].credit + a <= body[i].credit
  PROVE  RouteInv'
  <1>1. /\ RouteTyped /\ InOrder /\ BodyInv(i) /\ toWorker' \in Seq(WorkerMsgs)
        /\ toWorker' = toWorker \/ \E x \in WorkerMsgs : x.i = i /\ toWorker' = Sent(x)
    BY AckedSent DEF RouteInv, RouteTyped
  <1>2. RouteTyped' /\ InOrder'
    BY <1>1 DEF RouteTyped, InOrder
  <1>3. /\ ChunksOnWay(i) = ChunksIn(toHost, i) /\ ChunksOnWay(i)' = ChunksIn(toHost, i)
        /\ ChunksIn(toHost, i) \in Nat
    <2>1. ChunksOnWay(i) = ChunksIn(toHost, i) /\ ChunksOnWay(i)' = ChunksIn(toHost, i)
      BY DEF ChunksOnWay, ChunksIn, Chunk
    <2> QED
      BY <2>1, <1>1, CountType DEF RouteTyped
  <1>4. InWindow(i)'
    <2>1. PICK n \in Nat : /\ Acked(toWorker, i, n)
                           /\ ChunksIn(toHost, i) + body[i].credit + n <= worker[i].inFlight
      BY <1>1, <1>3 DEF BodyInv, InWindow
    <2>2. PICK l \in Nat : l <= n + a /\ Acked(toWorker', i, l)
      <3>1. n <= n + 0
        OBVIOUS
      <3> QED
        BY <2>1, <3>1, <1>1, AckedSent
    <2>3. /\ body[i].credit \in Nat /\ body'[i].credit \in Nat /\ worker[i].inFlight \in Nat
          /\ worker[i].inFlight <= Window
      BY <1>1 DEF RouteTyped, BodyRecs, WorkerRecs, BodyInv, InWindow
    <2>4. ChunksIn(toHost, i) + body'[i].credit + a <= ChunksIn(toHost, i) + body[i].credit
      BY <2>3, <1>3
    <2>5. ChunksIn(toHost, i) + body'[i].credit + l <= worker[i].inFlight
      BY <2>1, <2>2, <2>3, <2>4, <1>3, StillInside
    <2> QED
      BY <2>2, <2>3, <2>5, <1>3 DEF InWindow
  <1>5. BodyInv(i)'
    BY <1>1, <1>3, <1>4 DEF BodyInv, Silent, Whole, EndedWhole
  <1> QED
    BY <1>1, <1>2, <1>5, HostStep

LEMMA ProcInvoke ==
  ASSUME RouteInv, NEW i \in Invs, Invoke(i)
  PROVE  RouteInv'
  <1> DEFINE x == Ipc("invoke", i, 0)
             e == [pending |-> TRUE, timer |-> TRUE]
             r == [request[i] EXCEPT !.st = "waiting"]
  <1>1. /\ request[i].st = "none" /\ alive /\ toWorker' = Append(toWorker, x) /\ toWorker' = Sent(x)
        /\ entry' = [entry EXCEPT ![i] = e] /\ request' = [request EXCEPT ![i] = r]
        /\ UNCHANGED <<body, worker, toHost, alive>>
        /\ entry \in [Invs -> EntryRecs] /\ body \in [Invs -> BodyRecs]
        /\ request \in [Invs -> RequestRecs] /\ toWorker \in Seq(WorkerMsgs)
    BY DEF Invoke, Sent, RouteInv, RouteTyped
  <1>2. /\ x \in WorkerMsgs /\ x.i = i /\ x.t = "invoke" /\ AckOf(x, i) = 0
        /\ e \in EntryRecs
    BY DEF Ipc, WorkerMsgs, AckOf, EntryRecs
  <1>3. r \in RequestRecs /\ r.st = "waiting" /\ r.pipe = request[i].pipe
    BY <1>1 DEF RequestRecs
  <1> HIDE DEF x, e, r
  <1>4. /\ entry' \in [Invs -> EntryRecs] /\ request' \in [Invs -> RequestRecs]
        /\ request'[i] = r /\ \A j \in Invs \ {i} : request'[j] = request[j]
    BY <1>1, <1>2, <1>3
  <1>5. InvokedOnce'
    <2>1. /\ DOMAIN toWorker = 1 .. Len(toWorker) /\ Len(toWorker) \in Nat
          /\ DOMAIN toWorker' = 1 .. Len(toWorker) + 1
          /\ \A k \in DOMAIN toWorker : toWorker'[k] = toWorker[k]
          /\ toWorker'[Len(toWorker) + 1] = x
      <3>1. toWorker' = Append(toWorker, x) /\ toWorker \in Seq(WorkerMsgs) /\ x \in WorkerMsgs
        BY <1>1, <1>2
      <3> QED
        BY <3>1, Appended
    <2>2. \A k \in DOMAIN toWorker' : \/ k \in DOMAIN toWorker /\ toWorker'[k] = toWorker[k]
                                      \/ k = Len(toWorker) + 1 /\ toWorker'[k] = x
      BY <2>1
    <2>3. \A k \in DOMAIN toWorker : toWorker[k].i \in Invs
      <3>1. \A k \in DOMAIN toWorker : toWorker[k] \in WorkerMsgs
        BY <1>1
      <3> QED
        BY <3>1 DEF WorkerMsgs
    <2>4. \A k \in DOMAIN toWorker : toWorker[k].t = "invoke" => toWorker[k].i # i
      BY <1>1 DEF RouteInv, InvokedOnce
    <2>5. worker[i].st = "none"
      BY <1>1 DEF RouteInv, InvokedOnce
    <2>6. ASSUME NEW k \in DOMAIN toWorker', toWorker'[k].t = "invoke"
          PROVE  worker'[toWorker'[k].i].st = "none" /\ request'[toWorker'[k].i].st # "none"
      <3>1. CASE k \in DOMAIN toWorker /\ toWorker'[k] = toWorker[k]
        BY <3>1, <2>3, <2>4, <2>6, <1>1, <1>4 DEF RouteInv, InvokedOnce
      <3>2. CASE toWorker'[k] = x
        BY <3>2, <2>5, <1>1, <1>2, <1>3, <1>4
      <3> QED
        BY <3>1, <3>2, <2>2
    <2>7. \A j, k \in DOMAIN toWorker' :
            toWorker'[j].t = "invoke" /\ toWorker'[k].t = "invoke" /\ toWorker'[j].i = toWorker'[k].i
              => j = k
      BY <2>2, <2>4, <1>2 DEF RouteInv, InvokedOnce
    <2>8. \A j \in Invs : request'[j].st = "none" => worker'[j].st = "none"
      BY <1>1, <1>3, <1>4 DEF RouteInv, InvokedOnce
    <2> QED
      BY <2>6, <2>7, <2>8 DEF InvokedOnce
  <1>6. /\ body[i].buffered <= HighWater - 1 + body[i].credit
        /\ body[i].credit + 0 <= body[i].credit /\ 0 \in Nat
    <2>1. body[i].credit \in Nat
      BY <1>1 DEF BodyRecs
    <2>2. body[i].credit + 0 <= body[i].credit
      BY <2>1
    <2> QED
      BY <2>2 DEF RouteInv, BodyInv, InWindow
  <1>7. \E y \in WorkerMsgs : y.i = i /\ AckOf(y, i) = 0 /\ toWorker' = Sent(y)
    BY <1>1, <1>2
  <1> QED
    BY <1>1, <1>3, <1>4, <1>5, <1>6, <1>7, HostActs

LEMMA ProcGivenUp ==
  ASSUME RouteInv, NEW i \in Invs, ClientLeaves(i) \/ Deadline(i)
  PROVE  RouteInv'
  <1> DEFINE x == Ipc("abort", i, 0)
  <1>1. /\ entry \in [Invs -> EntryRecs] /\ body \in [Invs -> BodyRecs]
        /\ request \in [Invs -> RequestRecs] /\ RouteTyped /\ request[i] \in RequestRecs
        /\ UNCHANGED <<body, worker, toHost, alive>>
    BY DEF ClientLeaves, Deadline, RouteInv, RouteTyped
  <1>2. /\ x \in WorkerMsgs /\ x.i = i /\ x.t # "invoke" /\ AckOf(x, i) = 0
        /\ toWorker' = toWorker \/ toWorker' = Sent(x)
    BY DEF Ipc, WorkerMsgs, AckOf, ClientLeaves, Deadline
  <1> HIDE DEF x
  <1>3. PICK r \in RequestRecs, e \in [Invs -> EntryRecs] :
          /\ request' = [request EXCEPT ![i] = r] /\ entry' = e
          /\ r.st = "none" => request[i].st = "none"
          /\ r.pipe = request[i].pipe \/ (request[i].pipe = "open" /\ r.pipe = "destroyed")
    <2>1. CASE ClientLeaves(i)
      <3> DEFINE p == IF request[i].pipe = "open" THEN "destroyed" ELSE request[i].pipe
                 r == [request[i] EXCEPT !.client = FALSE, !.pipe = p]
      <3>1. request' = [request EXCEPT ![i] = r] /\ entry' = entry
        BY <2>1, <1>1 DEF ClientLeaves
      <3>2. p \in {"none", "open", "ended", "destroyed"}
        BY <1>1 DEF RequestRecs
      <3> HIDE DEF p
      <3>3. r \in RequestRecs /\ r.st = request[i].st /\ r.pipe = p
        BY <3>2, <1>1 DEF RequestRecs
      <3> HIDE DEF r
      <3> QED
        BY <3>1, <3>3, <1>1 DEF p
    <2>2. CASE Deadline(i)
      <3> DEFINE r == [request[i] EXCEPT !.st = "failed"]
      <3>1. request' = [request EXCEPT ![i] = r] /\ entry' = [entry EXCEPT ![i] = NoEntry]
        BY <2>2, <1>1 DEF Deadline
      <3>2. r \in RequestRecs /\ r.st = "failed" /\ r.pipe = request[i].pipe
        BY <1>1 DEF RequestRecs
      <3> HIDE DEF r
      <3>3. [entry EXCEPT ![i] = NoEntry] \in [Invs -> EntryRecs]
        BY <1>1 DEF NoEntry, EntryRecs
      <3> QED
        BY <3>1, <3>2, <3>3
    <2> QED
      BY <2>1, <2>2
  <1>4. /\ request' \in [Invs -> RequestRecs] /\ entry' \in [Invs -> EntryRecs] /\ request'[i] = r
        /\ \A j \in Invs \ {i} : request'[j] = request[j]
    BY <1>1, <1>3
  <1>5. InvokedOnce'
    <2>1. \A j \in Invs : request'[j].st = "none" => request[j].st = "none"
      BY <1>3, <1>4
    <2> QED
      BY <2>1, <1>1, <1>2, StillInvokedOnce DEF RouteInv
  <1>6. /\ body[i].buffered <= HighWater - 1 + body[i].credit
        /\ body[i].credit + 0 <= body[i].credit /\ 0 \in Nat
    <2>1. body[i].credit \in Nat
      BY <1>1 DEF BodyRecs
    <2>2. body[i].credit + 0 <= body[i].credit
      BY <2>1
    <2> QED
      BY <2>2 DEF RouteInv, BodyInv, InWindow
  <1>7. toWorker' = toWorker \/ \E y \in WorkerMsgs : y.i = i /\ AckOf(y, i) = 0 /\ toWorker' = Sent(y)
    BY <1>2
  <1> QED
    BY <1>1, <1>3, <1>4, <1>5, <1>6, <1>7, HostActs

LEMMA ProcClientReads ==
  ASSUME RouteInv, NEW i \in Invs, ClientReads(i)
  PROVE  RouteInv'
  <1>1. /\ entry \in [Invs -> EntryRecs] /\ body \in [Invs -> BodyRecs]
        /\ request \in [Invs -> RequestRecs] /\ RouteTyped
        /\ request[i] \in RequestRecs /\ body[i] \in BodyRecs
        /\ UNCHANGED <<entry, worker, toHost, alive>>
    BY DEF ClientReads, RouteInv, RouteTyped
  <1>2. /\ body[i].buffered <= HighWater - 1 + body[i].credit /\ body[i].buffered \in Nat
        /\ body[i].credit \in Nat /\ HighWater \in Nat \ {0}
    BY <1>1, RouteStreamsAssumption DEF RouteInv, BodyInv, InWindow, BodyRecs
  <1>3. CASE /\ body[i].buffered = 0 /\ request[i].st = "streaming"
             /\ request' = [request EXCEPT ![i].st = "answered"] /\ UNCHANGED <<body, toWorker>>
    <2> DEFINE r == [request[i] EXCEPT !.st = "answered"]
    <2>1. request' = [request EXCEPT ![i] = r]
      BY <1>1, <1>3
    <2>2. r \in RequestRecs /\ r.st = "answered" /\ r.pipe = request[i].pipe
      BY <1>1 DEF RequestRecs
    <2> HIDE DEF r
    <2>3. /\ request' \in [Invs -> RequestRecs] /\ request'[i] = r
          /\ \A j \in Invs \ {i} : request'[j] = request[j]
      BY <1>1, <2>1, <2>2
    <2>4. InvokedOnce'
      <3>1. \A j \in Invs : request'[j].st = "none" => request[j].st = "none"
        BY <2>2, <2>3
      <3> QED
        BY <3>1, <1>1, <1>3, StillInvokedOnce DEF RouteInv
    <2>5. body[i].credit + 0 <= body[i].credit /\ 0 \in Nat
      BY <1>2
    <2> QED
      BY <2>2, <2>3, <2>4, <2>5, <1>1, <1>2, <1>3, HostActs
  <1>4. CASE /\ body[i].buffered > 0 /\ request' = request
             /\ LET drained == body[i].buffered = 1 /\ body[i].open /\ body[i].credit > 0 IN
                /\ body' = [body EXCEPT ![i].buffered = @ - 1,
                                ![i].credit = IF drained THEN 0 ELSE @]
                /\ toWorker' = IF drained THEN Sent(Ipc("ack", i, body[i].credit)) ELSE toWorker
    <2> DEFINE drained == body[i].buffered = 1 /\ body[i].open /\ body[i].credit > 0
               f == body[i].buffered - 1
               k == IF drained THEN 0 ELSE body[i].credit
               a == IF drained THEN body[i].credit ELSE 0
               b == [body[i] EXCEPT !.buffered = f, !.credit = k]
               x == Ipc("ack", i, body[i].credit)
    <2>1. /\ body' = [body EXCEPT ![i] = b] /\ request' = request
          /\ IF drained THEN toWorker' = Sent(x) /\ a = body[i].credit ELSE toWorker' = toWorker /\ a = 0
      BY <1>1, <1>4
    <2>2. /\ f \in Nat /\ k \in Nat /\ a \in Nat /\ k + a <= body[i].credit
          /\ f <= HighWater - 1 + k
      BY <1>2, <1>4
    <2>3. /\ x \in WorkerMsgs /\ x.i = i /\ x.t # "invoke" /\ AckOf(x, i) = body[i].credit
      BY <1>2 DEF Ipc, WorkerMsgs, AckOf
    <2> HIDE DEF f, k, a, x, drained
    <2>4. /\ b \in BodyRecs /\ b.buffered = f /\ b.credit = k
          /\ b.open = body[i].open /\ b.got = body[i].got
      BY <2>2, <1>1 DEF BodyRecs
    <2> HIDE DEF b
    <2>5. /\ body' \in [Invs -> BodyRecs] /\ body'[i] = b
          /\ \A j \in Invs \ {i} : body'[j] = body[j]
      BY <1>1, <2>1, <2>4
    <2>6. InvokedOnce'
      BY <2>1, <2>3, <1>1, StillInvokedOnce DEF RouteInv
    <2>7. \/ toWorker' = toWorker /\ a = 0
          \/ \E y \in WorkerMsgs : y.i = i /\ AckOf(y, i) = a /\ toWorker' = Sent(y)
      BY <2>1, <2>3
    <2> QED
      BY <2>1, <2>2, <2>4, <2>5, <2>6, <2>7, <1>1, HostActs
  <1> QED
    BY <1>3, <1>4 DEF ClientReads

LEMMA ProcWorkerDies ==
  ASSUME RouteInv, WorkerDies
  PROVE  RouteInv'
  <1>1. /\ body \in [Invs -> BodyRecs] /\ request \in [Invs -> RequestRecs]
        /\ worker \in [Invs -> WorkerRecs]
        /\ alive' = FALSE /\ toWorker' = <<>> /\ toHost' = <<>>
        /\ entry' = [i \in Invs |-> NoEntry]
        /\ body' = [i \in Invs |-> [body[i] EXCEPT !.open = FALSE]]
        /\ request' = [i \in Invs |-> [request[i] EXCEPT
               !.pipe = IF body[i].open THEN "destroyed" ELSE request[i].pipe,
               !.st = IF entry[i].pending THEN "failed" ELSE request[i].st]]
        /\ worker' = [i \in Invs |-> [worker[i] EXCEPT !.st = "done"]]
    BY DEF WorkerDies, RouteInv, RouteTyped
  <1>2. ASSUME NEW i \in Invs
        PROVE  /\ entry'[i] \in EntryRecs /\ body'[i] \in BodyRecs /\ request'[i] \in RequestRecs
               /\ worker'[i] \in WorkerRecs
               /\ ~body'[i].open /\ body'[i].got = body[i].got
               /\ body'[i].buffered = body[i].buffered /\ body'[i].credit = body[i].credit
               /\ request'[i].pipe = "ended" => request[i].pipe = "ended"
               /\ worker'[i].st = "done" /\ worker'[i].len = worker[i].len
               /\ worker'[i].inFlight = worker[i].inFlight
    <2>0. body[i] \in BodyRecs /\ request[i] \in RequestRecs /\ worker[i] \in WorkerRecs
      BY <1>1
    <2>1. entry'[i] \in EntryRecs
      BY <1>1 DEF NoEntry, EntryRecs
    <2>2. /\ body'[i] \in BodyRecs /\ ~body'[i].open /\ body'[i].got = body[i].got
          /\ body'[i].buffered = body[i].buffered /\ body'[i].credit = body[i].credit
      <3>1. body'[i] = [body[i] EXCEPT !.open = FALSE]
        BY <1>1
      <3> QED
        BY <3>1, <2>0 DEF BodyRecs
    <2>3. /\ worker'[i] \in WorkerRecs /\ worker'[i].st = "done"
          /\ worker'[i].len = worker[i].len /\ worker'[i].inFlight = worker[i].inFlight
      <3>1. worker'[i] = [worker[i] EXCEPT !.st = "done"]
        BY <1>1
      <3> QED
        BY <3>1, <2>0 DEF WorkerRecs
    <2>4. request'[i] \in RequestRecs /\ (request'[i].pipe = "ended" => request[i].pipe = "ended")
      <3> DEFINE p == IF body[i].open THEN "destroyed" ELSE request[i].pipe
                 t == IF entry[i].pending THEN "failed" ELSE request[i].st
      <3>1. request'[i] = [request[i] EXCEPT !.pipe = p, !.st = t]
        BY <1>1
      <3>2. /\ p \in {"none", "open", "ended", "destroyed"}
            /\ p = "ended" => request[i].pipe = "ended"
            /\ t \in {"none", "waiting", "streaming", "answered", "failed"}
        BY <2>0 DEF RequestRecs
      <3> HIDE DEF p, t
      <3> QED
        BY <3>1, <3>2, <2>0 DEF RequestRecs
    <2> QED
      BY <2>1, <2>2, <2>3, <2>4
  <1>3. RouteTyped'
    <2>1. <<>> \in Seq(WorkerMsgs) /\ <<>> \in Seq(HostMsgs)
      OBVIOUS
    <2>2. /\ entry' \in [Invs -> EntryRecs] /\ body' \in [Invs -> BodyRecs]
          /\ request' \in [Invs -> RequestRecs] /\ worker' \in [Invs -> WorkerRecs]
      BY <1>1, <1>2
    <2> QED
      BY <2>1, <2>2, <1>1 DEF RouteTyped
  <1>0. /\ \A k \in DOMAIN toHost' : FALSE
        /\ \A k \in DOMAIN toWorker' : FALSE
    <2>1. \A k \in DOMAIN <<>> : FALSE
      OBVIOUS
    <2> QED
      BY <2>1, <1>1
  <1>4. InvokedOnce' /\ InOrder'
    <2>1. alive' = FALSE
      BY <1>1
    <2> QED
      BY <1>0, <2>1 DEF InvokedOnce, InOrder
  <1>5. ASSUME NEW i \in Invs
        PROVE  BodyInv(i)'
    <2>1. /\ BodyInv(i) /\ toHost \in Seq(HostMsgs) /\ body[i] \in BodyRecs /\ worker[i] \in WorkerRecs
      BY DEF RouteInv, RouteTyped
    <2>2. (\A t : ~Says(toHost', i, t)) /\ ChunksIn(toHost', i) = 0
      <3>1. toHost' \in Seq(HostMsgs)
        BY <1>3 DEF RouteTyped
      <3> QED
        BY <3>1, <1>0, CountType DEF Says
    <2>3. ChunksOnWay(i) = ChunksIn(toHost, i) /\ ChunksOnWay(i)' = ChunksIn(toHost', i)
      BY DEF ChunksOnWay, ChunksIn, Chunk
    <2>4. InWindow(i)'
      <3>1. PICK n \in Nat : ChunksIn(toHost, i) + body[i].credit + n <= worker[i].inFlight
        BY <2>1, <2>3 DEF BodyInv, InWindow
      <3>2. /\ ChunksIn(toHost, i) \in Nat /\ body[i].credit \in Nat /\ worker[i].inFlight \in Nat
        BY <2>1, CountType DEF BodyRecs, WorkerRecs
      <3>3. 0 + body[i].credit + 0 <= worker[i].inFlight
        BY <3>1, <3>2
      <3>4. Acked(toWorker', i, 0)
        BY <1>1, AckedNone
      <3> QED
        BY <3>3, <3>4, <2>1, <2>2, <2>3, <1>2 DEF BodyInv, InWindow
    <2> QED
      BY <2>1, <2>2, <2>4, <1>2 DEF BodyInv, Silent, Whole, EndedWhole
  <1> QED
    BY <1>3, <1>4, <1>5 DEF RouteInv

LEMMA NextRoute == RouteInv /\ [StreamNext]_streamVars => RouteInv'
  <1> SUFFICES ASSUME RouteInv, [StreamNext]_streamVars PROVE RouteInv'
    OBVIOUS
  <1>1. CASE UNCHANGED streamVars
    <2>1. UNCHANGED <<entry, body, request, worker, toWorker, toHost, alive>>
      BY <1>1 DEF streamVars
    <2>2. RouteTyped' /\ InvokedOnce' /\ InOrder'
      BY <2>1 DEF RouteInv, RouteTyped, InvokedOnce, InOrder
    <2>3. ASSUME NEW i \in Invs PROVE BodyInv(i)'
      <3>1. BodyInv(i)
        BY DEF RouteInv
      <3>2. Silent(i)' /\ EndedWhole(i)'
        BY <2>1, <3>1 DEF BodyInv, Silent, EndedWhole
      <3>3. ChunksOnWay(i)' = ChunksOnWay(i)
        BY <2>1 DEF ChunksOnWay
      <3>4. Whole(i)' /\ InWindow(i)'
        BY <2>1, <3>1, <3>3 DEF BodyInv, Whole, InWindow
      <3> QED
        BY <3>2, <3>4 DEF BodyInv
    <2> QED
      BY <2>2, <2>3 DEF RouteInv
  <1> QED
    BY <1>1, ProcHostGets, ProcWorkerGets, ProcWorkerDies, ProcInvoke, ProcGivenUp,
       ProcClientReads, ProcWorkerSays, ProcPumpStops DEF StreamNext

\* StreamsSound: a pipe ends regularly only when the whole body was received, and
\* the channel and the pipe hold less than the window and the high-water mark
\* together, however acknowledgements, aborts, deadlines and exits fall
\* (onStreamChunk, onStreamEnd, failStreamBody; drainBodyQueue, releaseCredit).
THEOREM StreamsAreSound == RouteSpec => []StreamsSound
  <1>1. RouteInv => StreamsSound
    <2> SUFFICES ASSUME RouteInv PROVE StreamsSound
      OBVIOUS
    <2>1. NoSilentTruncation
      BY DEF RouteInv, BodyInv, EndedWhole, NoSilentTruncation
    <2>2. ASSUME NEW i \in Invs
          PROVE  ChunksOnWay(i) + body[i].buffered < Window + HighWater
      <3>1. /\ toHost \in Seq(HostMsgs) /\ body[i] \in BodyRecs /\ worker[i] \in WorkerRecs
            /\ BodyInv(i)
        BY DEF RouteInv, RouteTyped
      <3>2. PICK n \in Nat : ChunksOnWay(i) + body[i].credit + n <= worker[i].inFlight
        BY <3>1 DEF BodyInv, InWindow
      <3>3. ChunksOnWay(i) \in Nat
        <4>1. ChunksOnWay(i) = ChunksIn(toHost, i)
          BY DEF ChunksOnWay, ChunksIn, Chunk
        <4> QED
          BY <4>1, <3>1, CountType
      <3>4. /\ body[i].credit \in Nat /\ body[i].buffered \in Nat /\ worker[i].inFlight \in Nat
            /\ worker[i].inFlight <= Window /\ body[i].buffered <= HighWater - 1 + body[i].credit
        BY <3>1 DEF BodyRecs, WorkerRecs, BodyInv, InWindow
      <3>5. Window \in Nat /\ HighWater \in Nat
        BY RouteStreamsAssumption
      <3> QED
        BY <3>2, <3>3, <3>4, <3>5
    <2> QED
      BY <2>1, <2>2 DEF StreamsSound, HostBuffersBounded
  <1> QED
    BY <1>1, InitRoute, NextRoute, PTL DEF RouteSpec

-----------------------------------------------------------------------------
(* Plugin packages: the types, and the inductive invariant.                *)

Versions == 0 .. First
FileRecs == [root : BOOLEAN, package : Versions, rollback : [1 .. MaxRequests -> Versions],
             incoming : SUBSET (1 .. MaxRequests)]
RowRecs == [version : Versions, v3 : BOOLEAN, enabled : BOOLEAN]
RunRecs == [host : Versions, worker : Versions, left : BOOLEAN]
SeenRecs == [overlap : BOOLEAN, late : BOOLEAN, crash : BOOLEAN, raced : BOOLEAN, undone : BOOLEAN,
             stuck : BOOLEAN]
Placed == {"dependencies", "incoming", "checking", "aside"}
Replacing == {"swapping", "registering", "undo", "restoring"}
Installing == Placed \cup Replacing \cup {"cleaning", "discarding"}
Removing == {"removing", "unregistering", "returning"}
Handlers == [at : Installing \cup Removing \cup {"starting", "ending", "done"},
             v3 : BOOLEAN, wasEnabled : BOOLEAN, safe : BOOLEAN, aside : BOOLEAN,
             starts : BOOLEAN, enables : BOOLEAN, moved : FileRecs]

PackagesTyped ==
    /\ files \in FileRecs /\ row \in RowRecs /\ seen \in SeenRecs
    /\ running \in RunRecs /\ safeMode \in BOOLEAN
    /\ requests \in Seq(Handlers) /\ Len(requests) <= MaxRequests

\* Requests did not overlap: only the last one may be in progress.
OneAtATime ==
    ~seen.overlap => \A r \in Requests : requests[r].at # "done" => r = Len(requests)

\* What is in progress in safe mode, when nothing was as it was entered, began in
\* safe mode, and knows it.
QuietInside ==
    safeMode /\ ~seen.raced =>
      /\ \A r \in Requests : /\ requests[r].at \in Installing => requests[r].safe
                             /\ requests[r].at = "starting" => seen.undone
      /\ seen.undone \/ running = NoRun

\* Where the packages are while request r, the last of l, is at its stage; v is
\* the registered version.
Beyond(f, l) == \A k \in 1 .. MaxRequests : k > l => f.rollback[k] = 0
InPlace(r, h, f, v) ==
    /\ h.at \in Placed \cup {"removing"} => f.rollback[r] = 0
    /\ h.at \in Placed \cup Replacing => v # r
    /\ h.at = "swapping" => f.package = 0
    /\ h.at = "registering" => f.package = r
    /\ h.at = "undo" => f.package \in {0, r}
    /\ h.at = "cleaning" => f.package = r /\ v = r
    /\ h.at = "removing" => h.moved = NoFiles
    /\ h.at \in {"unregistering", "returning"} => f = NoFiles /\ Beyond(h.moved, r)
CopyKept ==
    ~seen.overlap /\ ~seen.late =>
      /\ Beyond(files, Len(requests)) /\ row.version \in {0, First} \cup Requests
      /\ \A r \in Requests : r = Len(requests) => InPlace(r, requests[r], files, row.version)
      /\ row.version # 0 => \/ Holds(files, row.version)
                            \/ \E r \in Requests : Holds(requests[r].moved, row.version)

\* How the package, the registry row w and what runs agree at each stage, while no
\* crash has cut a request short and no rollback is stuck.
RunsOf(w, n) ==
    /\ n.host # 0 => n.host = w.version /\ w.enabled /\ ~w.v3
    /\ n.worker # 0 /\ ~n.left => n.worker = w.version /\ w.enabled /\ w.v3
Idle(n) == n.host = 0 /\ (n.worker # 0 => n.left)
Agrees(r, h, f, w, n) ==
    /\ h.at \in Placed \cup {"done", "cleaning", "discarding", "starting", "ending", "removing"} =>
         f.package = w.version
    /\ h.at = "dependencies" => h.wasEnabled = w.enabled
    /\ h.at \in (Installing \ {"dependencies"}) \cup Removing => Idle(n)
    /\ h.at = "restoring" => f.package = 0
    /\ h.at \in Placed => ~h.aside
    /\ h.at \in Replacing => IF h.aside THEN f.rollback[r] = w.version /\ w.version # 0
                             ELSE w.version = 0
    /\ h.at = "aside" => f.package # 0
    /\ h.at = "cleaning" => h.starts = w.enabled /\ h.v3 = w.v3
    /\ h.at = "starting" => (h.enables \/ w.enabled) /\ h.v3 = w.v3
    /\ h.at \in {"unregistering", "returning"} => h.moved.package = w.version
AllAgree ==
    ~seen.overlap /\ ~seen.late /\ ~seen.crash /\ ~seen.stuck =>
      /\ RunsOf(row, running)
      /\ requests = <<>> => files.package = row.version
      /\ \A r \in Requests : r = Len(requests) => Agrees(r, requests[r], files, row, running)

PackagesInv == PackagesTyped /\ OneAtATime /\ QuietInside /\ CopyKept /\ AllAgree

LEMMA NoFilesIs ==
  /\ NoFiles \in FileRecs /\ NoFiles.package = 0 /\ NoFiles.root = FALSE
  /\ \A l : Beyond(NoFiles, l)
  /\ \A k \in 1 .. MaxRequests : NoFiles.rollback[k] = 0
  /\ First \in Nat /\ First > MaxRequests /\ 0 \in Versions /\ First \in Versions
  /\ 1 .. MaxRequests \subseteq Versions
  <1>1. MaxRequests \in Nat
    BY PluginPackagesAssumption
  <1>2. First \in Nat /\ First > MaxRequests /\ 0 \in Versions /\ First \in Versions
        /\ 1 .. MaxRequests \subseteq Versions
    BY <1>1 DEF First, Versions
  <1> QED
    BY <1>2 DEF NoFiles, FileRecs, Beyond

LEMMA InitPackages == PackagesInit => PackagesInv
  <1> SUFFICES ASSUME PackagesInit PROVE PackagesInv
    OBVIOUS
  <1>1. files \in FileRecs /\ files.package = row.version /\ files.rollback = NoFiles.rollback
    <2>1. CASE files = NoFiles /\ row = NoPlugin
      BY <2>1, NoFilesIs DEF NoPlugin
    <2>2. CASE /\ files = [NoFiles EXCEPT !.root = TRUE, !.package = First]
               /\ row.version = First
      BY <2>2, NoFilesIs DEF FileRecs
    <2> QED
      BY <2>1, <2>2 DEF PackagesInit
  <1>2. row \in RowRecs /\ running \in RunRecs /\ RunsOf(row, running)
        /\ row.version \in {0, First}
    <2>1. CASE row = NoPlugin /\ running = NoRun
      BY <2>1, NoFilesIs DEF NoPlugin, NoRun, RowRecs, RunRecs, RunsOf
    <2>2. CASE /\ row = [version |-> First, v3 |-> FALSE, enabled |-> TRUE]
               /\ running = [NoRun EXCEPT !.host = First]
      BY <2>2, NoFilesIs DEF NoRun, RowRecs, RunRecs, RunsOf
    <2>3. CASE /\ row = [version |-> First, v3 |-> TRUE, enabled |-> TRUE]
               /\ running = [NoRun EXCEPT !.worker = First]
      BY <2>3, NoFilesIs DEF NoRun, RowRecs, RunRecs, RunsOf
    <2> QED
      BY <2>1, <2>2, <2>3 DEF PackagesInit
  <1>3. requests = <<>> /\ requests \in Seq(Handlers) /\ Len(requests) = 0 /\ Requests = {}
    BY DEF PackagesInit, Requests
  <1>4. PackagesTyped
    <2>1. seen \in SeenRecs /\ safeMode \in BOOLEAN
      BY DEF PackagesInit, SeenRecs
    <2>2. Len(requests) <= MaxRequests
      BY <1>3, PluginPackagesAssumption
    <2> QED
      BY <1>1, <1>2, <1>3, <2>1, <2>2 DEF PackagesTyped
  <1>5. Beyond(files, Len(requests)) /\ (row.version # 0 => Holds(files, row.version))
    BY <1>1, <1>3, NoFilesIs DEF Beyond, Holds
  <1> QED
    BY <1>1, <1>2, <1>3, <1>4, <1>5
       DEF PackagesInv, OneAtATime, QuietInside, CopyKept, AllAgree, PackagesInit

LEMMA RequestsAre ==
  ASSUME PackagesTyped
  PROVE  /\ Len(requests) \in Nat /\ DOMAIN requests = Requests /\ Requests = 1 .. Len(requests)
         /\ \A r \in Requests : requests[r] \in Handlers /\ r \in 1 .. MaxRequests /\ r \in Versions
         /\ requests = <<>> <=> Requests = {}
  <1>1. requests \in Seq(Handlers) /\ Len(requests) <= MaxRequests /\ MaxRequests \in Nat
    BY PluginPackagesAssumption DEF PackagesTyped
  <1>2. /\ Len(requests) \in Nat /\ DOMAIN requests = 1 .. Len(requests)
        /\ \A r \in 1 .. Len(requests) : requests[r] \in Handlers
        /\ requests = <<>> <=> Len(requests) = 0
    BY <1>1
  <1>3. \A r \in 1 .. Len(requests) : r \in 1 .. MaxRequests
    BY <1>1, <1>2
  <1>4. requests = <<>> <=> Requests = {}
    BY <1>2 DEF Requests
  <1> QED
    BY <1>2, <1>3, <1>4, NoFilesIs DEF Requests

\* What ends the backends leaves a worker at most, and what is quiet quiet.
LEMMA EndsAre ==
  ASSUME PackagesTyped, NEW b, EndBackends(b)
  PROVE  /\ running' \in RunRecs /\ Idle(running')
         /\ running = NoRun => running' = NoRun
  <1>1. PICK w \in {0, running.worker} : running' = [host |-> 0, worker |-> w, left |-> w # 0]
    BY DEF EndBackends
  <1>2. w \in Versions /\ 0 \in Versions
    BY <1>1, NoFilesIs DEF PackagesTyped, RunRecs
  <1>3. PICK late \in BOOLEAN : late = (w # 0)
    OBVIOUS
  <1>4. running' = [host |-> 0, worker |-> w, left |-> late]
    BY <1>1, <1>3
  <1>5. running' \in RunRecs
    BY <1>2, <1>4 DEF RunRecs
  <1>6. Idle(running')
    BY <1>3, <1>4 DEF Idle
  <1>7. ASSUME running = NoRun PROVE running' = NoRun
    <2>1. w = 0
      BY <1>1, <1>7 DEF NoRun
    <2>2. late = FALSE
      BY <2>1, <1>3
    <2> QED
      BY <2>1, <2>2, <1>4 DEF NoRun
  <1> QED
    BY <1>5, <1>6, <1>7

\* One step of request r, which becomes h.
LEMMA StepOf ==
  ASSUME PackagesInv, NEW r \in Requests, NEW h \in Handlers, requests[r].at # "done",
         requests' = [requests EXCEPT ![r] = h], safeMode' = safeMode,
         files' \in FileRecs, row' \in RowRecs, running' \in RunRecs, seen' \in SeenRecs,
         seen'.overlap = seen.overlap, seen'.crash = seen.crash, seen'.raced = seen.raced,
         seen.late => seen'.late, seen.undone => seen'.undone, seen.stuck => seen'.stuck,
         safeMode /\ ~seen.raced =>
           /\ h.at \in Installing => h.safe
           /\ h.at = "starting" => seen'.undone
           /\ seen'.undone \/ running' = NoRun,
         ~seen.overlap /\ ~seen'.late /\ r = Len(requests) =>
           /\ Beyond(files', Len(requests)) /\ row'.version \in {0, First} \cup Requests
           /\ InPlace(r, h, files', row'.version)
           /\ row'.version # 0 =>
                \/ Holds(files', row'.version) \/ Holds(h.moved, row'.version)
                \/ \E k \in Requests \ {r} : Holds(requests[k].moved, row'.version),
         ~seen.overlap /\ ~seen'.late /\ ~seen.crash /\ ~seen'.stuck /\ r = Len(requests) =>
           RunsOf(row', running') /\ Agrees(r, h, files', row', running')
  PROVE  PackagesInv'
  <1>1. /\ Len(requests) \in Nat /\ DOMAIN requests = Requests /\ requests \in Seq(Handlers)
        /\ Requests = 1 .. Len(requests) /\ Len(requests) <= MaxRequests
    BY RequestsAre DEF PackagesInv, PackagesTyped
  <1>2. /\ requests' \in Seq(Handlers) /\ Len(requests') = Len(requests)
        /\ requests'[r] = h /\ \A k \in Requests \ {r} : requests'[k] = requests[k]
    <2>1. requests \in Seq(Handlers) /\ r \in 1 .. Len(requests)
      BY <1>1
    <2> QED
      BY <2>1, <1>1, ExceptSeq
  <1>3. Requests' = Requests /\ requests' # <<>>
    <2>1. Requests' = Requests
      BY <1>1, <1>2 DEF Requests
    <2>2. r \in 1 .. Len(requests) /\ Len(requests) \in Nat
      BY <1>1
    <2>3. Len(requests) # 0
      BY <2>2
    <2>4. requests' # <<>>
      BY <2>3, <1>2
    <2> QED
      BY <2>1, <2>4
  <1>4. PackagesTyped'
    BY <1>1, <1>2 DEF PackagesInv, PackagesTyped
  <1>5. ~seen.overlap => r = Len(requests)
    BY DEF PackagesInv, OneAtATime
  <1>6. OneAtATime'
    BY <1>2, <1>3, <1>5 DEF PackagesInv, OneAtATime
  <1>7. QuietInside'
    BY <1>2, <1>3 DEF PackagesInv, QuietInside
  <1>8. CopyKept'
    <2> SUFFICES ASSUME ~seen.overlap, ~seen'.late
                 PROVE  /\ Beyond(files', Len(requests')) /\ row'.version \in {0, First} \cup Requests'
                        /\ \A k \in Requests' : k = Len(requests') =>
                             InPlace(k, requests'[k], files', row'.version)
                        /\ row'.version # 0 =>
                             \/ Holds(files', row'.version)
                             \/ \E k \in Requests' : Holds(requests'[k].moved, row'.version)
      BY DEF CopyKept
    <2> QED
      BY <1>2, <1>3, <1>5
  <1>9. AllAgree'
    <2> SUFFICES ASSUME ~seen.overlap, ~seen'.late, ~seen.crash, ~seen'.stuck
                 PROVE  /\ RunsOf(row', running')
                        /\ \A k \in Requests' : k = Len(requests') =>
                             Agrees(k, requests'[k], files', row', running')
      BY <1>3 DEF AllAgree
    <2> QED
      BY <1>2, <1>3, <1>5
  <1> QED
    BY <1>4, <1>6, <1>7, <1>8, <1>9 DEF PackagesInv

\* A new request h; it overlaps unless nothing was in progress.
LEMMA BeginOf ==
  ASSUME PackagesInv, NEW h \in Handlers, Begin(h), UNCHANGED <<files, crashes>>,
         safeMode' \in BOOLEAN, row' \in RowRecs, running' \in RunRecs,
         row'.version = row.version, row'.enabled => row.enabled, h.moved = NoFiles,
         h.at \in {"dependencies", "removing", "starting", "done"},
         safeMode' => safeMode,
         safeMode' /\ ~seen.raced =>
           /\ h.at \in Installing => h.safe
           /\ h.at # "starting"
           /\ running = NoRun => running' = NoRun,
         Idle(running') \/ (running' = running /\ row' = row),
         h.at = "removing" => Idle(running'),
         h.at = "dependencies" => h.wasEnabled = row'.enabled /\ ~h.aside,
         h.at = "starting" => (h.enables \/ row'.enabled) /\ h.v3 = row'.v3
  PROVE  PackagesInv'
  <1> DEFINE l == Len(requests) + 1
  <1>1. /\ Len(requests) \in Nat /\ DOMAIN requests = Requests /\ requests \in Seq(Handlers)
        /\ Requests = 1 .. Len(requests) /\ Len(requests) < MaxRequests
        /\ MaxRequests \in Nat
    BY RequestsAre, PluginPackagesAssumption DEF PackagesInv, PackagesTyped, Begin
  <1>2. /\ requests' = Append(requests, h)
        /\ seen' = [seen EXCEPT !.overlap = seen.overlap \/ InFlight # {}]
        /\ seen \in SeenRecs
    BY DEF Begin, PackagesInv, PackagesTyped
  <1>3. /\ requests' \in Seq(Handlers) /\ Len(requests') = l /\ l <= MaxRequests
        /\ requests'[l] = h /\ \A k \in Requests : requests'[k] = requests[k]
    BY <1>1, <1>2
  <1>4. Requests' = 1 .. l /\ l \in Requests' /\ l \notin Requests /\ Requests' = Requests \cup {l}
        /\ requests' # <<>> /\ l \in 1 .. MaxRequests /\ l \in Nat
    <2>1. Requests' = 1 .. l
      BY <1>3 DEF Requests
    <2> QED
      BY <2>1, <1>1, <1>3
  <1> HIDE DEF l
  <1>5. /\ seen' \in SeenRecs /\ seen'.overlap = (seen.overlap \/ InFlight # {})
        /\ seen'.late = seen.late /\ seen'.crash = seen.crash /\ seen'.raced = seen.raced
        /\ seen'.undone = seen.undone /\ seen'.stuck = seen.stuck
    <2> DEFINE b == seen.overlap \/ InFlight # {}
    <2>1. b \in BOOLEAN
      BY <1>2 DEF SeenRecs
    <2> HIDE DEF b
    <2>2. seen' = [seen EXCEPT !.overlap = b]
      BY <1>2 DEF b
    <2>3. /\ seen' \in SeenRecs /\ seen'.overlap = b
          /\ seen'.late = seen.late /\ seen'.crash = seen.crash /\ seen'.raced = seen.raced
          /\ seen'.undone = seen.undone /\ seen'.stuck = seen.stuck
      BY <1>2, <2>1, <2>2 DEF SeenRecs
    <2> QED
      BY <2>3 DEF b
  <1>6. ~seen'.overlap => ~seen.overlap /\ \A k \in Requests : requests[k].at = "done"
    BY <1>5 DEF InFlight
  <1>7. PackagesTyped'
    BY <1>3, <1>5 DEF PackagesInv, PackagesTyped
  <1>8. OneAtATime'
    BY <1>3, <1>4, <1>6 DEF OneAtATime
  <1>9. QuietInside'
    BY <1>3, <1>4, <1>5 DEF PackagesInv, QuietInside
  <1>10. CopyKept'
    <2> SUFFICES ASSUME ~seen'.overlap, ~seen.late
                 PROVE  /\ Beyond(files, l) /\ row.version \in {0, First} \cup Requests'
                        /\ InPlace(l, h, files, row.version)
                        /\ row.version # 0 =>
                             \/ Holds(files, row.version)
                             \/ \E k \in Requests' : Holds(requests'[k].moved, row.version)
      BY <1>3, <1>4, <1>5 DEF CopyKept
    <2>1. /\ Beyond(files, Len(requests)) /\ row.version \in {0, First} \cup Requests
          /\ row.version # 0 => \/ Holds(files, row.version)
                                \/ \E k \in Requests : Holds(requests[k].moved, row.version)
      BY <1>6 DEF PackagesInv, CopyKept
    <2>2. Beyond(files, l) /\ files.rollback[l] = 0
      BY <2>1, <1>1, <1>3, <1>4 DEF Beyond, l
    <2>3. row.version # l
      BY <2>1, <1>1, <1>3, <1>4, NoFilesIs
    <2>4. InPlace(l, h, files, row.version)
      BY <2>2, <2>3 DEF InPlace, Placed, Replacing
    <2> QED
      BY <2>1, <2>2, <2>4, <1>3, <1>4
  <1>11. AllAgree'
    <2> SUFFICES ASSUME ~seen'.overlap, ~seen.late, ~seen.crash, ~seen.stuck
                 PROVE  RunsOf(row', running') /\ Agrees(l, h, files, row', running')
      BY <1>3, <1>4, <1>5 DEF AllAgree
    <2>1. RunsOf(row, running)
      BY <1>6 DEF PackagesInv, AllAgree
    <2>2. files.package = row.version
      <3>1. CASE requests = <<>>
        BY <3>1, <1>6 DEF PackagesInv, AllAgree
      <3>2. CASE requests # <<>>
        <4>1. Len(requests) \in Requests
          BY <3>2, <1>1
        <4>2. /\ requests[Len(requests)].at = "done"
              /\ Agrees(Len(requests), requests[Len(requests)], files, row, running)
          BY <4>1, <1>6 DEF PackagesInv, AllAgree
        <4> QED
          BY <4>2 DEF Agrees
      <3> QED
        BY <3>1, <3>2
    <2>3. RunsOf(row', running')
      BY <2>1 DEF RunsOf, Idle
    <2> QED
      BY <2>2, <2>3 DEF Agrees, Placed, Replacing, Installing, Removing
  <1> QED
    BY <1>7, <1>8, <1>9, <1>10, <1>11 DEF PackagesInv

\* A request that goes on, or ends, keeps what it holds.
LEMMA MovedIs ==
  ASSUME PackagesTyped, NEW r \in Requests,
         NEW at \in Installing \cup Removing \cup {"starting", "ending", "done"}, Moved(r, at)
  PROVE  \E h \in Handlers :
           /\ requests' = [requests EXCEPT ![r] = h]
           /\ h.at = at /\ h.moved = requests[r].moved
           /\ at # "done" => /\ h.wasEnabled = requests[r].wasEnabled /\ h.safe = requests[r].safe
                             /\ h.aside = requests[r].aside /\ h.starts = requests[r].starts
                             /\ h.enables = requests[r].enables /\ h.v3 = requests[r].v3
  <1>1. requests[r] \in Handlers
    BY RequestsAre
  <1>2. CASE at = "done"
    <2> DEFINE h == Ended(requests[r])
    <2>1. requests' = [requests EXCEPT ![r] = h]
      BY <1>2 DEF Moved
    <2>2. h \in Handlers /\ h.at = "done" /\ h.moved = requests[r].moved
      BY <1>1, NoFilesIs DEF Ended, Handler, Handlers
    <2> QED
      BY <1>2, <2>1, <2>2
  <1>3. CASE at # "done"
    <2> DEFINE h == [requests[r] EXCEPT !.at = at]
    <2>1. requests' = [requests EXCEPT ![r] = h]
      BY <1>3 DEF Moved
    <2>2. /\ h \in Handlers /\ h.at = at /\ h.moved = requests[r].moved
          /\ h.wasEnabled = requests[r].wasEnabled /\ h.safe = requests[r].safe
          /\ h.aside = requests[r].aside /\ h.starts = requests[r].starts
          /\ h.enables = requests[r].enables /\ h.v3 = requests[r].v3
      BY <1>1 DEF Handlers
    <2> HIDE DEF h
    <2> QED
      BY <2>1, <2>2
  <1> QED
    BY <1>2, <1>3

\* What is known while r, in progress, is at its stage.
LEMMA While ==
  ASSUME PackagesInv, NEW r \in Requests, requests[r].at # "done"
  PROVE  /\ requests[r] \in Handlers /\ r \in 1 .. MaxRequests /\ r \in Versions /\ r # 0
         /\ files \in FileRecs /\ row \in RowRecs /\ running \in RunRecs /\ seen \in SeenRecs
         /\ safeMode /\ ~seen.raced =>
              /\ requests[r].at \in Installing => requests[r].safe
              /\ requests[r].at = "starting" => seen.undone
              /\ seen.undone \/ running = NoRun
         /\ ~seen.overlap => r = Len(requests)
         /\ ~seen.overlap /\ ~seen.late =>
              /\ Beyond(files, Len(requests)) /\ row.version \in {0, First} \cup Requests
              /\ InPlace(r, requests[r], files, row.version)
              /\ row.version # 0 =>
                   \/ Holds(files, row.version) \/ Holds(requests[r].moved, row.version)
                   \/ \E k \in Requests \ {r} : Holds(requests[k].moved, row.version)
         /\ ~seen.overlap /\ ~seen.late /\ ~seen.crash /\ ~seen.stuck =>
              RunsOf(row, running) /\ Agrees(r, requests[r], files, row, running)
  <1>1. /\ requests[r] \in Handlers /\ r \in 1 .. MaxRequests /\ r \in Versions /\ r # 0
        /\ files \in FileRecs /\ row \in RowRecs /\ running \in RunRecs /\ seen \in SeenRecs
    BY RequestsAre DEF PackagesInv, PackagesTyped
  <1>2. ~seen.overlap => r = Len(requests)
    BY DEF PackagesInv, OneAtATime
  <1> QED
    BY <1>1, <1>2 DEF PackagesInv, QuietInside, CopyKept, AllAgree

-----------------------------------------------------------------------------
(* Every step of a request, and every new one, keeps the invariant.        *)

LEMMA ProcPrepared ==
  ASSUME PackagesInv, NEW r \in Requests, Prepared(r)
  PROVE  PackagesInv'
  <1>0. /\ requests[r].at = "dependencies" /\ UNCHANGED <<files, row, safeMode, crashes, seen>>
        /\ PackagesTyped /\ 0 \in Versions
    BY NoFilesIs DEF Prepared, At, PackagesInv
  <1>1. PICK h \in Handlers :
          /\ requests' = [requests EXCEPT ![r] = h] /\ h.moved = requests[r].moved
          /\ \/ /\ h.at = "incoming" /\ h.safe = requests[r].safe /\ h.aside = requests[r].aside
                /\ IF requests[r].wasEnabled THEN EndBackends(requests[r].v3)
                   ELSE running' = running
             \/ h.at = "done" /\ running' = running
    <2>1. CASE /\ Moved(r, "incoming")
               /\ IF requests[r].wasEnabled THEN EndBackends(requests[r].v3) ELSE running' = running
      BY <1>0, <2>1, MovedIs DEF Installing, Placed
    <2>2. CASE Moved(r, "done") /\ running' = running
      BY <1>0, <2>2, MovedIs
    <2> QED
      BY <2>1, <2>2 DEF Prepared
  <1>2. /\ running' \in RunRecs /\ (running = NoRun => running' = NoRun)
        /\ \/ Idle(running') /\ h.at = "incoming"
           \/ running' = running /\ (h.at = "incoming" => ~requests[r].wasEnabled)
    BY <1>0, <1>1, While, EndsAre
  <1>3. safeMode /\ ~seen.raced =>
          /\ h.at \in Installing => h.safe
          /\ h.at = "starting" => seen.undone
          /\ seen.undone \/ running' = NoRun
    BY <1>0, <1>1, <1>2, While DEF Installing, Placed, Replacing
  <1>4. ~seen.overlap /\ ~seen.late =>
          /\ Beyond(files, Len(requests)) /\ row.version \in {0, First} \cup Requests
          /\ InPlace(r, h, files, row.version)
          /\ row.version # 0 =>
               \/ Holds(files, row.version) \/ Holds(h.moved, row.version)
               \/ \E k \in Requests \ {r} : Holds(requests[k].moved, row.version)
    BY <1>0, <1>1, While DEF InPlace, Placed, Replacing
  <1>5. ~seen.overlap /\ ~seen.late /\ ~seen.crash /\ ~seen.stuck =>
          RunsOf(row, running') /\ Agrees(r, h, files, row, running')
    BY <1>0, <1>1, <1>2, While DEF RunsOf, Idle, Agrees, Installing, Placed, Replacing, Removing
  <1> QED
    BY <1>0, <1>1, <1>2, <1>3, <1>4, <1>5, While, StepOf

LEMMA ProcStageIncoming ==
  ASSUME PackagesInv, NEW r \in Requests, StageIncoming(r)
  PROVE  PackagesInv'
  <1>0. /\ requests[r].at = "incoming" /\ UNCHANGED <<row, running, safeMode, crashes, seen>>
        /\ PackagesTyped /\ 0 \in Versions
    BY NoFilesIs DEF StageIncoming, At, PackagesInv
  <1>1. PICK h \in Handlers :
          /\ requests' = [requests EXCEPT ![r] = h] /\ h.moved = requests[r].moved
          /\ \/ h.at = "checking" /\ h.safe = requests[r].safe /\ h.aside = requests[r].aside
             \/ h.at = "done"
    <2>1. CASE Moved(r, "checking")
      BY <1>0, <2>1, MovedIs DEF Installing, Placed
    <2>2. CASE Moved(r, "done")
      BY <1>0, <2>2, MovedIs
    <2> QED
      BY <2>1, <2>2 DEF StageIncoming
  <1>2. /\ files' \in FileRecs /\ files'.package = files.package
        /\ files'.rollback = files.rollback
    <2> DEFINE s == files.incoming \cup {r}
    <2>1. \/ files' = [files EXCEPT !.root = TRUE, !.incoming = s]
          \/ files' = [files EXCEPT !.root = TRUE]
      BY DEF StageIncoming
    <2>2. s \in SUBSET (1 .. MaxRequests) /\ files \in FileRecs
      BY <1>0, While DEF FileRecs
    <2> HIDE DEF s
    <2> QED
      BY <2>1, <2>2 DEF FileRecs
  <1>3. safeMode /\ ~seen.raced =>
          /\ h.at \in Installing => h.safe
          /\ h.at = "starting" => seen'.undone
          /\ seen'.undone \/ running' = NoRun
    BY <1>0, <1>1, <1>2, While DEF Installing, Placed, Replacing, Removing
  <1>4. ~seen.overlap /\ ~seen'.late =>
          /\ Beyond(files', Len(requests)) /\ row'.version \in {0, First} \cup Requests
          /\ InPlace(r, h, files', row'.version)
          /\ row'.version # 0 =>
               \/ Holds(files', row'.version) \/ Holds(h.moved, row'.version)
               \/ \E k \in Requests \ {r} : Holds(requests[k].moved, row'.version)
    BY <1>0, <1>1, <1>2, While DEF InPlace, Placed, Replacing, Beyond, Holds
  <1>5. ~seen.overlap /\ ~seen'.late /\ ~seen.crash /\ ~seen'.stuck =>
          RunsOf(row', running') /\ Agrees(r, h, files', row', running')
    BY <1>0, <1>1, <1>2, While DEF RunsOf, Idle, Agrees, Installing, Placed, Replacing, Removing
  <1> QED
    BY <1>0, <1>1, <1>2, <1>3, <1>4, <1>5, While, StepOf

LEMMA ProcCheckPackage ==
  ASSUME PackagesInv, NEW r \in Requests, CheckPackage(r)
  PROVE  PackagesInv'
  <1>0. /\ requests[r].at = "checking" /\ UNCHANGED <<files, row, running, safeMode, crashes, seen>>
        /\ PackagesTyped /\ 0 \in Versions
    BY NoFilesIs DEF CheckPackage, At, PackagesInv
  <1>1. PICK h \in Handlers :
          /\ requests' = [requests EXCEPT ![r] = h] /\ h.moved = requests[r].moved
          /\ h.at = IF files.package = 0 THEN "swapping" ELSE "aside"
          /\ h.safe = requests[r].safe /\ h.aside = requests[r].aside
    <2> DEFINE at == IF files.package = 0 THEN "swapping" ELSE "aside"
    <2>1. at \in Installing /\ at # "done" /\ Moved(r, at)
      BY DEF CheckPackage, Installing, Placed, Replacing
    <2> HIDE DEF at
    <2>2. PICK h \in Handlers :
            /\ requests' = [requests EXCEPT ![r] = h] /\ h.moved = requests[r].moved
            /\ h.at = at /\ h.safe = requests[r].safe /\ h.aside = requests[r].aside
      BY <1>0, <2>1, MovedIs
    <2> QED
      BY <2>2 DEF at
  <1>3. safeMode /\ ~seen.raced =>
          /\ h.at \in Installing => h.safe
          /\ h.at = "starting" => seen'.undone
          /\ seen'.undone \/ running' = NoRun
    BY <1>0, <1>1, While DEF Installing, Placed, Replacing, Removing
  <1>4. ~seen.overlap /\ ~seen'.late =>
          /\ Beyond(files', Len(requests)) /\ row'.version \in {0, First} \cup Requests
          /\ InPlace(r, h, files', row'.version)
          /\ row'.version # 0 =>
               \/ Holds(files', row'.version) \/ Holds(h.moved, row'.version)
               \/ \E k \in Requests \ {r} : Holds(requests[k].moved, row'.version)
    BY <1>0, <1>1, While DEF InPlace, Placed, Replacing
  <1>5. ~seen.overlap /\ ~seen'.late /\ ~seen.crash /\ ~seen'.stuck =>
          RunsOf(row', running') /\ Agrees(r, h, files', row', running')
    BY <1>0, <1>1, While DEF RunsOf, Idle, Agrees, Installing, Placed, Replacing, Removing
  <1> QED
    BY <1>0, <1>1, <1>3, <1>4, <1>5, While, StepOf

LEMMA ProcSetAside ==
  ASSUME PackagesInv, NEW r \in Requests, SetAside(r)
  PROVE  PackagesInv'
  <1>0. /\ requests[r].at = "aside" /\ UNCHANGED <<row, running, safeMode, crashes, seen>>
        /\ PackagesTyped /\ 0 \in Versions
    BY NoFilesIs DEF SetAside, At, PackagesInv
  <1>1. PICK h \in Handlers :
          /\ requests' = [requests EXCEPT ![r] = h] /\ h.moved = requests[r].moved
          /\ \/ /\ h.at = "swapping" /\ h.aside /\ h.safe = requests[r].safe
                /\ files.package # 0
                /\ files' = [files EXCEPT !.package = 0, !.rollback[r] = files.package]
             \/ h.at = "done" /\ files' = files
    <2>1. CASE Moved(r, "done") /\ files' = files
      BY <1>0, <2>1, MovedIs
    <2>2. CASE /\ files.package # 0
               /\ files' = [files EXCEPT !.package = 0, !.rollback[r] = files.package]
               /\ requests' = [requests EXCEPT ![r].at = "swapping", ![r].aside = TRUE]
      <3> DEFINE h == [requests[r] EXCEPT !.at = "swapping", !.aside = TRUE]
      <3>1. requests' = [requests EXCEPT ![r] = h]
        BY <2>2, <1>0, RequestsAre
      <3>2. /\ h \in Handlers /\ h.at = "swapping" /\ h.aside /\ h.moved = requests[r].moved
            /\ h.safe = requests[r].safe
        <4>1. requests[r] \in Handlers /\ "swapping" \in Installing
          BY <1>0, RequestsAre DEF Installing, Replacing
        <4> QED
          BY <4>1 DEF Handlers
      <3> HIDE DEF h
      <3> QED
        BY <3>1, <3>2, <2>2
    <2> QED
      BY <2>1, <2>2 DEF SetAside
  <1>2. /\ files' \in FileRecs
        /\ h.at = "swapping" => /\ files'.package = 0 /\ files'.rollback[r] = files.package
                               /\ \A k \in 1 .. MaxRequests :
                                    k # r => files'.rollback[k] = files.rollback[k]
    <2>1. CASE h.at = "swapping"
      <3> DEFINE b == [files.rollback EXCEPT ![r] = files.package]
      <3>1. files' = [files EXCEPT !.package = 0, !.rollback = b]
        BY <1>1, <2>1
      <3>2. /\ files \in FileRecs /\ files.package \in Versions /\ r \in 1 .. MaxRequests
            /\ files.rollback \in [1 .. MaxRequests -> Versions]
        BY <1>0, While DEF FileRecs
      <3>3. /\ b \in [1 .. MaxRequests -> Versions] /\ b[r] = files.package
            /\ \A k \in 1 .. MaxRequests : k # r => b[k] = files.rollback[k]
        BY <3>2
      <3> HIDE DEF b
      <3> QED
        BY <3>1, <3>2, <3>3, <1>0 DEF FileRecs
    <2>2. CASE h.at # "swapping"
      BY <2>2, <1>0, <1>1, While
    <2> QED
      BY <2>1, <2>2
  <1>3. safeMode /\ ~seen.raced =>
          /\ h.at \in Installing => h.safe
          /\ h.at = "starting" => seen'.undone
          /\ seen'.undone \/ running' = NoRun
    BY <1>0, <1>1, <1>2, While DEF Installing, Placed, Replacing, Removing
  <1>4. ~seen.overlap /\ ~seen'.late =>
          /\ Beyond(files', Len(requests)) /\ row'.version \in {0, First} \cup Requests
          /\ InPlace(r, h, files', row'.version)
          /\ row'.version # 0 =>
               \/ Holds(files', row'.version) \/ Holds(h.moved, row'.version)
               \/ \E k \in Requests \ {r} : Holds(requests[k].moved, row'.version)
    <2>1. CASE h.at = "done" /\ files' = files
      BY <2>1, <1>0, <1>1, While DEF InPlace, Placed, Replacing
    <2>2. CASE h.at = "swapping" /\ files.package # 0
      <3> SUFFICES ASSUME ~seen.overlap, ~seen.late
                   PROVE  /\ Beyond(files', Len(requests))
                          /\ InPlace(r, h, files', row.version)
                          /\ row.version # 0 =>
                               \/ Holds(files', row.version) \/ Holds(h.moved, row.version)
                               \/ \E k \in Requests \ {r} : Holds(requests[k].moved, row.version)
        BY <1>0, While
      <3>1. r = Len(requests) /\ r \in 1 .. MaxRequests /\ files.rollback[r] = 0
        BY <1>0, While DEF InPlace, Placed
      <3>2. Beyond(files', Len(requests))
        <4>1. Len(requests) \in Nat
          BY <1>0, RequestsAre
        <4> QED
          BY <3>1, <4>1, <2>2, <1>0, <1>2, While DEF Beyond
      <3>3. InPlace(r, h, files', row.version)
        BY <2>2, <1>0, <1>2, While DEF InPlace, Placed, Replacing
      <3>4. \A v : v # 0 /\ Holds(files, v) => Holds(files', v)
        BY <3>1, <2>2, <1>2 DEF Holds
      <3> QED
        BY <3>2, <3>3, <3>4, <1>0, <1>1, While
    <2> QED
      BY <2>1, <2>2, <1>1
  <1>5. ~seen.overlap /\ ~seen'.late /\ ~seen.crash /\ ~seen'.stuck =>
          RunsOf(row', running') /\ Agrees(r, h, files', row', running')
    BY <1>0, <1>1, <1>2, While DEF RunsOf, Idle, Agrees, Installing, Placed, Replacing, Removing
  <1> QED
    BY <1>0, <1>1, <1>2, <1>3, <1>4, <1>5, While, StepOf

LEMMA ProcSwap ==
  ASSUME PackagesInv, NEW r \in Requests, Swap(r)
  PROVE  PackagesInv'
  <1>0. /\ requests[r].at = "swapping" /\ UNCHANGED <<row, running, safeMode, crashes, seen>>
        /\ PackagesTyped /\ 0 \in Versions
    BY NoFilesIs DEF Swap, At, PackagesInv
  <1>1. PICK h \in Handlers :
          /\ requests' = [requests EXCEPT ![r] = h] /\ h.moved = requests[r].moved
          /\ h.safe = requests[r].safe /\ h.aside = requests[r].aside
          /\ \/ /\ h.at = "registering" /\ files.package = 0
                /\ files' = [files EXCEPT !.package = r, !.incoming = @ \ {r}]
             \/ h.at = "undo" /\ files' = files
    <2>1. CASE /\ files.package = 0 /\ Moved(r, "registering")
               /\ files' = [files EXCEPT !.package = r, !.incoming = @ \ {r}]
      BY <1>0, <2>1, MovedIs DEF Installing, Replacing
    <2>2. CASE Moved(r, "undo") /\ files' = files
      BY <1>0, <2>2, MovedIs DEF Installing, Replacing
    <2> QED
      BY <2>1, <2>2 DEF Swap
  <1>2. /\ files' \in FileRecs /\ files'.rollback = files.rollback
        /\ h.at = "registering" => files'.package = r
    <2> DEFINE s == files.incoming \ {r}
    <2>1. s \in SUBSET (1 .. MaxRequests) /\ files \in FileRecs /\ r \in Versions
      BY <1>0, While DEF FileRecs
    <2>2. \/ files' = [files EXCEPT !.package = r, !.incoming = s]
          \/ h.at # "registering" /\ files' = files
      BY <1>1
    <2> HIDE DEF s
    <2> QED
      BY <2>1, <2>2 DEF FileRecs
  <1>3. safeMode /\ ~seen.raced =>
          /\ h.at \in Installing => h.safe
          /\ h.at = "starting" => seen'.undone
          /\ seen'.undone \/ running' = NoRun
    BY <1>0, <1>1, <1>2, While DEF Installing, Placed, Replacing, Removing
  <1>4. ~seen.overlap /\ ~seen'.late =>
          /\ Beyond(files', Len(requests)) /\ row'.version \in {0, First} \cup Requests
          /\ InPlace(r, h, files', row'.version)
          /\ row'.version # 0 =>
               \/ Holds(files', row'.version) \/ Holds(h.moved, row'.version)
               \/ \E k \in Requests \ {r} : Holds(requests[k].moved, row'.version)
    BY <1>0, <1>1, <1>2, While DEF InPlace, Placed, Replacing, Beyond, Holds
  <1>5. ~seen.overlap /\ ~seen'.late /\ ~seen.crash /\ ~seen'.stuck =>
          RunsOf(row', running') /\ Agrees(r, h, files', row', running')
    BY <1>0, <1>1, <1>2, While DEF RunsOf, Idle, Agrees, Installing, Placed, Replacing, Removing
  <1> QED
    BY <1>0, <1>1, <1>2, <1>3, <1>4, <1>5, While, StepOf

LEMMA ProcRegisterVersion ==
  ASSUME PackagesInv, NEW r \in Requests, RegisterVersion(r)
  PROVE  PackagesInv'
  <1>0. /\ requests[r].at = "registering" /\ UNCHANGED <<files, running, safeMode, crashes, seen>>
        /\ PackagesTyped /\ 0 \in Versions
    BY NoFilesIs DEF RegisterVersion, At, PackagesInv
  <1>1. PICK h \in Handlers :
          /\ requests' = [requests EXCEPT ![r] = h] /\ h.moved = requests[r].moved
          /\ h.safe = requests[r].safe
          /\ \/ /\ h.at = "cleaning" /\ row' \in RowRecs /\ row'.version = r
                /\ h.starts = row'.enabled /\ h.v3 = row'.v3
             \/ h.at = "undo" /\ row' = row /\ h.aside = requests[r].aside
    <2>1. CASE Moved(r, "undo") /\ row' = row
      BY <1>0, <2>1, MovedIs DEF Installing, Replacing
    <2>2. CASE ~ (Moved(r, "undo") /\ row' = row)
      <3>1. PICK enabled \in {row.enabled, FALSE} :
              /\ row' = [version |-> r, v3 |-> requests[r].v3, enabled |-> enabled]
              /\ requests' = [requests EXCEPT ![r].at = "cleaning", ![r].starts = enabled]
        BY <2>2 DEF RegisterVersion
      <3> DEFINE h == [requests[r] EXCEPT !.at = "cleaning", !.starts = enabled]
      <3>2. requests' = [requests EXCEPT ![r] = h]
        BY <3>1, <1>0, RequestsAre
      <3>3. /\ enabled \in BOOLEAN /\ requests[r] \in Handlers /\ "cleaning" \in Installing
            /\ r \in Versions /\ requests[r].v3 \in BOOLEAN
        BY <1>0, <3>1, While DEF Installing, Handlers, RowRecs
      <3>4. /\ h \in Handlers /\ h.at = "cleaning" /\ h.moved = requests[r].moved
            /\ h.safe = requests[r].safe /\ h.starts = enabled /\ h.v3 = requests[r].v3
        BY <3>3 DEF Handlers
      <3>5. /\ row' \in RowRecs /\ row'.version = r /\ row'.enabled = enabled
            /\ row'.v3 = requests[r].v3
        BY <3>1, <3>3 DEF RowRecs
      <3> HIDE DEF h
      <3> QED
        BY <3>2, <3>4, <3>5
    <2> QED
      BY <2>1, <2>2
  <1>2. row' \in RowRecs
    BY <1>0, <1>1, While
  <1>3. safeMode /\ ~seen.raced =>
          /\ h.at \in Installing => h.safe
          /\ h.at = "starting" => seen'.undone
          /\ seen'.undone \/ running' = NoRun
    BY <1>0, <1>1, While DEF Installing, Placed, Replacing, Removing
  <1>4. ~seen.overlap /\ ~seen'.late =>
          /\ Beyond(files', Len(requests)) /\ row'.version \in {0, First} \cup Requests
          /\ InPlace(r, h, files', row'.version)
          /\ row'.version # 0 =>
               \/ Holds(files', row'.version) \/ Holds(h.moved, row'.version)
               \/ \E k \in Requests \ {r} : Holds(requests[k].moved, row'.version)
    BY <1>0, <1>1, While DEF InPlace, Placed, Replacing, Beyond, Holds
  <1>5. ~seen.overlap /\ ~seen'.late /\ ~seen.crash /\ ~seen'.stuck =>
          RunsOf(row', running') /\ Agrees(r, h, files', row', running')
    BY <1>0, <1>1, While DEF RunsOf, Idle, Agrees, Installing, Placed, Replacing, Removing, InPlace
  <1> QED
    BY <1>0, <1>1, <1>2, <1>3, <1>4, <1>5, While, StepOf

LEMMA ProcCleanUp ==
  ASSUME PackagesInv, NEW r \in Requests, CleanUp(r)
  PROVE  PackagesInv'
  <1>0. /\ requests[r].at = "cleaning" /\ UNCHANGED <<row, running, safeMode, crashes>>
        /\ PackagesTyped /\ 0 \in Versions
    BY NoFilesIs DEF CleanUp, At, PackagesInv
  <1> DEFINE cleaned == [files EXCEPT !.rollback[r] = 0]
  <1>1. PICK h \in Handlers :
          /\ requests' = [requests EXCEPT ![r] = h] /\ h.moved = requests[r].moved
          /\ \/ /\ h.at = "starting" /\ requests[r].starts /\ ~requests[r].safe
                /\ h.v3 = requests[r].v3 /\ seen' = seen /\ files' = cleaned
             \/ h.at = "done" /\ seen' = seen /\ files' = cleaned
             \/ /\ h.at = "undo" /\ seen' = [seen EXCEPT !.late = TRUE]
                /\ h.safe = requests[r].safe /\ files' \in {files, cleaned}
    <2>1. CASE /\ requests[r].starts /\ ~requests[r].safe /\ Moved(r, "starting")
               /\ seen' = seen /\ files' = cleaned
      BY <1>0, <2>1, MovedIs
    <2>2. CASE Moved(r, "done") /\ seen' = seen /\ files' = cleaned
      BY <1>0, <2>2, MovedIs
    <2>3. CASE /\ Moved(r, "undo") /\ seen' = [seen EXCEPT !.late = TRUE]
               /\ files' \in {files, cleaned}
      BY <1>0, <2>3, MovedIs DEF Installing, Replacing
    <2> QED
      BY <2>1, <2>2, <2>3 DEF CleanUp
  <1>7. /\ cleaned \in FileRecs /\ files \in FileRecs /\ cleaned.package = files.package
        /\ \A k \in 1 .. MaxRequests :
             cleaned.rollback[k] = IF k = r THEN 0 ELSE files.rollback[k]
    <2> DEFINE b == [files.rollback EXCEPT ![r] = 0]
    <2>1. cleaned = [files EXCEPT !.rollback = b]
      OBVIOUS
    <2>2. files \in FileRecs /\ files.rollback \in [1 .. MaxRequests -> Versions]
      BY <1>0, While DEF FileRecs
    <2>3. /\ b \in [1 .. MaxRequests -> Versions]
          /\ \A k \in 1 .. MaxRequests : b[k] = IF k = r THEN 0 ELSE files.rollback[k]
      BY <2>2, <1>0
    <2> HIDE DEF b, cleaned
    <2> QED
      BY <2>1, <2>2, <2>3 DEF FileRecs
  <1> HIDE DEF cleaned
  <1>2. files' \in FileRecs /\ (h.at # "undo" => files' = cleaned)
    BY <1>1, <1>7
  <1>6. /\ seen' \in SeenRecs /\ seen'.overlap = seen.overlap /\ seen'.crash = seen.crash
        /\ seen'.raced = seen.raced /\ seen'.undone = seen.undone /\ seen'.stuck = seen.stuck
        /\ seen'.late = (seen.late \/ h.at = "undo")
    BY <1>0, <1>1, While DEF SeenRecs
  <1>3. safeMode /\ ~seen.raced =>
          /\ h.at \in Installing => h.safe
          /\ h.at = "starting" => seen'.undone
          /\ seen'.undone \/ running' = NoRun
    BY <1>0, <1>1, <1>2, <1>6, <1>7, While DEF Installing, Placed, Replacing, Removing
  <1>4. ~seen.overlap /\ ~seen'.late =>
          /\ Beyond(files', Len(requests)) /\ row'.version \in {0, First} \cup Requests
          /\ InPlace(r, h, files', row'.version)
          /\ row'.version # 0 =>
               \/ Holds(files', row'.version) \/ Holds(h.moved, row'.version)
               \/ \E k \in Requests \ {r} : Holds(requests[k].moved, row'.version)
    BY <1>0, <1>1, <1>2, <1>6, <1>7, While DEF InPlace, Placed, Replacing, Beyond, Holds
  <1>5. ~seen.overlap /\ ~seen'.late /\ ~seen.crash /\ ~seen'.stuck =>
          RunsOf(row', running') /\ Agrees(r, h, files', row', running')
    BY <1>0, <1>1, <1>2, <1>6, <1>7, While DEF RunsOf, Idle, Agrees, Installing, Placed, Replacing, Removing
  <1> QED
    BY <1>0, <1>1, <1>2, <1>6, <1>3, <1>4, <1>5, While, StepOf

LEMMA StuckIs ==
  ASSUME seen \in SeenRecs, Stuck
  PROVE  /\ seen' \in SeenRecs /\ seen'.overlap = seen.overlap /\ seen'.crash = seen.crash
         /\ seen'.raced = seen.raced /\ seen'.undone = seen.undone /\ seen'.late = seen.late
         /\ seen'.stuck
  BY DEF SeenRecs, Stuck

LEMMA ProcUndoRemove ==
  ASSUME PackagesInv, NEW r \in Requests, UndoRemove(r)
  PROVE  PackagesInv'
  <1>0. /\ requests[r].at = "undo" /\ UNCHANGED <<row, running, safeMode, crashes>>
        /\ PackagesTyped /\ 0 \in Versions
    BY NoFilesIs DEF UndoRemove, At, PackagesInv
  <1>6. /\ seen' \in SeenRecs /\ seen'.overlap = seen.overlap /\ seen'.crash = seen.crash
        /\ seen'.raced = seen.raced /\ seen'.undone = seen.undone /\ seen'.late = seen.late
        /\ seen.stuck => seen'.stuck
        /\ seen' = seen \/ seen'.stuck
    BY <1>0, While, StuckIs DEF UndoRemove
  <1>1. PICK h \in Handlers :
          /\ requests' = [requests EXCEPT ![r] = h] /\ h.at = "restoring" /\ h.moved = requests[r].moved
          /\ h.safe = requests[r].safe /\ h.aside = requests[r].aside
    BY <1>0, MovedIs DEF UndoRemove, Installing, Replacing
  <1>2. /\ files' \in FileRecs /\ files'.rollback = files.rollback
        /\ files'.package \in {0, files.package}
        /\ files'.package = 0 \/ seen'.stuck
    BY <1>0, StuckIs, While DEF UndoRemove, FileRecs
  <1>3. safeMode /\ ~seen.raced =>
          /\ h.at \in Installing => h.safe
          /\ h.at = "starting" => seen'.undone
          /\ seen'.undone \/ running' = NoRun
    BY <1>0, <1>1, <1>2, <1>6, While DEF Installing, Placed, Replacing, Removing
  <1>4. ~seen.overlap /\ ~seen'.late =>
          /\ Beyond(files', Len(requests)) /\ row'.version \in {0, First} \cup Requests
          /\ InPlace(r, h, files', row'.version)
          /\ row'.version # 0 =>
               \/ Holds(files', row'.version) \/ Holds(h.moved, row'.version)
               \/ \E k \in Requests \ {r} : Holds(requests[k].moved, row'.version)
    BY <1>0, <1>1, <1>2, <1>6, While DEF InPlace, Placed, Replacing, Beyond, Holds
  <1>5. ~seen.overlap /\ ~seen'.late /\ ~seen.crash /\ ~seen'.stuck =>
          RunsOf(row', running') /\ Agrees(r, h, files', row', running')
    BY <1>0, <1>1, <1>2, <1>6, While DEF RunsOf, Idle, Agrees, Installing, Placed, Replacing, Removing
  <1> QED
    BY <1>0, <1>1, <1>2, <1>6, <1>3, <1>4, <1>5, While, StepOf

LEMMA ProcUndoRestore ==
  ASSUME PackagesInv, NEW r \in Requests, UndoRestore(r)
  PROVE  PackagesInv'
  <1>0. /\ requests[r].at = "restoring" /\ UNCHANGED <<row, running, safeMode, crashes>>
        /\ PackagesTyped /\ 0 \in Versions
    BY NoFilesIs DEF UndoRestore, At, PackagesInv
  <1>6. /\ seen' \in SeenRecs /\ seen'.overlap = seen.overlap /\ seen'.crash = seen.crash
        /\ seen'.raced = seen.raced /\ seen'.undone = seen.undone /\ seen'.late = seen.late
        /\ seen.stuck => seen'.stuck
    BY <1>0, While, StuckIs DEF UndoRestore
  <1>1. PICK h \in Handlers :
          /\ requests' = [requests EXCEPT ![r] = h] /\ h.at = "discarding" /\ h.moved = requests[r].moved
          /\ h.safe = requests[r].safe /\ h.aside = requests[r].aside
    BY <1>0, MovedIs DEF UndoRestore, Installing
  <1>2. /\ files' \in FileRecs
        /\ \/ /\ requests[r].aside /\ files.rollback[r] # 0 /\ files.package = 0
              /\ files'.package = files.rollback[r]
              /\ \A k \in 1 .. MaxRequests :
                   files'.rollback[k] = IF k = r THEN 0 ELSE files.rollback[k]
           \/ files' = files /\ (~requests[r].aside \/ seen'.stuck)
    <2> DEFINE b == [files.rollback EXCEPT ![r] = 0]
               p == files.rollback[r]
    <2>1. \/ /\ requests[r].aside /\ files.rollback[r] # 0 /\ files.package = 0
             /\ files' = [files EXCEPT !.package = p, !.rollback = b]
          \/ files' = files /\ (~requests[r].aside \/ seen'.stuck)
      BY <1>0, While, StuckIs DEF UndoRestore
    <2>2. /\ files \in FileRecs /\ files.rollback \in [1 .. MaxRequests -> Versions]
          /\ p \in Versions
      BY <1>0, While DEF FileRecs
    <2>3. /\ b \in [1 .. MaxRequests -> Versions]
          /\ \A k \in 1 .. MaxRequests : b[k] = IF k = r THEN 0 ELSE files.rollback[k]
      BY <2>2, <1>0
    <2>4. CASE files' = [files EXCEPT !.package = p, !.rollback = b]
      <3>1. files' \in FileRecs /\ files'.package = p /\ files'.rollback = b
        <4> HIDE DEF b, p
        <4> QED
          BY <2>4, <2>2, <2>3 DEF FileRecs
      <3>2. CASE requests[r].aside /\ files.rollback[r] # 0 /\ files.package = 0
        BY <3>1, <3>2, <2>3
      <3>3. CASE files' = files /\ (~requests[r].aside \/ seen'.stuck)
        BY <3>1, <3>3
      <3> QED
        BY <3>2, <3>3, <2>1
    <2> HIDE DEF b
    <2> QED
      BY <2>1, <2>2, <2>4
  <1>3. safeMode /\ ~seen.raced =>
          /\ h.at \in Installing => h.safe
          /\ h.at = "starting" => seen'.undone
          /\ seen'.undone \/ running' = NoRun
    BY <1>0, <1>1, <1>2, <1>6, While DEF Installing, Placed, Replacing, Removing
  <1>4. ~seen.overlap /\ ~seen'.late =>
          /\ Beyond(files', Len(requests)) /\ row'.version \in {0, First} \cup Requests
          /\ InPlace(r, h, files', row'.version)
          /\ row'.version # 0 =>
               \/ Holds(files', row'.version) \/ Holds(h.moved, row'.version)
               \/ \E k \in Requests \ {r} : Holds(requests[k].moved, row'.version)
    BY <1>0, <1>1, <1>2, <1>6, While DEF InPlace, Placed, Replacing, Beyond, Holds
  <1>5. ~seen.overlap /\ ~seen'.late /\ ~seen.crash /\ ~seen'.stuck =>
          RunsOf(row', running') /\ Agrees(r, h, files', row', running')
    BY <1>0, <1>1, <1>2, <1>6, While DEF RunsOf, Idle, Agrees, Installing, Placed, Replacing, Removing, InPlace
  <1> QED
    BY <1>0, <1>1, <1>2, <1>6, <1>3, <1>4, <1>5, While, StepOf

LEMMA ProcUndoDiscard ==
  ASSUME PackagesInv, NEW r \in Requests, UndoDiscard(r)
  PROVE  PackagesInv'
  <1>0. /\ requests[r].at = "discarding" /\ UNCHANGED <<row, running, safeMode, crashes>>
        /\ PackagesTyped /\ 0 \in Versions
    BY NoFilesIs DEF UndoDiscard, At, PackagesInv
  <1> DEFINE restarts == row.enabled /\ requests[r].aside
  <1>6. /\ seen' \in SeenRecs /\ seen'.overlap = seen.overlap /\ seen'.crash = seen.crash
        /\ seen'.raced = seen.raced /\ seen'.late = seen.late /\ seen'.stuck = seen.stuck
        /\ seen'.undone = (seen.undone \/ restarts)
    <2>1. seen' = [seen EXCEPT !.undone = seen.undone \/ restarts]
      BY DEF UndoDiscard
    <2>2. restarts \in BOOLEAN /\ seen \in SeenRecs
      BY <1>0, While DEF RowRecs, Handlers
    <2> HIDE DEF restarts
    <2> QED
      BY <2>1, <2>2 DEF SeenRecs
  <1>1. PICK h \in Handlers :
          /\ requests' = [requests EXCEPT ![r] = h] /\ h.moved = requests[r].moved
          /\ \/ h.at = "starting" /\ h.v3 = row.v3 /\ restarts
             \/ h.at = "done" /\ ~restarts
    <2>1. CASE restarts
      <3> DEFINE h == [requests[r] EXCEPT !.at = "starting", !.v3 = row.v3]
      <3>1. requests' = [requests EXCEPT ![r] = h]
        BY <2>1, <1>0, RequestsAre DEF UndoDiscard
      <3>2. requests[r] \in Handlers /\ row.v3 \in BOOLEAN
        BY <1>0, While DEF RowRecs
      <3>3. h \in Handlers /\ h.at = "starting" /\ h.v3 = row.v3 /\ h.moved = requests[r].moved
        BY <3>2 DEF Handlers
      <3> HIDE DEF h
      <3> QED
        BY <3>1, <3>3, <2>1
    <2>2. CASE ~restarts
      <3>1. Moved(r, "done")
        BY <2>2 DEF UndoDiscard
      <3> QED
        BY <1>0, <3>1, <2>2, MovedIs
    <2> QED
      BY <2>1, <2>2
  <1>2. /\ files' \in FileRecs /\ files'.package = files.package
        /\ files'.rollback = files.rollback
    <2> DEFINE s == files.incoming \ {r}
    <2>1. files' = [files EXCEPT !.incoming = s]
      BY DEF UndoDiscard
    <2>2. s \in SUBSET (1 .. MaxRequests) /\ files \in FileRecs
      BY <1>0, While DEF FileRecs
    <2> HIDE DEF s
    <2> QED
      BY <2>1, <2>2 DEF FileRecs
  <1>3. safeMode /\ ~seen.raced =>
          /\ h.at \in Installing => h.safe
          /\ h.at = "starting" => seen'.undone
          /\ seen'.undone \/ running' = NoRun
    BY <1>0, <1>1, <1>2, <1>6, While DEF Installing, Placed, Replacing, Removing
  <1>4. ~seen.overlap /\ ~seen'.late =>
          /\ Beyond(files', Len(requests)) /\ row'.version \in {0, First} \cup Requests
          /\ InPlace(r, h, files', row'.version)
          /\ row'.version # 0 =>
               \/ Holds(files', row'.version) \/ Holds(h.moved, row'.version)
               \/ \E k \in Requests \ {r} : Holds(requests[k].moved, row'.version)
    BY <1>0, <1>1, <1>2, <1>6, While DEF InPlace, Placed, Replacing, Beyond, Holds
  <1>5. ~seen.overlap /\ ~seen'.late /\ ~seen.crash /\ ~seen'.stuck =>
          RunsOf(row', running') /\ Agrees(r, h, files', row', running')
    BY <1>0, <1>1, <1>2, <1>6, While DEF RunsOf, Idle, Agrees, Installing, Placed, Replacing, Removing
  <1> QED
    BY <1>0, <1>1, <1>2, <1>6, <1>3, <1>4, <1>5, While, StepOf

LEMMA ProcStarted ==
  ASSUME PackagesInv, NEW r \in Requests, Started(r)
  PROVE  PackagesInv'
  <1>0. /\ requests[r].at = "starting" /\ UNCHANGED <<files, safeMode, crashes, seen>>
        /\ PackagesTyped /\ 0 \in Versions
    BY NoFilesIs DEF Started, At, PackagesInv
  <1>1. PICK h \in Handlers :
          /\ requests' = [requests EXCEPT ![r] = h] /\ h.moved = requests[r].moved
          /\ \/ h.at = "done"
             \/ h.at = "ending" /\ row.version = 0
    <2>1. CASE Moved(r, "done")
      BY <1>0, <2>1, MovedIs
    <2>2. CASE Moved(r, "ending") /\ row.version = 0
      BY <1>0, <2>2, MovedIs
    <2> QED
      BY <2>1, <2>2 DEF Started
  <1>2. /\ running' \in RunRecs /\ files.package # 0
        /\ IF requests[r].v3
           THEN /\ running.worker = 0 /\ running'.worker = files.package
                /\ running'.host = running.host
           ELSE /\ running'.host = files.package /\ running'.worker = running.worker
                /\ running'.left = running.left
    <2>1. files.package \in Versions /\ running \in RunRecs
      BY <1>0, While DEF FileRecs
    <2> QED
      BY <2>1 DEF Started, Launch, RunRecs
  <1>6. /\ row' \in RowRecs /\ row'.version = row.version /\ row'.v3 = row.v3
        /\ IF requests[r].enables /\ row.version # 0 THEN row'.enabled ELSE row' = row
    <2>1. row \in RowRecs
      BY <1>0, While
    <2> QED
      BY <2>1 DEF Started, RowRecs
  <1>3. safeMode /\ ~seen.raced =>
          /\ h.at \in Installing => h.safe
          /\ h.at = "starting" => seen'.undone
          /\ seen'.undone \/ running' = NoRun
    BY <1>0, <1>1, <1>2, <1>6, While DEF Installing, Placed, Replacing, Removing
  <1>4. ~seen.overlap /\ ~seen'.late =>
          /\ Beyond(files', Len(requests)) /\ row'.version \in {0, First} \cup Requests
          /\ InPlace(r, h, files', row'.version)
          /\ row'.version # 0 =>
               \/ Holds(files', row'.version) \/ Holds(h.moved, row'.version)
               \/ \E k \in Requests \ {r} : Holds(requests[k].moved, row'.version)
    BY <1>0, <1>1, <1>2, <1>6, While DEF InPlace, Placed, Replacing
  <1>5. ~seen.overlap /\ ~seen'.late /\ ~seen.crash /\ ~seen'.stuck =>
          RunsOf(row', running') /\ Agrees(r, h, files', row', running')
    BY <1>0, <1>1, <1>2, <1>6, While DEF RunsOf, Idle, Agrees, Installing, Placed, Replacing, Removing
  <1> QED
    BY <1>0, <1>1, <1>2, <1>6, <1>3, <1>4, <1>5, While, StepOf

LEMMA ProcStartFailed ==
  ASSUME PackagesInv, NEW r \in Requests, StartFailed(r)
  PROVE  PackagesInv'
  <1>0. /\ requests[r].at = "starting" /\ UNCHANGED <<files, safeMode, crashes, seen>>
        /\ PackagesTyped /\ 0 \in Versions
    BY NoFilesIs DEF StartFailed, At, PackagesInv
  <1>1. PICK h \in Handlers :
          requests' = [requests EXCEPT ![r] = h] /\ h.moved = requests[r].moved /\ h.at = "done"
    BY <1>0, MovedIs DEF StartFailed
  <1>2. /\ row' \in RowRecs /\ row'.version = row.version /\ row'.v3 = row.v3
        /\ row'.enabled => row' = row
        /\ running' \in RunRecs /\ running'.worker = running.worker
        /\ IF requests[r].v3
           THEN running'.host = running.host /\ running'.left = (running.worker # 0)
           ELSE running'.host = 0 /\ running'.left = running.left
        /\ running = NoRun => running' = NoRun
    <2>1. row \in RowRecs /\ running \in RunRecs /\ 0 \in Versions
      BY <1>0, While
    <2>2. row' = row \/ row' = [row EXCEPT !.enabled = FALSE]
      BY DEF StartFailed
    <2>3. CASE requests[r].v3
      <3>1. PICK b \in BOOLEAN : b = (running.worker # 0)
        OBVIOUS
      <3>3. running' = [running EXCEPT !.left = b]
        BY <2>3, <3>1 DEF StartFailed
      <3>4. ASSUME running = NoRun PROVE b = FALSE
        <4>1. running.worker = 0
          BY <3>4 DEF NoRun
        <4>2. ~ b
          BY <4>1, <3>1
        <4> QED
          BY <4>2, <3>1
      <3>5. running = NoRun => running' = NoRun
        <4> HAVE running = NoRun
        <4>1. running' = [NoRun EXCEPT !.left = FALSE]
          BY <3>3, <3>4
        <4> QED
          BY <4>1 DEF NoRun
      <3>2. /\ running' \in RunRecs /\ running'.worker = running.worker
            /\ running'.host = running.host /\ running'.left = b
        BY <3>1, <3>3, <2>1 DEF RunRecs
      <3>6. /\ row' \in RowRecs /\ row'.version = row.version /\ row'.v3 = row.v3
            /\ row'.enabled => row' = row
        BY <2>1, <2>2 DEF RowRecs
      <3> QED
        BY <3>1, <3>2, <3>5, <3>6, <2>3
    <2>4. CASE ~requests[r].v3
      <3>1. running' = [running EXCEPT !.host = 0]
        BY <2>4 DEF StartFailed
      <3>2. /\ running' \in RunRecs /\ running'.worker = running.worker
            /\ running'.host = 0 /\ running'.left = running.left
        BY <3>1, <2>1 DEF RunRecs
      <3>3. /\ row' \in RowRecs /\ row'.version = row.version /\ row'.v3 = row.v3
            /\ row'.enabled => row' = row
        BY <2>1, <2>2 DEF RowRecs
      <3>4. running = NoRun => running' = NoRun
        BY <3>1 DEF NoRun
      <3> QED
        BY <3>2, <3>3, <3>4, <2>4
    <2> QED
      BY <2>3, <2>4
  <1>3. safeMode /\ ~seen.raced =>
          /\ h.at \in Installing => h.safe
          /\ h.at = "starting" => seen'.undone
          /\ seen'.undone \/ running' = NoRun
    BY <1>0, <1>1, <1>2, While DEF Installing, Placed, Replacing, Removing
  <1>4. ~seen.overlap /\ ~seen'.late =>
          /\ Beyond(files', Len(requests)) /\ row'.version \in {0, First} \cup Requests
          /\ InPlace(r, h, files', row'.version)
          /\ row'.version # 0 =>
               \/ Holds(files', row'.version) \/ Holds(h.moved, row'.version)
               \/ \E k \in Requests \ {r} : Holds(requests[k].moved, row'.version)
    BY <1>0, <1>1, <1>2, While DEF InPlace, Placed, Replacing
  <1>5. ~seen.overlap /\ ~seen'.late /\ ~seen.crash /\ ~seen'.stuck =>
          RunsOf(row', running') /\ Agrees(r, h, files', row', running')
    <2> HAVE ~seen.overlap /\ ~seen'.late /\ ~seen.crash /\ ~seen'.stuck
    <2>1. RunsOf(row', running')
      BY <1>0, <1>2, While DEF RunsOf, Idle, Agrees, Installing, Placed, Replacing, Removing
    <2>2. Agrees(r, h, files', row', running')
      BY <1>0, <1>1, <1>2, While DEF Agrees, Installing, Placed, Replacing, Removing
    <2> QED
      BY <2>1, <2>2
  <1> QED
    BY <1>0, <1>1, <1>2, <1>3, <1>4, <1>5, While, StepOf

LEMMA ProcEndGone ==
  ASSUME PackagesInv, NEW r \in Requests, EndGone(r)
  PROVE  PackagesInv'
  <1>0. /\ requests[r].at = "ending" /\ UNCHANGED <<files, row, safeMode, crashes, seen>>
        /\ PackagesTyped /\ 0 \in Versions
    BY NoFilesIs DEF EndGone, At, PackagesInv
  <1>1. PICK h \in Handlers :
          requests' = [requests EXCEPT ![r] = h] /\ h.moved = requests[r].moved /\ h.at = "done"
    BY <1>0, MovedIs DEF EndGone
  <1>2. running' \in RunRecs /\ Idle(running') /\ (running = NoRun => running' = NoRun)
    BY <1>0, EndsAre DEF EndGone
  <1>3. safeMode /\ ~seen.raced =>
          /\ h.at \in Installing => h.safe
          /\ h.at = "starting" => seen'.undone
          /\ seen'.undone \/ running' = NoRun
    BY <1>0, <1>1, <1>2, While DEF Installing, Placed, Replacing, Removing
  <1>4. ~seen.overlap /\ ~seen'.late =>
          /\ Beyond(files', Len(requests)) /\ row'.version \in {0, First} \cup Requests
          /\ InPlace(r, h, files', row'.version)
          /\ row'.version # 0 =>
               \/ Holds(files', row'.version) \/ Holds(h.moved, row'.version)
               \/ \E k \in Requests \ {r} : Holds(requests[k].moved, row'.version)
    BY <1>0, <1>1, <1>2, While DEF InPlace, Placed, Replacing
  <1>5. ~seen.overlap /\ ~seen'.late /\ ~seen.crash /\ ~seen'.stuck =>
          RunsOf(row', running') /\ Agrees(r, h, files', row', running')
    <2> HAVE ~seen.overlap /\ ~seen'.late /\ ~seen.crash /\ ~seen'.stuck
    <2>1. RunsOf(row', running')
      BY <1>2 DEF RunsOf, Idle
    <2>2. Agrees(r, h, files', row', running')
      BY <1>0, <1>1, <1>2, While DEF Agrees, Installing, Placed, Replacing, Removing
    <2> QED
      BY <2>1, <2>2
  <1> QED
    BY <1>0, <1>1, <1>2, <1>3, <1>4, <1>5, While, StepOf

\* A worker that was left over ends.
LEMMA ProcWorkerEnds ==
  ASSUME PackagesInv, WorkerEnds
  PROVE  PackagesInv'
  <1>1. /\ UNCHANGED <<files, row, safeMode, requests, crashes, seen>> /\ Requests' = Requests
        /\ running # NoRun
    BY DEF WorkerEnds, Requests, NoRun
  <1>2. running' \in RunRecs /\ running'.host = running.host /\ running'.worker = 0
    <2>1. running \in RunRecs /\ 0 \in Versions
      BY NoFilesIs DEF PackagesInv, PackagesTyped
    <2> QED
      BY <2>1 DEF WorkerEnds, RunRecs
  <1>3. PackagesTyped' /\ OneAtATime' /\ QuietInside' /\ CopyKept'
    BY <1>1, <1>2 DEF PackagesInv, PackagesTyped, OneAtATime, QuietInside, CopyKept
  <1>4. AllAgree'
    BY <1>1, <1>2 DEF PackagesInv, AllAgree, RunsOf, Idle, Agrees
  <1> QED
    BY <1>3, <1>4 DEF PackagesInv

LEMMA ProcRemoveFiles ==
  ASSUME PackagesInv, NEW r \in Requests, RemoveFiles(r)
  PROVE  PackagesInv'
  <1>0. /\ requests[r].at = "removing" /\ UNCHANGED <<row, running, safeMode, crashes, seen>>
        /\ PackagesTyped /\ 0 \in Versions
    BY NoFilesIs DEF RemoveFiles, At, PackagesInv
  <1>1. PICK h \in Handlers :
          /\ requests' = [requests EXCEPT ![r] = h]
          /\ \/ h.at = "unregistering" /\ h.moved = files /\ files' = NoFiles
             \/ h.at = "done" /\ h.moved = requests[r].moved /\ files' = files
    <2>1. CASE Moved(r, "done") /\ files' = files
      BY <1>0, <2>1, MovedIs
    <2>2. CASE /\ files' = NoFiles
               /\ requests' = [requests EXCEPT ![r].at = "unregistering", ![r].moved = files]
      <3> DEFINE h == [requests[r] EXCEPT !.at = "unregistering", !.moved = files]
      <3>1. requests' = [requests EXCEPT ![r] = h]
        BY <2>2, <1>0, RequestsAre
      <3>2. requests[r] \in Handlers /\ files \in FileRecs /\ "unregistering" \in Removing
        BY <1>0, While DEF Removing
      <3>3. h \in Handlers /\ h.at = "unregistering" /\ h.moved = files
        BY <3>2 DEF Handlers
      <3> HIDE DEF h
      <3> QED
        BY <3>1, <3>3, <2>2
    <2> QED
      BY <2>1, <2>2 DEF RemoveFiles
  <1>2. files' \in FileRecs
    BY <1>0, <1>1, NoFilesIs, While
  <1>3. safeMode /\ ~seen.raced =>
          /\ h.at \in Installing => h.safe
          /\ h.at = "starting" => seen'.undone
          /\ seen'.undone \/ running' = NoRun
    BY <1>0, <1>1, <1>2, NoFilesIs, While DEF Installing, Placed, Replacing, Removing
  <1>4. ~seen.overlap /\ ~seen'.late =>
          /\ Beyond(files', Len(requests)) /\ row'.version \in {0, First} \cup Requests
          /\ InPlace(r, h, files', row'.version)
          /\ row'.version # 0 =>
               \/ Holds(files', row'.version) \/ Holds(h.moved, row'.version)
               \/ \E k \in Requests \ {r} : Holds(requests[k].moved, row'.version)
    BY <1>0, <1>1, <1>2, NoFilesIs, While DEF InPlace, Placed, Replacing, Holds
  <1>5. ~seen.overlap /\ ~seen'.late /\ ~seen.crash /\ ~seen'.stuck =>
          RunsOf(row', running') /\ Agrees(r, h, files', row', running')
    BY <1>0, <1>1, <1>2, NoFilesIs, While DEF RunsOf, Idle, Agrees, Installing, Placed, Replacing, Removing
  <1> QED
    BY <1>0, <1>1, <1>2, NoFilesIs, <1>3, <1>4, <1>5, While, StepOf

LEMMA ProcUnregister ==
  ASSUME PackagesInv, NEW r \in Requests, Unregister(r)
  PROVE  PackagesInv'
  <1>0. /\ requests[r].at = "unregistering" /\ UNCHANGED <<files, running, safeMode, crashes, seen>>
        /\ PackagesTyped /\ 0 \in Versions
    BY NoFilesIs DEF Unregister, At, PackagesInv
  <1>7. /\ Handler("done") \in Handlers /\ Handler("done").at = "done"
        /\ Handler("done").moved = NoFiles
    BY NoFilesIs DEF Handler, Handlers
  <1>1. PICK h \in Handlers :
          /\ requests' = [requests EXCEPT ![r] = h]
          /\ \/ h.at = "done" /\ h.moved = NoFiles /\ row' = NoPlugin
             \/ h.at = "returning" /\ h.moved = requests[r].moved /\ row' = row
    <2>1. CASE row' = NoPlugin /\ requests' = [requests EXCEPT ![r] = Handler("done")]
      BY <2>1, <1>7
    <2>2. CASE Moved(r, "returning") /\ row' = row
      BY <1>0, <2>2, MovedIs DEF Removing
    <2> QED
      BY <2>1, <2>2 DEF Unregister
  <1>2. row' \in RowRecs /\ NoPlugin.version = 0
    <2>1. NoPlugin \in RowRecs /\ NoPlugin.version = 0
      BY NoFilesIs DEF NoPlugin, RowRecs
    <2>2. row \in RowRecs
      BY <1>0, While
    <2> QED
      BY <2>1, <2>2, <1>1
  <1>3. safeMode /\ ~seen.raced =>
          /\ h.at \in Installing => h.safe
          /\ h.at = "starting" => seen'.undone
          /\ seen'.undone \/ running' = NoRun
    BY <1>0, <1>1, <1>2, NoFilesIs, While DEF Installing, Placed, Replacing, Removing
  <1>4. ~seen.overlap /\ ~seen'.late =>
          /\ Beyond(files', Len(requests)) /\ row'.version \in {0, First} \cup Requests
          /\ InPlace(r, h, files', row'.version)
          /\ row'.version # 0 =>
               \/ Holds(files', row'.version) \/ Holds(h.moved, row'.version)
               \/ \E k \in Requests \ {r} : Holds(requests[k].moved, row'.version)
    BY <1>0, <1>1, <1>2, NoFilesIs, While DEF InPlace, Placed, Replacing, Holds
  <1>5. ~seen.overlap /\ ~seen'.late /\ ~seen.crash /\ ~seen'.stuck =>
          RunsOf(row', running') /\ Agrees(r, h, files', row', running')
    BY <1>0, <1>1, <1>2, NoFilesIs, While DEF RunsOf, Idle, Agrees, Installing, Placed, Replacing, Removing, InPlace
  <1> QED
    BY <1>0, <1>1, <1>2, <1>3, <1>4, <1>5, While, StepOf

LEMMA ProcReturnFiles ==
  ASSUME PackagesInv, NEW r \in Requests, ReturnFiles(r)
  PROVE  PackagesInv'
  <1>0. /\ requests[r].at = "returning" /\ UNCHANGED <<row, running, safeMode, crashes>>
        /\ PackagesTyped /\ 0 \in Versions
    BY NoFilesIs DEF ReturnFiles, At, PackagesInv
  <1>7. /\ Handler("done") \in Handlers /\ Handler("done").at = "done"
        /\ Handler("done").moved = NoFiles
    BY NoFilesIs DEF Handler, Handlers
  <1>6. /\ seen' \in SeenRecs /\ seen'.overlap = seen.overlap /\ seen'.crash = seen.crash
        /\ seen'.raced = seen.raced /\ seen'.undone = seen.undone /\ seen'.late = seen.late
        /\ seen.stuck => seen'.stuck
    BY <1>0, While, StuckIs DEF ReturnFiles
  <1>1. PICK h \in Handlers :
          /\ requests' = [requests EXCEPT ![r] = h] /\ h.at = "done"
          /\ \/ files' = requests[r].moved
             \/ files' = files /\ h.moved = requests[r].moved /\ seen'.stuck
    <2>1. CASE Moved(r, "done") /\ files' = files /\ Stuck
      BY <1>0, <2>1, MovedIs, StuckIs, While
    <2>2. CASE files' = requests[r].moved /\ requests' = [requests EXCEPT ![r] = Handler("done")]
      BY <2>2, <1>7
    <2> QED
      BY <2>1, <2>2 DEF ReturnFiles
  <1>2. files' \in FileRecs
    <2>1. requests[r].moved \in FileRecs /\ files \in FileRecs
      BY <1>0, While DEF Handlers
    <2> QED
      BY <2>1, <1>1
  <1>3. safeMode /\ ~seen.raced =>
          /\ h.at \in Installing => h.safe
          /\ h.at = "starting" => seen'.undone
          /\ seen'.undone \/ running' = NoRun
    BY <1>0, <1>1, <1>2, <1>6, NoFilesIs, While DEF Installing, Placed, Replacing, Removing
  <1>4. ~seen.overlap /\ ~seen'.late =>
          /\ Beyond(files', Len(requests)) /\ row'.version \in {0, First} \cup Requests
          /\ InPlace(r, h, files', row'.version)
          /\ row'.version # 0 =>
               \/ Holds(files', row'.version) \/ Holds(h.moved, row'.version)
               \/ \E k \in Requests \ {r} : Holds(requests[k].moved, row'.version)
    BY <1>0, <1>1, <1>2, <1>6, NoFilesIs, While DEF InPlace, Placed, Replacing, Holds
  <1>5. ~seen.overlap /\ ~seen'.late /\ ~seen.crash /\ ~seen'.stuck =>
          RunsOf(row', running') /\ Agrees(r, h, files', row', running')
    BY <1>0, <1>1, <1>2, <1>6, NoFilesIs, While DEF RunsOf, Idle, Agrees, Installing, Placed, Replacing, Removing, InPlace
  <1> QED
    BY <1>0, <1>1, <1>2, <1>6, <1>3, <1>4, <1>5, While, StepOf

\* What begins a request.
LEMMA HandlerIs ==
  ASSUME NEW at \in Installing \cup Removing \cup {"starting", "ending", "done"}
  PROVE  /\ Handler(at) \in Handlers /\ Handler(at).at = at /\ Handler(at).moved = NoFiles
         /\ ~Handler(at).aside
  BY NoFilesIs DEF Handler, Handlers

LEMMA ProcInstall ==
  ASSUME PackagesInv, NEW v3 \in BOOLEAN, Install(v3)
  PROVE  PackagesInv'
  <1> DEFINE h == [Handler("dependencies") EXCEPT
                     !.v3 = v3, !.wasEnabled = row.enabled, !.safe = safeMode]
  <1>1. Begin(h) /\ UNCHANGED <<files, row, running, safeMode, crashes>>
    BY DEF Install
  <1>2. /\ row \in RowRecs /\ running \in RunRecs /\ safeMode \in BOOLEAN
        /\ row.enabled \in BOOLEAN
    BY DEF PackagesInv, PackagesTyped, RowRecs
  <1>3. Handler("dependencies") \in Handlers /\ Handler("dependencies").at = "dependencies"
        /\ Handler("dependencies").moved = NoFiles /\ ~Handler("dependencies").aside
    BY HandlerIs DEF Installing, Placed
  <1>4. /\ h \in Handlers /\ h.at = "dependencies" /\ h.moved = NoFiles
        /\ ~h.aside /\ h.wasEnabled = row.enabled /\ h.safe = safeMode
    BY <1>2, <1>3 DEF Handlers
  <1> HIDE DEF h
  <1> QED
    BY <1>1, <1>2, <1>4, BeginOf

LEMMA StartingIs ==
  ASSUME PackagesTyped
  PROVE  /\ Starting \in Handlers /\ Starting.at = "starting" /\ Starting.moved = NoFiles
         /\ Starting.v3 = row.v3
         /\ StartsEnabled \in Handlers /\ StartsEnabled.moved = NoFiles
         /\ \/ StartsEnabled.at = "starting" /\ row.enabled /\ StartsEnabled.v3 = row.v3
            \/ StartsEnabled.at = "done"
  <1>1. row.v3 \in BOOLEAN
    BY DEF PackagesTyped, RowRecs
  <1>2. /\ Starting \in Handlers /\ Starting.at = "starting" /\ Starting.moved = NoFiles
        /\ Starting.v3 = row.v3
    <2> DEFINE d == Handler("starting")
    <2>1. d \in Handlers /\ d.at = "starting" /\ d.moved = NoFiles /\ Starting = [d EXCEPT !.v3 = row.v3]
      BY HandlerIs DEF Starting
    <2> HIDE DEF d
    <2> QED
      BY <2>1, <1>1 DEF Handlers
  <1>3. Handler("done") \in Handlers /\ Handler("done").at = "done" /\ Handler("done").moved = NoFiles
    BY HandlerIs
  <1> QED
    BY <1>2, <1>3 DEF StartsEnabled

LEMMA ProcActivateRoute ==
  ASSUME PackagesInv, ActivateRoute
  PROVE  PackagesInv'
  <1> DEFINE h == [Starting EXCEPT !.enables = TRUE]
  <1>1. Begin(h) /\ UNCHANGED <<files, row, running, safeMode, crashes>> /\ ~safeMode
    BY DEF ActivateRoute
  <1>2. row \in RowRecs /\ running \in RunRecs /\ safeMode \in BOOLEAN /\ PackagesTyped
    BY DEF PackagesInv, PackagesTyped
  <1>3. Starting \in Handlers /\ Starting.at = "starting" /\ Starting.moved = NoFiles
        /\ Starting.v3 = row.v3
    BY <1>2, StartingIs
  <1>4. h \in Handlers /\ h.at = "starting" /\ h.moved = NoFiles /\ h.enables /\ h.v3 = row.v3
    BY <1>3 DEF Handlers
  <1> HIDE DEF h
  <1> QED
    BY <1>1, <1>2, <1>4, BeginOf

\* The plugin is disabled, its backends have ended, or were none's.
LEMMA ProcDisables ==
  ASSUME PackagesInv, Disable \/ \E v3 \in BOOLEAN : InstallRefused(v3)
  PROVE  PackagesInv'
  <1> DEFINE h == Handler("done")
  <1>0. row \in RowRecs /\ safeMode \in BOOLEAN /\ running \in RunRecs /\ PackagesTyped
    BY DEF PackagesInv, PackagesTyped
  <1>1. /\ Begin(h) /\ UNCHANGED <<files, safeMode, crashes>>
        /\ row' = [row EXCEPT !.enabled = FALSE]
        /\ \/ \E v \in BOOLEAN : EndBackends(v)
           \/ ~row.enabled /\ running' = running
    BY DEF Disable, InstallRefused
  <1>2. /\ row' \in RowRecs /\ row'.version = row.version /\ ~row'.enabled
        /\ ~row.enabled => row' = row
    BY <1>0, <1>1 DEF RowRecs
  <1>3. /\ running' \in RunRecs /\ (running = NoRun => running' = NoRun)
        /\ Idle(running') \/ (running' = running /\ row' = row)
    BY <1>0, <1>1, <1>2, EndsAre
  <1>4. h \in Handlers /\ h.at = "done" /\ h.moved = NoFiles
    BY HandlerIs
  <1> HIDE DEF h
  <1>5. h.at \notin Installing
    BY <1>4 DEF Installing, Placed, Replacing
  <1>6. UNCHANGED <<files, crashes>> /\ safeMode' \in BOOLEAN /\ (safeMode' => safeMode)
    BY <1>0, <1>1
  <1> QED
    BY <1>1, <1>2, <1>3, <1>4, <1>5, <1>6, BeginOf

LEMMA ProcDelete ==
  ASSUME PackagesInv, Delete
  PROVE  PackagesInv'
  <1> DEFINE h == Handler("removing")
  <1>1. Begin(h) /\ UNCHANGED <<files, row, safeMode, crashes>> /\ EndBackends(TRUE)
    <2>1. Delete
      OBVIOUS
    <2> QED
      BY <2>1, Zenon DEF Delete
  <1>2. row \in RowRecs /\ safeMode \in BOOLEAN /\ PackagesTyped
    BY DEF PackagesInv, PackagesTyped
  <1>3. running' \in RunRecs /\ Idle(running') /\ (running = NoRun => running' = NoRun)
    BY <1>1, <1>2, EndsAre
  <1>4. h \in Handlers /\ h.at = "removing" /\ h.moved = NoFiles
    BY HandlerIs DEF Removing
  <1> HIDE DEF h
  <1>5. h.at \notin Installing
    BY <1>4 DEF Installing, Placed, Replacing
  <1>6. UNCHANGED <<files, crashes>> /\ row' \in RowRecs /\ safeMode' \in BOOLEAN
        /\ row'.version = row.version /\ (row'.enabled => row.enabled)
    BY <1>1, <1>2
  <1> QED
    BY <1>1, <1>2, <1>3, <1>4, <1>5, <1>6, BeginOf

LEMMA ProcLeaveSafeMode ==
  ASSUME PackagesInv, LeaveSafeMode
  PROVE  PackagesInv'
  <1> DEFINE h == StartsEnabled
  <1>1. /\ Begin(h) /\ UNCHANGED <<files, row, running, crashes>> /\ safeMode' = FALSE
    BY DEF LeaveSafeMode
  <1>2. row \in RowRecs /\ running \in RunRecs /\ PackagesTyped
    BY DEF PackagesInv, PackagesTyped
  <1>4. /\ h \in Handlers /\ h.moved = NoFiles
        /\ \/ h.at = "starting" /\ row.enabled /\ h.v3 = row.v3
           \/ h.at = "done"
    BY <1>2, StartingIs
  <1> HIDE DEF h
  <1>6. UNCHANGED <<files, crashes>> /\ row' \in RowRecs /\ safeMode' \in BOOLEAN
        /\ row'.version = row.version /\ (row'.enabled => row.enabled)
        /\ running' \in RunRecs /\ (safeMode' => safeMode)
    BY <1>1, <1>2
  <1> QED
    BY <1>1, <1>2, <1>4, <1>6, BeginOf

LEMMA NoRunIs ==
  NoRun \in RunRecs /\ Idle(NoRun) /\ \A w : RunsOf(w, NoRun)
  BY NoFilesIs DEF NoRun, RunRecs, Idle, RunsOf

LEMMA ProcEnterSafeMode ==
  ASSUME PackagesInv, EnterSafeMode
  PROVE  PackagesInv'
  <1>1. /\ UNCHANGED <<files, row, requests, crashes>> /\ running' = NoRun /\ safeMode' = TRUE
        /\ Requests' = Requests
    BY DEF EnterSafeMode, Requests
  <1>2. /\ seen' \in SeenRecs /\ seen'.overlap = seen.overlap /\ seen'.crash = seen.crash
        /\ seen'.late = seen.late /\ seen'.undone = seen.undone /\ seen'.stuck = seen.stuck
        /\ seen'.raced = (InFlight # {})
    <2> DEFINE b == InFlight # {}
    <2>1. seen' = [seen EXCEPT !.raced = b] /\ b \in BOOLEAN /\ seen \in SeenRecs
      BY DEF EnterSafeMode, PackagesInv, PackagesTyped
    <2> HIDE DEF b
    <2>2. /\ seen' \in SeenRecs /\ seen'.overlap = seen.overlap /\ seen'.crash = seen.crash
          /\ seen'.late = seen.late /\ seen'.undone = seen.undone /\ seen'.raced = b
          /\ seen'.stuck = seen.stuck
      BY <2>1 DEF SeenRecs
    <2> QED
      BY <2>2 DEF b
  <1>3. PackagesTyped'
    BY <1>1, <1>2, NoRunIs DEF PackagesInv, PackagesTyped
  <1>4. OneAtATime' /\ CopyKept'
    BY <1>1, <1>2 DEF PackagesInv, OneAtATime, CopyKept
  <1>5. QuietInside'
    <2>1. ~seen'.raced => \A r \in Requests : requests[r].at = "done"
      BY <1>2 DEF InFlight
    <2> QED
      BY <2>1, <1>1 DEF QuietInside, Installing, Placed, Replacing
  <1>6. AllAgree'
    BY <1>1, <1>2, NoRunIs DEF PackagesInv, AllAgree, Agrees
  <1> QED
    BY <1>3, <1>4, <1>5, <1>6 DEF PackagesInv

LEMMA EndedIs ==
  ASSUME NEW q \in Handlers
  PROVE  Ended(q) \in Handlers /\ Ended(q).at = "done" /\ Ended(q).moved = q.moved
  <1> DEFINE f == q.moved
             d == Handler("done")
  <1>1. f \in FileRecs
    BY DEF Handlers
  <1>2. d \in Handlers /\ d.at = "done"
    BY HandlerIs
  <1>3. Ended(q) = [d EXCEPT !.moved = f]
    BY DEF Ended
  <1> HIDE DEF d, f
  <1>4. [d EXCEPT !.moved = f] \in Handlers /\ [d EXCEPT !.moved = f].at = "done"
        /\ [d EXCEPT !.moved = f].moved = f
    BY <1>1, <1>2 DEF Handlers
  <1> QED
    BY <1>3, <1>4 DEF f

LEMMA ProcRestart ==
  ASSUME PackagesInv, Restart
  PROVE  PackagesInv'
  <1> DEFINE e == [r \in Requests |-> Ended(requests[r])]
             h == StartsEnabled
             l == Len(requests) + 1
  <1>1. /\ requests' = Append(e, h) /\ UNCHANGED <<files, row>>
        /\ running' = NoRun /\ safeMode' = FALSE /\ Len(requests) < MaxRequests
        /\ seen' = [seen EXCEPT !.crash = TRUE, !.raced = FALSE]
    BY DEF Restart
  <1>2. /\ PackagesTyped /\ Len(requests) \in Nat /\ Requests = 1 .. Len(requests)
        /\ \A r \in Requests : requests[r] \in Handlers
        /\ MaxRequests \in Nat /\ 0 \in Versions
    BY RequestsAre, NoFilesIs, PluginPackagesAssumption DEF PackagesInv
  <1>3. \A r \in Requests : /\ Ended(requests[r]) \in Handlers /\ Ended(requests[r]).at = "done"
                            /\ Ended(requests[r]).moved = requests[r].moved
    BY <1>2, EndedIs
  <1>4. h \in Handlers /\ h.at \in {"starting", "done"} /\ NoRun \in RunRecs
    BY <1>2, StartingIs, NoRunIs
  <1>5. e \in Seq(Handlers) /\ Len(e) = Len(requests)
    BY <1>2, <1>3
  <1>6. \A r \in Requests : e[r].at = "done" /\ e[r].moved = requests[r].moved
    BY <1>3
  <1> HIDE DEF e, h
  <1>7. /\ requests' \in Seq(Handlers) /\ Len(requests') = l /\ requests'[l] = h
        /\ \A r \in Requests : requests'[r] = e[r]
    BY <1>1, <1>2, <1>4, <1>5
  <1>8. /\ Requests' = 1 .. l /\ l \in Nat /\ l <= MaxRequests /\ l \notin Requests
        /\ Requests' = Requests \cup {l}
    <2>1. Requests' = 1 .. l
      BY <1>7 DEF Requests
    <2> QED
      BY <2>1, <1>1, <1>2
  <1>9. /\ seen' \in SeenRecs /\ seen'.overlap = seen.overlap /\ seen'.crash
        /\ seen'.late = seen.late
    <2>1. seen \in SeenRecs
      BY <1>2 DEF PackagesTyped
    <2> QED
      BY <2>1, <1>1 DEF SeenRecs
  <1>10. PackagesTyped'
    BY <1>1, <1>2, <1>4, <1>7, <1>8, <1>9 DEF PackagesTyped
  <1>11. OneAtATime'
    BY <1>6, <1>7, <1>8 DEF OneAtATime
  <1>12. QuietInside' /\ AllAgree'
    BY <1>1, <1>9 DEF QuietInside, AllAgree
  <1>13. CopyKept'
    <2> SUFFICES ASSUME ~seen.overlap, ~seen.late
                 PROVE  /\ Beyond(files, l) /\ row.version \in {0, First} \cup Requests'
                        /\ InPlace(l, h, files, row.version)
                        /\ row.version # 0 =>
                             \/ Holds(files, row.version)
                             \/ \E k \in Requests' : Holds(requests'[k].moved, row.version)
      BY <1>1, <1>7, <1>8, <1>9 DEF CopyKept
    <2>1. /\ Beyond(files, Len(requests)) /\ row.version \in {0, First} \cup Requests
          /\ row.version # 0 => \/ Holds(files, row.version)
                                \/ \E k \in Requests : Holds(requests[k].moved, row.version)
      BY DEF PackagesInv, CopyKept
    <2>2. Beyond(files, l)
      BY <2>1, <1>2 DEF Beyond
    <2>3. InPlace(l, h, files, row.version)
      BY <1>4 DEF InPlace, Placed, Replacing
    <2> QED
      BY <2>1, <2>2, <2>3, <1>6, <1>7, <1>8
  <1> QED
    BY <1>10, <1>11, <1>12, <1>13 DEF PackagesInv

LEMMA NextPackages == PackagesInv /\ [PackagesNext]_packageVars => PackagesInv'
  <1> SUFFICES ASSUME PackagesInv, [PackagesNext]_packageVars PROVE PackagesInv'
    OBVIOUS
  <1>1. ASSUME NEW r \in Requests, Proceeds(r) PROVE PackagesInv'
    BY <1>1, ProcPrepared, ProcStageIncoming, ProcCheckPackage, ProcSetAside, ProcSwap,
       ProcRegisterVersion, ProcCleanUp, ProcUndoRemove, ProcUndoRestore, ProcUndoDiscard,
       ProcStarted, ProcEndGone, ProcStartFailed, ProcRemoveFiles, ProcUnregister, ProcReturnFiles
       DEF Proceeds
  <1>2. CASE UNCHANGED packageVars
    <2>1. /\ UNCHANGED <<files, row, running, safeMode, requests, crashes, seen>>
          /\ Requests' = Requests
      BY <1>2 DEF packageVars, Requests
    <2>2. PackagesTyped' /\ OneAtATime' /\ QuietInside'
      BY <2>1 DEF PackagesInv, PackagesTyped, OneAtATime, QuietInside
    <2>3. CopyKept' /\ AllAgree'
      BY <2>1 DEF PackagesInv, CopyKept, AllAgree
    <2> QED
      BY <2>2, <2>3 DEF PackagesInv
  <1> QED
    BY <1>1, <1>2, ProcInstall, ProcActivateRoute, ProcDisables, ProcDelete, ProcWorkerEnds,
       ProcEnterSafeMode, ProcLeaveSafeMode, ProcRestart DEF PackagesNext

LEMMA PackagesAreSafeNow == PackagesInv => PackagesSafe
  <1> SUFFICES ASSUME PackagesInv PROVE PackagesSafe
    OBVIOUS
  <1>1. InstallConsistent
    <2> SUFFICES ASSUME Quiet, ~seen.overlap, ~seen.late, ~seen.crash, ~seen.stuck
                 PROVE  files.package = row.version /\ RunsOf(row, running)
      BY DEF InstallConsistent, RunsOf
    <2>1. RunsOf(row, running)
      BY DEF PackagesInv, AllAgree
    <2>2. CASE requests = <<>>
      BY <2>1, <2>2 DEF PackagesInv, AllAgree
    <2>3. CASE requests # <<>>
      <3>1. Len(requests) \in Requests
        BY <2>3, RequestsAre DEF PackagesInv
      <3>2. /\ requests[Len(requests)].at = "done"
            /\ Agrees(Len(requests), requests[Len(requests)], files, row, running)
        BY <3>1 DEF Quiet, InFlight, PackagesInv, AllAgree
      <3> QED
        BY <3>2, <2>1 DEF Agrees
    <2> QED
      BY <2>2, <2>3
  <1>2. KeepsACopy
    BY DEF PackagesInv, CopyKept, KeepsACopy
  <1>3. SafeModeQuietUnlessRaced
    BY DEF PackagesInv, QuietInside, SafeModeQuietUnlessRaced
  <1> QED
    BY <1>1, <1>2, <1>3 DEF PackagesSafe

(* When requests do not overlap, the installed package, the registry row   *)
(* and what runs agree after every install, update, activation and delete, *)
(* whichever step fails; a registered version stays on disk, also across   *)
(* server crashes; and safe mode is quiet: for any number of requests and  *)
(* crashes.                                                                *)
THEOREM PackagesAreSafe == PackagesSpec => []PackagesSafe
  <1>1. PackagesSpec => []PackagesInv
    <2>1. PackagesInv /\ [PackagesNext]_packageVars => PackagesInv'
      BY NextPackages
    <2> QED
      BY InitPackages, <2>1, PTL DEF PackagesSpec
  <1> QED
    BY <1>1, PackagesAreSafeNow, PTL

-----------------------------------------------------------------------------
(* The worker processes of a plugin: every process, registration and       *)
(* governor entry has its owner.                                           *)

Entry == [life : {"alive", "dead", "exited"}, killed : BOOLEAN, asked : BOOLEAN,
          over : Nat, terminated : BOOLEAN]
Request == [op : {"activate", "deactivate"}, measured : Nat]

BackendTypeOK ==
    /\ queue \in Seq(Request)
    /\ step \in {"begin", "ending", "resolving", "starting", "failing"}
    /\ procs \in Seq(Entry)
    /\ {handled, current, ledger, sampling} \subseteq {0} \cup Processes
    /\ routes \subseteq Processes

\* Where the head of the chain is and what it holds: the process it ends has
\* left the map, the one it starts is in it, and nothing is in the map while
\* a package is resolved.
ChainInv ==
    /\ step # "begin" => queue # <<>>
    /\ step = "ending" => current = 0 /\ handled # 0
    /\ step = "resolving" => current = 0
    /\ step \in {"starting", "failing"} => current = handled /\ handled # 0

\* A termination is queued behind the activation that is under way.
TerminationQueued ==
    current # 0 /\ procs[current].terminated =>
        Len(queue) > IF step \in {"starting", "failing"} THEN 1 ELSE 0

BackendInv ==
    /\ BackendTypeOK /\ ChainInv
    /\ NoOrphanWorker /\ RoutesOwned /\ RunningGoverned /\ TerminationQueued

-----------------------------------------------------------------------------
(* Processes.                                                              *)

\* A process whose entry changes and stays of its type: the sequence keeps
\* its length and every other entry.
LEMMA EntryChanges ==
    ASSUME procs \in Seq(Entry), NEW k \in Processes, NEW e \in Entry,
           procs' = [procs EXCEPT ![k] = e]
    PROVE  /\ procs' \in Seq(Entry) /\ Processes' = Processes
           /\ \A j \in Processes : procs'[j] = IF j = k THEN e ELSE procs[j]
BY ExceptSeq DEF Processes

\* BackendProcess.deactivate asks its process to end.
LEMMA AskedEntry ==
    ASSUME NEW e \in Entry
    PROVE  LET n == [e EXCEPT !.asked = TRUE]
           IN  n \in Entry /\ n.life = e.life /\ n.killed = e.killed /\ n.terminated = e.terminated
BY Zenon DEF Entry

\* It kills what has not exited.
LEMMA KilledEntry ==
    ASSUME NEW e \in Entry, NEW b \in BOOLEAN
    PROVE  LET n == [e EXCEPT !.killed = b]
           IN  n \in Entry /\ n.life = e.life /\ n.killed = b /\ n.terminated = e.terminated
BY Zenon DEF Entry

LEMMA LifeEntry ==
    ASSUME NEW e \in Entry, NEW l \in {"alive", "dead", "exited"}
    PROVE  LET n == [e EXCEPT !.life = l]
           IN  n \in Entry /\ n.life = l /\ n.killed = e.killed /\ n.terminated = e.terminated
BY Zenon DEF Entry

-----------------------------------------------------------------------------
(* The chain.                                                              *)

LEMMA InitBackend == BackendInit => BackendInv
<1> SUFFICES ASSUME BackendInit PROVE BackendInv
  OBVIOUS
<1>1. queue \in Seq(Request) /\ procs \in Seq(Entry) /\ Processes = {}
  BY EmptySeq DEF BackendInit, Processes
<1> QED BY <1>1 DEF BackendInit, BackendInv, BackendTypeOK, ChainInv, NoOrphanWorker,
                    RoutesOwned, RunningGoverned, TerminationQueued

\* A request joins the chain at its end.
LEMMA RequestJoins ==
    ASSUME BackendInv, NEW r \in Request, queue' = Append(queue, r),
           UNCHANGED <<step, handled, procs, current, routes, ledger, sampling>>
    PROVE  BackendInv'
<1>1. queue' \in Seq(Request) /\ queue' # <<>> /\ Len(queue') = Len(queue) + 1 /\ Len(queue) \in Nat
  BY AppendProperties, LenProperties DEF BackendInv, BackendTypeOK
<1>2. Processes' = Processes
  BY DEF Processes
<1>3. BackendTypeOK' /\ ChainInv'
  BY <1>1, <1>2 DEF BackendInv, BackendTypeOK, ChainInv
<1>4. NoOrphanWorker' /\ RoutesOwned' /\ RunningGoverned'
  BY <1>1, <1>2 DEF BackendInv, NoOrphanWorker, RoutesOwned, RunningGoverned, Exited, Running
<1>5. TerminationQueued'
  BY <1>1 DEF BackendInv, TerminationQueued
<1> QED BY <1>3, <1>4, <1>5 DEF BackendInv

LEMMA ActivateKeeps == BackendInv /\ Activate => BackendInv'
<1>1. [op |-> "activate", measured |-> 0] \in Request
  BY DEF Request
<1> QED BY <1>1, RequestJoins DEF Activate, Enqueued, governorVars

LEMMA DeactivateKeeps == BackendInv /\ Deactivate => BackendInv'
<1>1. [op |-> "deactivate", measured |-> 0] \in Request
  BY DEF Request
<1> QED BY <1>1, RequestJoins DEF Deactivate, Enqueued, governorVars

\* When the head ends with nothing in the map but a process that is up, what
\* is left of the chain is a chain.
LEMMA ChainShrinks ==
    ASSUME queue \in Seq(Request), queue # <<>>, HeadDone
    PROVE  /\ queue' \in Seq(Request) /\ Len(queue') = Len(queue) - 1
           /\ Len(queue) \in Nat /\ Len(queue) > 0
           /\ step' = "begin" /\ handled' = 0
BY HeadTailProperties, LenProperties, EmptySeq DEF HeadDone

\* The old process is gone and none is in the map.
LEMMA OldProcessGoneChain ==
    ASSUME queue \in Seq(Request), queue # <<>>, OldProcessGone
    PROVE  /\ queue' \in Seq(Request) /\ handled' = 0
           /\ \/ step' = "begin"
              \/ step' = "resolving" /\ queue' # <<>>
BY ChainShrinks DEF OldProcessGone

LEMMA BeginEndKeeps == BackendInv /\ BeginEnd => BackendInv'
<1> SUFFICES ASSUME BackendInv, BeginEnd PROVE BackendInv'
  OBVIOUS
<1> USE DEF BackendInv, BackendTypeOK
<1>1. CASE current = 0
  <2>1. /\ OldProcessGone /\ procs' = procs /\ current' = 0 /\ queue # <<>>
        /\ routes' = routes /\ ledger' = ledger /\ sampling' = sampling
    BY <1>1 DEF BeginEnd, Running, governorVars
  <2>2. Processes' = Processes
    BY <2>1 DEF Processes
  <2>3. BackendTypeOK' /\ ChainInv'
    BY <2>1, <2>2, OldProcessGoneChain DEF ChainInv
  <2>4. NoOrphanWorker' /\ RoutesOwned' /\ RunningGoverned' /\ TerminationQueued'
    BY <2>1, <2>2, <1>1 DEF NoOrphanWorker, RoutesOwned, RunningGoverned, TerminationQueued,
                            Exited, Running, BeginEnd
  <2> QED BY <2>3, <2>4
<1>2. CASE current # 0
  <2>1. /\ current' = 0 /\ handled' = current /\ step' = "ending" /\ queue' = queue /\ queue # <<>>
        /\ routes' = routes /\ ledger' = ledger /\ sampling' = sampling
        /\ procs' = [procs EXCEPT ![current] = [procs[current] EXCEPT !.asked = TRUE]]
    BY <1>2 DEF BeginEnd, Running, governorVars
  <2> DEFINE e == [procs[current] EXCEPT !.asked = TRUE]
  <2>2. current \in Processes /\ procs[current] \in Entry
    BY <1>2, ElementOfSeq DEF Processes
  <2>3. e \in Entry /\ e.life = procs[current].life /\ e.killed = procs[current].killed
    BY <2>2, AskedEntry
  <2>4. /\ procs' \in Seq(Entry) /\ Processes' = Processes
        /\ \A j \in Processes : procs'[j] = IF j = current THEN e ELSE procs[j]
    BY <2>1, <2>2, <2>3, EntryChanges
  <2> HIDE DEF e
  <2>5. \A j \in Processes : procs'[j].life = procs[j].life /\ procs'[j].killed = procs[j].killed
    BY <2>3, <2>4
  <2>6. BackendTypeOK' /\ ChainInv'
    BY <2>1, <2>2, <2>4, <1>2 DEF ChainInv
  <2>7. NoOrphanWorker'
    BY <2>1, <2>4, <2>5 DEF NoOrphanWorker, Running, BeginEnd
  <2>8. RoutesOwned' /\ RunningGoverned' /\ TerminationQueued'
    BY <2>1, <2>4, <2>5 DEF RoutesOwned, RunningGoverned, TerminationQueued, Exited
  <2> QED BY <2>6, <2>7, <2>8
<1> QED BY <1>1, <1>2

\* The entry of one process changes only in `killed`, and it ends killed
\* unless it had exited.
LEMMA KillKeepsEntries ==
    ASSUME procs \in Seq(Entry), NEW k \in Processes, procs' = Killed(k)
    PROVE  /\ procs' \in Seq(Entry) /\ Processes' = Processes
           /\ \A j \in Processes : procs'[j].life = procs[j].life
           /\ \A j \in Processes \ {k} : procs'[j].killed = procs[j].killed
           /\ procs[k].life = "alive" => procs'[k].killed = TRUE
<1> DEFINE b == procs[k].killed \/ ~Exited(k)
<1> DEFINE e == [procs[k] EXCEPT !.killed = b]
<1>1. procs[k] \in Entry
  BY ElementOfSeq DEF Processes
<1>2. b \in BOOLEAN
  OBVIOUS
<1>3. procs[k].life = "alive" => b = TRUE
  BY DEF Exited
<1>4. procs' = [procs EXCEPT ![k] = e]
  BY DEF Killed
<1> HIDE DEF b
<1>5. e \in Entry /\ e.life = procs[k].life /\ e.killed = b
  BY <1>1, <1>2, KilledEntry
<1> HIDE DEF e
<1>6. /\ procs' \in Seq(Entry) /\ Processes' = Processes
      /\ \A j \in Processes : procs'[j] = IF j = k THEN e ELSE procs[j]
  BY <1>4, <1>5, EntryChanges
<1> QED BY <1>3, <1>5, <1>6

\* Both ways a process leaves the host: it was the only one alive, and now it
\* is killed and holds no registration.
LEMMA EndedKeeps ==
    ASSUME BackendInv, step \in {"ending", "failing"}, handled # 0,
           procs' = Killed(handled), routes' = routes \ {handled}, current' = 0,
           ledger' \in {0, ledger}, sampling' = sampling,
           queue' \in Seq(Request), handled' = 0,
           step' = "begin" \/ (step' = "resolving" /\ queue' # <<>>)
    PROVE  BackendInv'
<1> USE DEF BackendInv, BackendTypeOK
<1>1. handled \in Processes
  OBVIOUS
<1>2. /\ procs' \in Seq(Entry) /\ Processes' = Processes
      /\ \A j \in Processes : procs'[j].life = procs[j].life
      /\ \A j \in Processes \ {handled} : procs'[j].killed = procs[j].killed
      /\ procs[handled].life = "alive" => procs'[handled].killed = TRUE
  BY <1>1, KillKeepsEntries
<1>3. BackendTypeOK' /\ ChainInv'
  BY <1>2 DEF ChainInv
<1>4. NoOrphanWorker'
  <2> SUFFICES ASSUME NEW j \in Processes, procs'[j].life = "alive", ~procs'[j].killed
               PROVE  FALSE
    BY <1>2 DEF NoOrphanWorker
  <2>1. j # handled
    BY <1>2
  <2>2. procs[j].life = "alive" /\ ~procs[j].killed
    BY <1>2, <2>1
  <2>3. j = current \/ j = handled
    BY <2>2 DEF NoOrphanWorker
  <2>4. current \in {0, handled} /\ j # 0
    BY DEF ChainInv, Processes
  <2> QED BY <2>1, <2>3, <2>4
<1>5. RoutesOwned'
  BY <1>2 DEF RoutesOwned, Exited
<1>6. RunningGoverned' /\ TerminationQueued'
  BY DEF RunningGoverned, TerminationQueued
<1> QED BY <1>3, <1>4, <1>5, <1>6

LEMMA FinishEndKeeps == BackendInv /\ FinishEnd => BackendInv'
<1> SUFFICES ASSUME BackendInv, FinishEnd PROVE BackendInv'
  OBVIOUS
<1>1. /\ queue \in Seq(Request) /\ queue # <<>> /\ OldProcessGone
      /\ step = "ending" /\ handled # 0 /\ current = 0
  BY DEF FinishEnd, Running, BackendInv, BackendTypeOK, ChainInv
<1>2. /\ procs' = Killed(handled) /\ routes' = routes \ {handled} /\ current' = 0
      /\ ledger' = 0 /\ sampling' = sampling
  BY <1>1 DEF FinishEnd
<1> QED BY <1>1, <1>2, OldProcessGoneChain, EndedKeeps

LEMMA FinishFailKeeps == BackendInv /\ FinishFail => BackendInv'
<1> SUFFICES ASSUME BackendInv, FinishFail PROVE BackendInv'
  OBVIOUS
<1>1. /\ queue \in Seq(Request) /\ queue # <<>> /\ HeadDone
      /\ step = "failing" /\ handled # 0 /\ current = handled
  BY DEF FinishFail, Running, BackendInv, BackendTypeOK, ChainInv
<1>2. /\ procs' = Killed(handled) /\ routes' = routes \ {handled} /\ current' = 0
      /\ ledger' = ledger /\ sampling' = sampling
  BY <1>1 DEF FinishFail, governorVars
<1> QED BY <1>1, <1>2, ChainShrinks, EndedKeeps

\* A head that ends without touching a process: nothing is in the map, or
\* the process that has just come up is.
LEMMA HeadEndsKeeps ==
    ASSUME BackendInv, queue # <<>>, step \in {"resolving", "starting"}, HeadDone,
           UNCHANGED <<procs, current, routes, ledger, sampling>>
    PROVE  BackendInv'
<1> USE DEF BackendInv, BackendTypeOK
<1>1. Processes' = Processes
  BY DEF Processes
<1>2. /\ queue' \in Seq(Request) /\ Len(queue') = Len(queue) - 1
      /\ Len(queue) \in Nat /\ Len(queue) > 0
      /\ step' = "begin" /\ handled' = 0
  BY ChainShrinks
<1>3. BackendTypeOK' /\ ChainInv'
  BY <1>1, <1>2 DEF ChainInv
<1>4. NoOrphanWorker' /\ RoutesOwned' /\ RunningGoverned'
  BY <1>1, <1>2 DEF NoOrphanWorker, RoutesOwned, RunningGoverned, Exited
<1>5. TerminationQueued'
  <2>1. CASE step = "resolving"
    BY <2>1 DEF ChainInv, TerminationQueued
  <2>2. CASE step = "starting"
    BY <2>2, <1>2 DEF TerminationQueued
  <2> QED BY <2>1, <2>2
<1> QED BY <1>3, <1>4, <1>5

LEMMA SpawnFailsKeeps == BackendInv /\ SpawnFails => BackendInv'
BY HeadEndsKeeps DEF SpawnFails, Running, governorVars

LEMMA ReadyKeeps == BackendInv /\ Ready => BackendInv'
BY HeadEndsKeeps DEF Ready, Running, governorVars

LEMMA SpawnKeeps == BackendInv /\ Spawn => BackendInv'
<1> SUFFICES ASSUME BackendInv, Spawn PROVE BackendInv'
  OBVIOUS
<1> USE DEF BackendInv, BackendTypeOK
<1> DEFINE n == Len(procs) + 1
<1>1. Spawned \in Entry /\ ~Spawned.terminated
  BY DEF Spawned, Entry
<1>2. procs' = Append(procs, Spawned) /\ Len(procs) \in Nat
  BY LenProperties DEF Spawn
<1>3. /\ procs' \in Seq(Entry) /\ Len(procs') = n /\ procs'[n] = Spawned
      /\ \A j \in Processes : procs'[j] = procs[j]
  BY <1>1, <1>2, AppendProperties DEF Processes
<1>4. /\ Processes' = Processes \cup {n} /\ n \notin Processes /\ n # 0
  BY <1>2, <1>3 DEF Processes
<1>5. /\ handled' = n /\ current' = n /\ ledger' = n /\ step' = "starting" /\ step = "resolving"
      /\ queue' = queue /\ queue # <<>> /\ routes' = routes /\ sampling' = sampling
  BY <1>3 DEF Spawn, Running
<1> HIDE DEF n
<1>6. BackendTypeOK' /\ ChainInv'
  BY <1>3, <1>4, <1>5 DEF ChainInv
<1>7. NoOrphanWorker'
  <2> SUFFICES ASSUME NEW j \in Processes, procs'[j].life = "alive", ~procs'[j].killed
               PROVE  FALSE
    BY <1>4, <1>5 DEF NoOrphanWorker
  <2>1. procs[j].life = "alive" /\ ~procs[j].killed
    BY <1>3
  <2>2. j = current /\ current = 0
    BY <2>1, <1>5 DEF NoOrphanWorker, ChainInv
  <2> QED BY <2>2 DEF Processes
<1>8. RoutesOwned' /\ RunningGoverned' /\ TerminationQueued'
  BY <1>1, <1>3, <1>5 DEF RoutesOwned, RunningGoverned, TerminationQueued, Exited
<1> QED BY <1>6, <1>7, <1>8

LEMMA StartFailsKeeps == BackendInv /\ StartFails => BackendInv'
<1> SUFFICES ASSUME BackendInv, StartFails PROVE BackendInv'
  OBVIOUS
<1> USE DEF BackendInv, BackendTypeOK
<1> DEFINE e == [procs[handled] EXCEPT !.asked = TRUE]
<1>1. /\ step = "starting" /\ step' = "failing" /\ queue' = queue /\ handled' = handled
      /\ current' = current /\ routes' = routes /\ ledger' = ledger /\ sampling' = sampling
      /\ procs' = [procs EXCEPT ![handled] = e]
  BY DEF StartFails, governorVars
<1>2. handled \in Processes /\ procs[handled] \in Entry
  BY <1>1, ElementOfSeq DEF ChainInv, Processes
<1>3. /\ e \in Entry /\ e.life = procs[handled].life /\ e.killed = procs[handled].killed
      /\ e.terminated = procs[handled].terminated
  BY <1>2, AskedEntry
<1> HIDE DEF e
<1>4. /\ procs' \in Seq(Entry) /\ Processes' = Processes
      /\ \A j \in Processes : procs'[j] = IF j = handled THEN e ELSE procs[j]
  BY <1>1, <1>2, <1>3, EntryChanges
<1>5. \A j \in Processes : /\ procs'[j].life = procs[j].life
                          /\ procs'[j].killed = procs[j].killed
                          /\ procs'[j].terminated = procs[j].terminated
  BY <1>3, <1>4
<1>6. BackendTypeOK' /\ ChainInv'
  BY <1>1, <1>4 DEF ChainInv
<1>7. NoOrphanWorker' /\ RoutesOwned' /\ RunningGoverned'
  BY <1>1, <1>4, <1>5 DEF NoOrphanWorker, RoutesOwned, RunningGoverned, Exited, Running
<1>8. TerminationQueued'
  BY <1>1, <1>5 DEF TerminationQueued
<1> QED BY <1>6, <1>7, <1>8

-----------------------------------------------------------------------------
(* The worker and the governor.                                            *)

LEMMA RegisterKeeps ==
    ASSUME BackendInv, NEW k \in Processes, Register(k)
    PROVE  BackendInv'
<1> USE DEF BackendInv, BackendTypeOK
<1>1. /\ routes' = {k} /\ ~Exited(k) /\ Processes' = Processes
      /\ UNCHANGED <<queue, step, handled, procs, current, ledger, sampling>>
  BY DEF Register, governorVars, Processes
<1>2. BackendTypeOK' /\ ChainInv'
  BY <1>1 DEF ChainInv
<1>3. NoOrphanWorker' /\ RoutesOwned' /\ RunningGoverned' /\ TerminationQueued'
  BY <1>1 DEF NoOrphanWorker, RoutesOwned, RunningGoverned, TerminationQueued, Exited, Running
<1> QED BY <1>2, <1>3

\* A process dies, or its exit is handled and its registrations go.
LEMMA LifeEndsKeeps ==
    ASSUME BackendInv, NEW k \in Processes, NEW l \in {"dead", "exited"},
           procs' = [procs EXCEPT ![k].life = l],
           routes' = routes \/ routes' = routes \ {k},
           l = "exited" => routes' = routes \ {k},
           UNCHANGED <<queue, step, handled, current, ledger, sampling>>
    PROVE  BackendInv'
<1> USE DEF BackendInv, BackendTypeOK
<1> DEFINE e == [procs[k] EXCEPT !.life = l]
<1>1. procs[k] \in Entry /\ procs' = [procs EXCEPT ![k] = e]
  BY ElementOfSeq DEF Processes
<1>2. e \in Entry /\ e.life = l /\ e.terminated = procs[k].terminated
  <2> DEFINE p == procs[k]
  <2>1. p \in Entry
    BY <1>1
  <2> HIDE DEF p
  <2>2. LET n == [p EXCEPT !.life = l]
        IN  n \in Entry /\ n.life = l /\ n.killed = p.killed /\ n.terminated = p.terminated
    BY <2>1, LifeEntry
  <2> QED
    BY <2>2 DEF p
<1> HIDE DEF e
<1>3. /\ procs' \in Seq(Entry) /\ Processes' = Processes
      /\ \A j \in Processes : procs'[j] = IF j = k THEN e ELSE procs[j]
  BY <1>1, <1>2, EntryChanges
<1>4. BackendTypeOK' /\ ChainInv'
  BY <1>3 DEF ChainInv
<1>5. NoOrphanWorker' /\ RoutesOwned' /\ RunningGoverned'
  BY <1>2, <1>3 DEF NoOrphanWorker, RoutesOwned, RunningGoverned, Exited, Running
<1>6. TerminationQueued'
  <2>1. \A j \in Processes : procs'[j].terminated = procs[j].terminated
    BY <1>2, <1>3
  <2> QED BY <2>1 DEF TerminationQueued
<1> QED BY <1>4, <1>5, <1>6

LEMMA DiesKeeps ==
    ASSUME BackendInv, NEW k \in Processes, Dies(k)
    PROVE  BackendInv'
BY LifeEndsKeeps DEF Dies, governorVars

LEMMA ExitSeenKeeps ==
    ASSUME BackendInv, NEW k \in Processes, ExitSeen(k)
    PROVE  BackendInv'
BY LifeEndsKeeps DEF ExitSeen, governorVars

LEMMA SampleBeginsKeeps == BackendInv /\ SampleBegins => BackendInv'
<1> SUFFICES ASSUME BackendInv, SampleBegins PROVE BackendInv'
  OBVIOUS
<1> USE DEF BackendInv, BackendTypeOK
<1>1. /\ sampling' = ledger /\ ledger' = ledger /\ Processes' = Processes
      /\ UNCHANGED <<queue, step, handled, procs, current, routes>>
  BY DEF SampleBegins, lifecycleVars, Processes
<1>2. BackendTypeOK' /\ ChainInv'
  BY <1>1 DEF ChainInv
<1>3. NoOrphanWorker' /\ RoutesOwned' /\ RunningGoverned' /\ TerminationQueued'
  BY <1>1 DEF NoOrphanWorker, RoutesOwned, RunningGoverned, TerminationQueued, Exited, Running
<1> QED BY <1>2, <1>3

\* evaluateProcess touches neither the life nor the kill of a process.
LEMMA EvaluatedEntry ==
    ASSUME NEW e \in Entry, NEW over \in BOOLEAN
    PROVE  LET n == Evaluated(e, over)
           IN  n \in Entry /\ n.life = e.life /\ n.killed = e.killed
<1>1. CASE e.terminated
  BY <1>1 DEF Evaluated
<1>2. CASE ~e.terminated
  <2> DEFINE n == IF over THEN e.over + 1 ELSE 0
  <2>1. n \in Nat
    BY DEF Entry
  <2>2. (n >= HardSamples) \in BOOLEAN
    OBVIOUS
  <2> DEFINE t == n >= HardSamples
  <2>3. Evaluated(e, over) = [e EXCEPT !.over = n, !.terminated = t]
    BY <1>2 DEF Evaluated
  <2> HIDE DEF n, t
  <2> QED BY <2>1, <2>2, <2>3, Zenon DEF Entry, t
<1> QED BY <1>1, <1>2

LEMMA TerminatedEntry ==
    ASSUME NEW e \in Entry
    PROVE  LET n == [e EXCEPT !.terminated = TRUE]
           IN  n \in Entry /\ n.life = e.life /\ n.killed = e.killed
BY Zenon DEF Entry

\* The governor changes entries in nothing but what it counts, and a
\* termination it decides on joins the chain.
LEMMA GovernorKeeps ==
    ASSUME BackendInv, procs' \in Seq(Entry), Len(procs') = Len(procs),
           \A j \in Processes : procs'[j].life = procs[j].life /\ procs'[j].killed = procs[j].killed,
           queue' \in Seq(Request), Len(queue') >= Len(queue),
           \/ Len(queue') > Len(queue)
           \/ \A j \in Processes : procs'[j].terminated => procs[j].terminated,
           sampling' = 0, UNCHANGED <<step, handled, current, routes, ledger>>
    PROVE  BackendInv'
<1> USE DEF BackendInv, BackendTypeOK
<1>1. Processes' = Processes
  BY DEF Processes
<1>2. Len(queue) \in Nat /\ Len(queue') \in Nat
  BY LenProperties
<1>3. queue # <<>> => queue' # <<>> /\ Len(queue) > 0
  BY <1>2, EmptySeq, LenProperties
<1>4. BackendTypeOK' /\ ChainInv'
  BY <1>1, <1>3 DEF ChainInv
<1>5. NoOrphanWorker' /\ RoutesOwned' /\ RunningGoverned'
  BY <1>1, <1>3 DEF NoOrphanWorker, RoutesOwned, RunningGoverned, Exited, Running
<1>6. TerminationQueued'
  <2>1. CASE Len(queue') > Len(queue)
    BY <2>1, <1>2, <1>3 DEF TerminationQueued, ChainInv
  <2>2. CASE \A j \in Processes : procs'[j].terminated => procs[j].terminated
    BY <2>2, <1>2 DEF TerminationQueued
  <2> QED BY <2>1, <2>2
<1> QED BY <1>4, <1>5, <1>6

LEMMA SampleEndsKeeps ==
    ASSUME BackendInv, NEW over \in BOOLEAN, NEW tree \in BOOLEAN, SampleEnds(over, tree)
    PROVE  BackendInv'
<1> USE DEF BackendInv, BackendTypeOK
<1> DEFINE k         == sampling
           e         == Evaluated(procs[k], over)
           evaluated == [procs EXCEPT ![k] = e]
           hard      == tree \/ (ledger # 0 /\ evaluated[ledger].terminated)
           victim    == /\ hard /\ ledger # 0
                        /\ ~evaluated[ledger].terminated /\ evaluated[ledger].over > 0
           ends      == evaluated[k].terminated /\ ~procs[k].terminated
           asked     == IF ends THEN Append(queue, [op |-> "deactivate", measured |-> k]) ELSE queue
           v         == [evaluated[ledger] EXCEPT !.terminated = TRUE]
<1>1. /\ k # 0 /\ sampling' = 0
      /\ procs' = IF victim THEN [evaluated EXCEPT ![ledger] = v] ELSE evaluated
      /\ queue' = IF victim THEN Append(asked, [op |-> "deactivate", measured |-> ledger]) ELSE asked
      /\ UNCHANGED <<step, handled, current, routes, ledger>>
  BY DEF SampleEnds, Enqueued
<1>2. k \in Processes /\ procs[k] \in Entry /\ Processes = 1..Len(procs) /\ Len(procs) \in Nat
  BY <1>1, ElementOfSeq, LenProperties DEF Processes
<1>3. e \in Entry /\ e.life = procs[k].life /\ e.killed = procs[k].killed
  BY <1>2, EvaluatedEntry
<1> HIDE DEF e
<1>4. /\ evaluated \in Seq(Entry) /\ Len(evaluated) = Len(procs)
      /\ \A j \in Processes : evaluated[j] = IF j = k THEN e ELSE procs[j]
  BY <1>2, <1>3, ExceptSeq
<1> HIDE DEF evaluated
<1>5. \A j \in Processes : evaluated[j].life = procs[j].life /\ evaluated[j].killed = procs[j].killed
  BY <1>3, <1>4
<1>6. \A j \in Processes : evaluated[j].terminated => procs[j].terminated \/ ends
  BY <1>4
<1>7. [op |-> "deactivate", measured |-> k] \in Request
  BY <1>2 DEF Request
<1>8. Len(queue) \in Nat
  BY LenProperties
<1>9. /\ asked \in Seq(Request) /\ Len(asked) \in Nat /\ Len(asked) >= Len(queue)
      /\ ends => Len(asked) > Len(queue)
  BY <1>7, <1>8, AppendProperties
<1> HIDE DEF ends, asked
<1>10. CASE victim
  <2>1. ledger \in Processes /\ ledger \in 1..Len(evaluated) /\ evaluated[ledger] \in Entry
    BY <1>10, <1>2, <1>4, ElementOfSeq
  <2>2. v \in Entry /\ v.life = evaluated[ledger].life /\ v.killed = evaluated[ledger].killed
    BY <2>1, TerminatedEntry
  <2> HIDE DEF v
  <2>3. /\ procs' \in Seq(Entry) /\ Len(procs') = Len(procs)
        /\ \A j \in Processes : procs'[j] = IF j = ledger THEN v ELSE evaluated[j]
    BY <1>1, <1>10, <1>2, <1>4, <2>1, <2>2, ExceptSeq
  <2>4. \A j \in Processes : procs'[j].life = procs[j].life /\ procs'[j].killed = procs[j].killed
    BY <2>2, <2>3, <1>5
  <2>5. [op |-> "deactivate", measured |-> ledger] \in Request
    BY <2>1, <1>2 DEF Request
  <2> HIDE DEF victim
  <2>6. queue' \in Seq(Request) /\ Len(queue') = Len(asked) + 1
    BY <1>1, <1>10, <1>9, <2>5, AppendProperties
  <2>7. Len(queue') > Len(queue)
    BY <2>6, <1>8, <1>9
  <2> QED BY <2>3, <2>4, <2>6, <2>7, <1>1, GovernorKeeps
<1>11. CASE ~victim
  <2> HIDE DEF victim
  <2>1. procs' = evaluated /\ queue' = asked
    BY <1>1, <1>11
  <2>2. \/ Len(queue') > Len(queue)
        \/ \A j \in Processes : procs'[j].terminated => procs[j].terminated
    BY <2>1, <1>6, <1>9
  <2>3. /\ procs' \in Seq(Entry) /\ Len(procs') = Len(procs)
        /\ \A j \in Processes : procs'[j].life = procs[j].life /\ procs'[j].killed = procs[j].killed
        /\ queue' \in Seq(Request) /\ Len(queue') >= Len(queue)
    BY <2>1, <1>4, <1>5, <1>9
  <2> QED BY <2>2, <2>3, <1>1, GovernorKeeps
<1> QED BY <1>10, <1>11

-----------------------------------------------------------------------------
(* Together.                                                               *)

LEMMA StutterKeeps == BackendInv /\ UNCHANGED backendVars => BackendInv'
BY DEF BackendInv, backendVars, BackendTypeOK, ChainInv, NoOrphanWorker, RoutesOwned,
       RunningGoverned, TerminationQueued, Processes, Exited, Running

LEMMA StepKeeps == BackendInv /\ [BackendNext]_backendVars => BackendInv'
<1> SUFFICES ASSUME BackendInv, [BackendNext]_backendVars PROVE BackendInv'
  OBVIOUS
<1>1. CASE LifecycleRuns
  BY <1>1, BeginEndKeeps, FinishEndKeeps, SpawnFailsKeeps, SpawnKeeps, StartFailsKeeps,
     FinishFailKeeps DEF LifecycleRuns
<1>2. CASE \E k \in Processes : ExitSeen(k) \/ Register(k) \/ Dies(k)
  BY <1>2, ExitSeenKeeps, RegisterKeeps, DiesKeeps
<1>3. CASE \E over, tree \in BOOLEAN : SampleEnds(over, tree)
  BY <1>3, SampleEndsKeeps
<1>4. CASE Activate \/ Deactivate \/ SampleBegins \/ Ready
  BY <1>4, ActivateKeeps, DeactivateKeeps, SampleBeginsKeeps, ReadyKeeps
<1>5. CASE UNCHANGED backendVars
  BY <1>5, StutterKeeps
<1> QED BY <1>1, <1>2, <1>3, <1>4, <1>5 DEF BackendNext, BackendRuns

\* A queued termination means that the chain runs.
LEMMA InvAccounts == BackendInv => BackendsAccounted
<1> SUFFICES ASSUME BackendInv PROVE BackendsAccounted
  OBVIOUS
<1>1. queue = <<>> => Len(queue) = 0
  BY EmptySeq DEF BackendInv
<1>2. TerminationServed
  BY <1>1 DEF BackendInv, TerminationQueued, TerminationServed, Running
<1> QED BY <1>2 DEF BackendInv, BackendsAccounted

\* Whatever requests, failures, crashes and samples interleave, no worker is
\* orphaned (PLUG-52), no registration outlives its process, the governor
\* watches the process in the map, and a termination it decided on is queued.
THEOREM BackendsSound == BackendSpec => []BackendsAccounted
<1>1. BackendInit => BackendInv
  BY InitBackend
<1>2. BackendInv /\ [BackendNext]_backendVars => BackendInv'
  BY StepKeeps
<1>3. BackendInv => BackendsAccounted
  BY InvAccounts
<1> QED BY <1>1, <1>2, <1>3, PTL DEF BackendSpec
=============================================================================
