----------------------------- MODULE JobsProofs -----------------------------
(***************************************************************************)
(* The jobs of a plugin: the record of a job is sound under any             *)
(* interleaving of scans and requests, proved for any number of jobs,       *)
(* requests and scans and for every schedule.                               *)
(***************************************************************************)
EXTENDS PluginJobs, SequenceTheorems, WellFoundedInduction, TLAPS

\* A record, wherever it is: in the DLQ exactly when its failures exceed its
\* budget, and in flight only if it is active and has a budget.
SoundRecords ==
    {r \in Records : /\ r.status = "failed" <=> r.attempts > r.retries
                     /\ r.status = "failed" => r.dispatchAt = Unset /\ r.nextRetryAt = Unset
                     /\ r.dispatchAt # Unset => r.retries > 0}

ScanRecs == [pc : {"idle", "read", "loop", "publish", "advance"}, time : Nat,
             batch : [Jobs -> SoundRecords \cup {None}], job : Jobs \cup {None}]

Calls == [op : {"none", "schedule", "ack", "retry", "cancel"},
          job : Jobs \cup {None}, read : Records \cup {None}, new : Records \cup {None}]

JobsTyped ==
    /\ files \in [Jobs -> SoundRecords \cup {None}]
    /\ clock \in Nat /\ scan \in ScanRecs
    /\ calls \in [Slots -> Calls]
    /\ dispatches \in [Jobs -> Seq(Nat)] /\ open \in [Jobs -> Nat]
    /\ cancelled \subseteq Jobs /\ lost \subseteq Jobs /\ retried \subseteq Jobs
    /\ plan \in Plans /\ requests \in Nat /\ failures \in Nat

\* What a request that has read will write.
Keeps(read, new) ==
    /\ read \in Records /\ new \in SoundRecords
    /\ new.retries = read.retries /\ new.runCount = read.runCount
CallSound(c) ==
    LET call == calls[c]
        j == call.job
    IN  /\ call.op = "none" <=> call = NoCall
        /\ call.op # "none" => j \in Jobs
        /\ call.op = "schedule" =>
             /\ call.read = None /\ call.new \in SoundRecords
             /\ call.new.runCount = 0 /\ call.new.dispatchAt = Unset
             /\ files[j] = None /\ dispatches[j] = <<>> /\ scan.batch[j] = None
             /\ \A d \in Slots \ {c} : calls[d].job # j
        /\ call.op = "ack" =>
             /\ call.read \in Records /\ call.read.retries > 0 /\ dispatches[j] # <<>>
             /\ call.new = None \/ Keeps(call.read, call.new)
        /\ call.op = "retry" => Keeps(call.read, call.new)
        /\ call.op = "cancel" => call.new = None

\* What the scan has read was due or timed out then.  A record whose file is gone
\* was dispatched or cancelled; if no update of the file was lost, the file has the
\* budget that was read.
Looping == {"loop", "publish", "advance"}
At(pc, j) == scan.pc = pc /\ scan.job = j
BatchSound(j) ==
    scan.batch[j] # None =>
      /\ scan.pc \in Looping
      /\ Handled(scan.batch[j], scan.time)
      /\ files[j] # None \/ dispatches[j] # <<>> \/ j \in cancelled
      /\ files[j] # None /\ j \notin lost => files[j].retries = scan.batch[j].retries
      /\ files[j] # None /\ j \notin lost \cup retried /\ ~AckBased(files[j]) =>
           files[j] = scan.batch[j]
AtSound ==
    /\ scan.pc \in {"publish", "advance"} => scan.job \in Jobs /\ scan.batch[scan.job] # None
    /\ scan.pc = "publish" => AckBased(scan.batch[scan.job])
    /\ scan.pc = "advance" => ~AckBased(scan.batch[scan.job])

\* runCount counts the markers, which come before their events.
Counted(j) ==
    files[j] # None /\ AckBased(files[j]) /\ j \notin lost /\ failures = 0 =>
      files[j].runCount = Len(dispatches[j]) + (IF At("publish", j) THEN 1 ELSE 0)

\* The next run is an interval after the last one, as soon as the scan has written it.
Spaced(j) ==
    Plain(j) =>
      LET runs == dispatches[j] IN
      /\ files[j].kind = "interval" =>
           /\ \A n \in 1 .. Len(runs) - 1 : runs[n + 1] >= runs[n] + Interval
           /\ runs # <<>> => IF At("advance", j) THEN runs[Len(runs)] = scan.time
                             ELSE files[j].nextRunAt >= runs[Len(runs)] + Interval
           /\ At("advance", j) => runs # <<>>
      /\ files[j].kind = "once" => Len(runs) = IF At("advance", j) THEN 1 ELSE 0

\* InFlightVisible of one job, and all of this.
Visible(j) ==
    open[j] # 0 /\ j \notin lost =>
      /\ files[j] # None /\ files[j].dispatchAt # Unset
      /\ failures = 0 => files[j].runCount = open[j]
JobSound(j) == BatchSound(j) /\ Counted(j) /\ Spaced(j) /\ Visible(j)

JobsInv ==
    /\ JobsTyped /\ AtSound
    /\ \A c \in Slots : CallSound(c)
    /\ \A j \in Jobs : JobSound(j)

-----------------------------------------------------------------------------
(* Records.                                                                *)

LEMMA RecordIs ==
  ASSUME NEW r \in SoundRecords
  PROVE  /\ r \in Records /\ r # None /\ r.kind \in Kinds /\ r.retries \in Nat
         /\ r.status \in {"active", "failed"} /\ r.attempts \in Nat /\ r.runCount \in Nat
         /\ r.nextRunAt \in Nat /\ r.nextRetryAt \in Nat \cup {Unset}
         /\ r.dispatchAt \in Nat \cup {Unset}
         /\ r.status = "failed" <=> r.attempts > r.retries
         /\ r.status = "failed" => r.dispatchAt = Unset /\ r.nextRetryAt = Unset
         /\ r.dispatchAt # Unset => r.retries > 0
  BY RecordAssumption DEF SoundRecords, Records

LEMMA BackoffIs == \A attempt : Backoff(attempt) \in Nat
  BY TimesAssumption DEF Backoff

LEMMA MinIs ==
  ASSUME NEW S \in SUBSET Nat, S # {}
  PROVE  Min(S) \in S
  <1>1. PICK x \in S : \A y \in S : ~(<<y, x>> \in OpToRel(<, Nat))
    BY NatLessThanWellFounded, WFMin
  <1>2. \A y \in S : x <= y
    <2> TAKE y \in S
    <2>1. ~(y < x)
      BY <1>1 DEF OpToRel
    <2> QED
      BY <2>1
  <1> QED
    BY <1>2 DEF Min

LEMMA NextRunIs ==
  ASSUME NEW r \in SoundRecords, NEW time \in Nat, r.kind # "once", ~Exhausted(r, time)
  PROVE  /\ NextRun(r, time) \in Nat
         /\ r.kind = "interval" => NextRun(r, time) >= time + Interval
  <1>1. CASE r.kind = "interval"
    BY <1>1, TimesAssumption, RecordIs DEF NextRun
  <1>2. CASE r.kind = "cron"
    <2>1. Matches(time) \in SUBSET Nat /\ Matches(time) # {}
      BY <1>2, TimesAssumption DEF Exhausted, Matches
    <2> QED
      BY <1>2, <2>1, MinIs DEF NextRun
  <1> QED
    BY <1>1, <1>2, RecordIs DEF Kinds

\* A record with other values in the fields that change.
With(r, status, attempts, runCount, nextRunAt, nextRetryAt, dispatchAt) ==
    [r EXCEPT !.status = status, !.attempts = attempts, !.runCount = runCount,
              !.nextRunAt = nextRunAt, !.nextRetryAt = nextRetryAt, !.dispatchAt = dispatchAt]

LEMMA FailureIs ==
  ASSUME NEW r \in SoundRecords, NEW time \in Nat, r.status = "active"
  PROVE  Failure(r, time) \in SoundRecords /\ Failure(r, time) # None
         /\ Failure(r, time).retries = r.retries /\ Failure(r, time).runCount = r.runCount
         /\ Failure(r, time).kind = r.kind
  <1> DEFINE n == r.attempts + 1
             c == r.runCount
             next == r.nextRunAt
             delay == Backoff(n)
             later == time + delay
             a == With(r, "failed", n, c, next, Unset, Unset)
             b == With(r, "active", n, c, next, later, Unset)
  <1>1. n \in Nat /\ delay \in Nat /\ later \in Nat /\ r \in Records /\ c \in Nat /\ next \in Nat
    BY RecordIs, BackoffIs
  <1>2. Failure(r, time) = IF n > r.retries THEN a ELSE b
    BY DEF Failure, With, SoundRecords, Records
  <1>a. c = r.runCount
    OBVIOUS
  <1> HIDE DEF n, delay, later, c, next
  <1>3. a \in {m \in Records : /\ m.kind = r.kind /\ m.retries = r.retries
                               /\ m.status = "failed" /\ m.attempts = n /\ m.runCount = c
                               /\ m.nextRunAt = next /\ m.nextRetryAt = Unset
                               /\ m.dispatchAt = Unset}
    BY <1>1 DEF With, Records
  <1>4. b \in {m \in Records : /\ m.kind = r.kind /\ m.retries = r.retries
                               /\ m.status = "active" /\ m.attempts = n /\ m.runCount = c
                               /\ m.nextRunAt = next /\ m.nextRetryAt = later
                               /\ m.dispatchAt = Unset}
    BY <1>1 DEF With, Records
  <1> HIDE DEF a, b
  <1>5. CASE n > r.retries
    <2>1. a \in SoundRecords
      BY <1>3, <1>5 DEF SoundRecords
    <2> QED
      BY <1>2, <1>3, <1>5, <1>a, <2>1, RecordIs
  <1>6. CASE ~(n > r.retries)
    <2>1. b \in SoundRecords
      BY <1>4, <1>6 DEF SoundRecords
    <2> QED
      BY <1>2, <1>4, <1>6, <1>a, <2>1, RecordIs
  <1> QED
    BY <1>5, <1>6

LEMMA SuccessIs ==
  ASSUME NEW r \in SoundRecords, NEW time \in Nat, r.dispatchAt # Unset, ~Exhausted(r, time)
  PROVE  \/ Success(r, time) = None
         \/ /\ Success(r, time) \in SoundRecords
            /\ Success(r, time).retries = r.retries /\ Success(r, time).runCount = r.runCount
  <1> DEFINE c == r.runCount
             next == NextRun(r, time)
             a == With(r, "active", 0, c, next, Unset, Unset)
  <1>1. CASE r.kind = "once"
    BY <1>1 DEF Success
  <1>2. CASE r.kind # "once"
    <2>1. next \in Nat /\ r \in Records /\ c \in Nat /\ r.status = "active"
      BY <1>2, RecordIs, NextRunIs
    <2>2. Success(r, time) = a
      BY <1>2, <2>1 DEF Success, With, Records
    <2>a. c = r.runCount /\ r.retries \in Nat
      BY RecordIs
    <2> HIDE DEF c, next
    <2>3. a \in {m \in Records : /\ m.kind = r.kind /\ m.retries = r.retries
                                 /\ m.status = "active" /\ m.attempts = 0 /\ m.runCount = c
                                 /\ m.nextRunAt = next /\ m.nextRetryAt = Unset
                                 /\ m.dispatchAt = Unset}
      BY <2>1 DEF With, Records
    <2> HIDE DEF a
    <2>4. a \in SoundRecords
      BY <2>3, <2>a DEF SoundRecords
    <2> QED
      BY <2>2, <2>3, <2>4, <2>a
  <1> QED
    BY <1>1, <1>2

LEMMA ReenqueuedIs ==
  ASSUME NEW r \in SoundRecords, NEW time \in Nat
  PROVE  Keeps(r, Reenqueued(r, time))
  <1> DEFINE c == r.runCount
             a == With(r, "active", 0, c, time, Unset, Unset)
  <1>1. r \in Records /\ c \in Nat /\ c = r.runCount /\ r.retries \in Nat
    BY RecordIs
  <1>2. Reenqueued(r, time) = a
    BY <1>1 DEF Reenqueued, With, Records
  <1> HIDE DEF c
  <1>3. a \in {m \in Records : /\ m.kind = r.kind /\ m.retries = r.retries
                               /\ m.status = "active" /\ m.attempts = 0 /\ m.runCount = c
                               /\ m.nextRunAt = time /\ m.nextRetryAt = Unset
                               /\ m.dispatchAt = Unset}
    BY <1>1 DEF With, Records
  <1> HIDE DEF a
  <1>4. a \in SoundRecords
    BY <1>1, <1>3 DEF SoundRecords
  <1> QED
    BY <1>1, <1>2, <1>3, <1>4 DEF Keeps

LEMMA MarkedIs ==
  ASSUME NEW r \in SoundRecords, NEW time \in Nat, r.status = "active", AckBased(r)
  PROVE  /\ Marked(r, time) \in SoundRecords /\ Marked(r, time) # None
         /\ Marked(r, time).retries = r.retries
         /\ Marked(r, time).runCount = r.runCount + 1 /\ Marked(r, time).dispatchAt # Unset
  <1> DEFINE c == r.runCount + 1
             next == r.nextRunAt
             retry == r.nextRetryAt
             n == r.attempts
             a == With(r, "active", n, c, next, retry, time)
  <1>1. /\ r \in Records /\ c \in Nat /\ c = r.runCount + 1 /\ r.retries \in Nat /\ r.retries > 0
        /\ next \in Nat /\ retry \in Nat \cup {Unset} /\ n \in Nat /\ ~(n > r.retries)
        /\ time # Unset
    BY RecordIs DEF AckBased, Unset
  <1>2. Marked(r, time) = a
    BY <1>1 DEF Marked, With, Records
  <1> HIDE DEF c, next, retry, n
  <1>3. a \in {m \in Records : /\ m.kind = r.kind /\ m.retries = r.retries
                               /\ m.status = "active" /\ m.attempts = n /\ m.runCount = c
                               /\ m.nextRunAt = next /\ m.nextRetryAt = retry
                               /\ m.dispatchAt = time}
    BY <1>1 DEF With, Records
  <1> HIDE DEF a
  <1>4. a \in SoundRecords
    BY <1>1, <1>3 DEF SoundRecords
  <1> QED
    BY <1>1, <1>2, <1>3, <1>4, RecordIs

LEMMA AdvancedIs ==
  ASSUME NEW r \in SoundRecords, NEW time \in Nat, r.status = "active", ~AckBased(r),
         ~Exhausted(r, time)
  PROVE  IF r.kind = "once" THEN Advanced(r, time) = None
         ELSE /\ Advanced(r, time) \in SoundRecords /\ Advanced(r, time) # None
              /\ Advanced(r, time).retries = r.retries /\ Advanced(r, time).kind = r.kind
              /\ r.kind = "interval" => Advanced(r, time).nextRunAt >= time + Interval
  <1> DEFINE c == r.runCount + 1
             next == NextRun(r, time)
             retry == r.nextRetryAt
             n == r.attempts
             a == With(r, "active", n, c, next, retry, Unset)
  <1>1. CASE r.kind = "once"
    BY <1>1 DEF Advanced
  <1>2. CASE r.kind # "once"
    <2>1. /\ r \in Records /\ c \in Nat /\ r.retries \in Nat /\ ~(n > r.retries)
          /\ next \in Nat /\ retry \in Nat \cup {Unset} /\ n \in Nat /\ r.dispatchAt = Unset
          /\ r.kind = "interval" => next >= time + Interval
      BY <1>2, RecordIs, NextRunIs DEF AckBased
    <2>2. Advanced(r, time) = a
      BY <1>2, <2>1 DEF Advanced, With, Records
    <2> HIDE DEF c, next, retry, n
    <2>3. a \in {m \in Records : /\ m.kind = r.kind /\ m.retries = r.retries
                                 /\ m.status = "active" /\ m.attempts = n /\ m.runCount = c
                                 /\ m.nextRunAt = next /\ m.nextRetryAt = retry
                                 /\ m.dispatchAt = Unset}
      BY <2>1 DEF With, Records
    <2> HIDE DEF a
    <2>4. a \in SoundRecords
      BY <2>1, <2>3 DEF SoundRecords
    <2> QED
      BY <1>2, <2>1, <2>2, <2>3, <2>4, RecordIs
  <1> QED
    BY <1>1, <1>2

LEMMA NewRecordIs ==
  ASSUME NEW kind \in Kinds, NEW retries \in Nat, NEW time \in Nat
  PROVE  /\ NewRecord(kind, retries, time) \in SoundRecords
         /\ NewRecord(kind, retries, time).runCount = 0
         /\ NewRecord(kind, retries, time).dispatchAt = Unset
  <1>1. NewRecord(kind, retries, time) \in Records
    BY DEF NewRecord, Records
  <1> QED
    BY <1>1 DEF SoundRecords, NewRecord

-----------------------------------------------------------------------------
(* What does not change.                                                   *)

LEMMA InitJobs == Init => JobsInv
  <1> SUFFICES ASSUME Init PROVE JobsInv
    OBVIOUS
  <1>1. NoScan \in ScanRecs /\ NoCall \in Calls
    BY DEF NoScan, ScanRecs, NoCall, Calls
  <1>2. JobsTyped
    BY <1>1 DEF Init, JobsTyped
  <1>3. \A j \in Jobs : /\ scan.batch[j] = None /\ files[j] = None /\ open[j] = 0
                        /\ ~At("publish", j) /\ ~At("advance", j)
    BY DEF Init, NoScan, At
  <1>4. \A j \in Jobs : JobSound(j)
    BY <1>3 DEF JobSound, BatchSound, Counted, Spaced, Plain, Visible
  <1>5. AtSound
    BY DEF Init, NoScan, AtSound
  <1>6. \A c \in Slots : CallSound(c)
    BY DEF Init, NoCall, CallSound
  <1> QED
    BY <1>2, <1>4, <1>5, <1>6 DEF JobsInv

\* Nothing changes of a job.
SameJob(i) ==
    /\ files'[i] = files[i] /\ dispatches'[i] = dispatches[i] /\ open'[i] = open[i]
    /\ scan'.batch[i] = scan.batch[i] /\ scan'.time = scan.time /\ failures' = failures
    /\ i \in lost' <=> i \in lost
    /\ i \in retried' <=> i \in retried
    /\ i \in cancelled' <=> i \in cancelled
    /\ At("publish", i)' <=> At("publish", i)
    /\ At("advance", i)' <=> At("advance", i)
    /\ scan.pc \in Looping => scan'.pc \in Looping

LEMMA JobStays ==
  ASSUME NEW i, JobSound(i), SameJob(i)
  PROVE  JobSound(i)'
  <1>1. BatchSound(i)'
    BY DEF JobSound, SameJob, BatchSound
  <1>2. Counted(i)'
    BY DEF JobSound, SameJob, Counted
  <1>3. Spaced(i)'
    BY DEF JobSound, SameJob, Spaced, Plain
  <1>4. Visible(i)'
    BY DEF JobSound, SameJob, Visible
  <1> QED
    BY <1>1, <1>2, <1>3, <1>4 DEF JobSound

\* The requests under way do not notice what happens to other jobs than those
\* they will schedule.
LEMMA CallsStay ==
  ASSUME JobsInv, calls' = calls,
         \A j \in Jobs : files[j] = None /\ dispatches[j] = <<>> /\ scan.batch[j] = None =>
           files'[j] = None /\ dispatches'[j] = <<>> /\ scan'.batch[j] = None,
         \A j \in Jobs : dispatches[j] # <<>> => dispatches'[j] # <<>>
  PROVE  \A c \in Slots : CallSound(c)'
  <1> TAKE c \in Slots
  <1>1. CallSound(c)
    BY DEF JobsInv
  <1>2. calls[c].op # "none" => calls[c].job \in Jobs
    BY <1>1 DEF CallSound
  <1> QED
    BY <1>1, <1>2 DEF CallSound

\* Only the scan changes.
LEMMA ScanOnly ==
  ASSUME JobsInv, UNCHANGED <<files, dispatches, open, cancelled, retried, plan>>,
         lost' = lost \/ (scan.pc = "advance" /\ lost' = lost \cup {scan.job}),
         clock' \in Nat, failures' \in Nat, requests' \in Nat, failures' = 0 => failures = 0,
         calls' = calls \/ calls' = [c \in Slots |-> NoCall],
         scan' \in ScanRecs, scan'.pc \in {"idle", "read", "loop"},
         \A j \in Jobs : \/ scan'.batch[j] = None
                         \/ /\ scan'.pc = "loop" /\ scan'.batch[j] = files[j]
                            /\ Handled(files[j], scan'.time),
         failures' = 0 => scan.pc # "publish",
         scan.pc = "advance" => scan.batch[scan.job].kind = "cron" \/ scan.job \in lost'
  PROVE  JobsInv'
  <1>1. JobsTyped' /\ lost \subseteq lost'
    BY DEF JobsInv, JobsTyped, AtSound, NoCall, Calls
  <1>2. AtSound'
    BY DEF AtSound
  <1>3. \A c \in Slots : CallSound(c)'
    <2>1. CASE calls' = calls
      <3>1. \A j \in Jobs : files[j] = None => scan'.batch[j] = None
        OBVIOUS
      <3> QED
        BY <2>1, <3>1, CallsStay
    <2>2. CASE calls' = [c \in Slots |-> NoCall]
      BY <2>2 DEF CallSound, NoCall
    <2> QED
      BY <2>1, <2>2
  <1>4. ASSUME NEW j \in Jobs PROVE JobSound(j)'
    <2>1. JobSound(j) /\ ~At("publish", j)' /\ ~At("advance", j)'
      BY DEF JobsInv, At
    <2>2. BatchSound(j)'
      BY DEF BatchSound, Looping, Handled
    <2>3. Visible(j)'
      BY <2>1 DEF JobSound, Visible
    <2>4. Counted(j)'
      BY <2>1 DEF JobSound, Counted, At
    <2>5. Spaced(j)'
      <3>1. CASE Plain(j)' /\ At("advance", j)
        <4>1. scan.batch[j] # None /\ scan.batch[j].kind = "cron" /\ Plain(j)
          BY <3>1 DEF JobsInv, AtSound, At, Plain
        <4>2. files[j] = scan.batch[j]
          BY <2>1, <4>1 DEF JobSound, BatchSound, Plain
        <4> QED
          BY <4>1, <4>2 DEF Spaced
      <3>2. CASE Plain(j)' /\ ~At("advance", j)
        BY <2>1, <3>2 DEF JobSound, Spaced, Plain
      <3> QED
        BY <3>1, <3>2 DEF Spaced
    <2> QED
      BY <2>2, <2>3, <2>4, <2>5 DEF JobSound
  <1> QED
    BY <1>1, <1>2, <1>3, <1>4 DEF JobsInv

LEMMA BatchEmpty ==
  ASSUME JobsInv, scan.pc \notin Looping, NEW j \in Jobs
  PROVE  scan.batch[j] = None
  BY DEF JobsInv, JobSound, BatchSound

LEMMA ScanBegins == JobsInv /\ ScanBegin => JobsInv'
  <1> SUFFICES ASSUME JobsInv, ScanBegin PROVE JobsInv'
    OBVIOUS
  <1>1. \A j \in Jobs : scan.batch[j] = None
    BY BatchEmpty DEF ScanBegin, InScan, Looping
  <1>2. scan' \in ScanRecs /\ scan'.pc = "read" /\ scan'.batch = scan.batch
    BY DEF JobsInv, JobsTyped, ScanRecs, ScanBegin
  <1> QED
    BY <1>1, <1>2, ScanOnly DEF ScanBegin, InScan, history, budgets, JobsInv, JobsTyped

LEMMA ScanReads == JobsInv /\ ScanRead => JobsInv'
  <1> SUFFICES ASSUME JobsInv, ScanRead PROVE JobsInv'
    OBVIOUS
  <1> DEFINE batch == [j \in Jobs |->
                         IF /\ Handled(files[j], scan.time)
                            /\ Due(files[j], scan.time) => Bounded(j)
                         THEN files[j] ELSE None]
  <1>1. batch \in [Jobs -> SoundRecords \cup {None}]
    BY DEF JobsInv, JobsTyped
  <1>2. \A j \in Jobs : batch[j] = None \/ (batch[j] = files[j] /\ Handled(files[j], scan.time))
    OBVIOUS
  <1>3. scan' = [scan EXCEPT !.pc = "loop", !.batch = batch]
    BY DEF ScanRead
  <1> HIDE DEF batch
  <1>4. /\ scan' \in ScanRecs /\ scan'.pc = "loop" /\ scan'.batch = batch
        /\ scan'.time = scan.time
    BY <1>1, <1>3 DEF JobsInv, JobsTyped, ScanRecs
  <1>5. \A j \in Jobs : \/ scan'.batch[j] = None
                        \/ /\ scan'.pc = "loop" /\ scan'.batch[j] = files[j]
                           /\ Handled(files[j], scan'.time)
    BY <1>2, <1>4
  <1> QED
    BY <1>4, <1>5, ScanOnly DEF ScanRead, InScan, history, budgets, JobsInv, JobsTyped

\* The scan is over: at its end, by an exception or a failure, or with the server.
LEMMA ScanStops ==
  ASSUME JobsInv, ScanEnd \/ (\E j \in Jobs : ScanThrows(j)) \/ ScanFails \/ Restart
  PROVE  JobsInv'
  <1>1. /\ scan' = NoScan /\ clock' = clock /\ requests' = requests
        /\ UNCHANGED <<files, dispatches, open, cancelled, retried, plan>>
        /\ lost' = lost \/ (scan.pc = "advance" /\ lost' = lost \cup {scan.job})
        /\ calls' = calls \/ calls' = [c \in Slots |-> NoCall]
        /\ failures' = failures \/ failures' = failures + 1
    BY DEF ScanEnd, ScanThrows, ScanFails, Restart, Unwritten, InScan, history, budgets
  <1>2. scan' \in ScanRecs /\ scan'.pc = "idle" /\ \A j \in Jobs : scan'.batch[j] = None
    BY <1>1 DEF NoScan, ScanRecs
  <1>3. /\ clock' \in Nat /\ requests' \in Nat /\ failures' \in Nat
        /\ failures' = 0 => failures = 0
    BY <1>1 DEF JobsInv, JobsTyped
  <1>4. CASE ScanEnd
    BY <1>1, <1>2, <1>3, <1>4, ScanOnly DEF ScanEnd, InScan
  <1>5. CASE \E j \in Jobs : ScanThrows(j)
    <2>1. scan.pc = "advance" /\ scan.batch[scan.job].kind = "cron"
      BY <1>5 DEF ScanThrows, InScan, Exhausted
    <2> QED
      BY <1>1, <1>2, <1>3, <2>1, ScanOnly
  <1>6. CASE ScanFails \/ Restart
    <2>1. failures' # 0 /\ (scan.pc = "advance" => scan.job \in lost')
      BY <1>6 DEF JobsInv, JobsTyped, ScanFails, Restart, Unwritten, InScan
    <2> QED
      BY <1>1, <1>2, <1>3, <2>1, ScanOnly
  <1> QED
    BY <1>4, <1>5, <1>6

LEMMA NothingMoves ==
  ASSUME JobsInv, UNCHANGED <<files, scan, calls, dispatches, open, cancelled, lost,
                              retried, requests, failures, plan>>, clock' \in Nat
  PROVE  JobsInv'
  <1>1. JobsTyped' /\ AtSound'
    BY DEF JobsInv, JobsTyped, AtSound
  <1>2. \A c \in Slots : CallSound(c)'
    BY CallsStay
  <1>3. ASSUME NEW j \in Jobs PROVE JobSound(j)'
    <2>1. SameJob(j)
      BY DEF SameJob, At
    <2> QED
      BY <2>1, JobStays DEF JobsInv
  <1> QED
    BY <1>1, <1>2, <1>3 DEF JobsInv

-----------------------------------------------------------------------------
(* A step of the scan with one job.                                        *)

LEMMA ScanStep ==
  ASSUME JobsInv, NEW j \in Jobs, scan.batch[j] # None,
         UNCHANGED <<clock, calls, cancelled, retried, requests, failures, plan>>,
         files' \in [Jobs -> SoundRecords \cup {None}], lost' \subseteq Jobs,
         dispatches' \in [Jobs -> Seq(Nat)], open' \in [Jobs -> Nat],
         scan' \in ScanRecs, scan'.pc \in Looping, scan'.time = scan.time,
         \A i \in Jobs \ {j} :
           /\ files'[i] = files[i] /\ dispatches'[i] = dispatches[i] /\ open'[i] = open[i]
           /\ scan'.batch[i] = scan.batch[i]
           /\ i \in lost' <=> i \in lost,
         scan.pc # "loop" => scan.job = j, scan'.pc # "loop" => scan'.job = j,
         dispatches[j] # <<>> => dispatches'[j] # <<>>,
         AtSound', JobSound(j)'
  PROVE  JobsInv'
  <1>1. JobsTyped'
    BY DEF JobsInv, JobsTyped
  <1>2. \A c \in Slots : CallSound(c)'
    <2>1. \A i \in Jobs : files[i] = None /\ dispatches[i] = <<>> /\ scan.batch[i] = None =>
            files'[i] = None /\ dispatches'[i] = <<>> /\ scan'.batch[i] = None
      OBVIOUS
    <2>2. \A i \in Jobs : dispatches[i] # <<>> => dispatches'[i] # <<>>
      OBVIOUS
    <2> QED
      BY <2>1, <2>2, CallsStay
  <1>3. ASSUME NEW i \in Jobs, i # j PROVE JobSound(i)'
    <2>1. SameJob(i)
      BY <1>3 DEF SameJob, At
    <2> QED
      BY <2>1, JobStays DEF JobsInv
  <1> QED
    BY <1>1, <1>2, <1>3 DEF JobsInv

\* The record that the scan is about to handle.
LEMMA BatchIs ==
  ASSUME JobsInv, NEW j \in Jobs, scan.batch[j] # None
  PROVE  /\ scan.batch[j] \in SoundRecords /\ scan.batch[j] \in Records
         /\ scan.batch[j].status = "active" /\ Handled(scan.batch[j], scan.time)
         /\ scan.time \in Nat /\ scan.pc \in Looping
  <1>1. scan.batch[j] \in SoundRecords /\ scan.time \in Nat
    BY DEF JobsInv, JobsTyped, ScanRecs
  <1>2. Handled(scan.batch[j], scan.time) /\ scan.pc \in Looping
    BY DEF JobsInv, JobSound, BatchSound
  <1> QED
    BY <1>1, <1>2 DEF Handled, SoundRecords

\* `continue`.
LEMMA Continues ==
  ASSUME JobsInv, NEW j \in Jobs, scan' = Continue(j)
  PROVE  /\ scan' \in ScanRecs /\ scan'.pc = "loop" /\ scan'.pc \in Looping
         /\ scan'.time = scan.time
         /\ scan'.batch[j] = None /\ \A i \in Jobs \ {j} : scan'.batch[i] = scan.batch[i]
         /\ AtSound' /\ \A i \in Jobs : ~At("publish", i)' /\ ~At("advance", i)'
  <1>1. /\ scan' \in ScanRecs /\ scan'.pc = "loop" /\ scan'.time = scan.time
        /\ scan'.batch = [scan.batch EXCEPT ![j] = None]
    BY DEF JobsInv, JobsTyped, ScanRecs, Continue
  <1>2. scan.batch \in [Jobs -> SoundRecords \cup {None}]
    BY DEF JobsInv, JobsTyped, ScanRecs
  <1> QED
    BY <1>1, <1>2 DEF AtSound, At, Looping

\* A write of the scan: if it overwrites nothing, the file held what was read.
LEMMA WriteIs ==
  ASSUME JobsInv, NEW j \in Jobs, NEW read, NEW new \in SoundRecords \cup {None},
         Write(j, read, new)
  PROVE  /\ files' \in [Jobs -> SoundRecords \cup {None}] /\ files'[j] = new
         /\ \A i \in Jobs \ {j} : /\ files'[i] = files[i]
                                  /\ i \in lost' <=> i \in lost
         /\ lost' \subseteq Jobs
         /\ j \notin lost' => j \notin lost /\ files[j] = read
  BY DEF JobsInv, JobsTyped, Write

LEMMA OpenIs ==
  ASSUME JobsInv, NEW j \in Jobs, NEW n \in Nat, open' = [open EXCEPT ![j] = n]
  PROVE  /\ open' \in [Jobs -> Nat] /\ open'[j] = n
         /\ \A i \in Jobs \ {j} : open'[i] = open[i]
  BY DEF JobsInv, JobsTyped

LEMMA PublishedIs ==
  ASSUME JobsInv, NEW j \in Jobs, Published(j)
  PROVE  /\ dispatches' \in [Jobs -> Seq(Nat)]
         /\ dispatches[j] \in Seq(Nat) /\ dispatches'[j] = Append(dispatches[j], scan.time)
         /\ \A i \in Jobs \ {j} : dispatches'[i] = dispatches[i]
         /\ dispatches'[j] # <<>> /\ Len(dispatches'[j]) = Len(dispatches[j]) + 1
        /\ dispatches'[j][Len(dispatches[j]) + 1] = scan.time
        /\ \A n \in 1 .. Len(dispatches[j]) : dispatches'[j][n] = dispatches[j][n]
  <1>1. scan.time \in Nat /\ dispatches \in [Jobs -> Seq(Nat)]
    BY DEF JobsInv, JobsTyped, ScanRecs
  <1>2. dispatches[j] \in Seq(Nat)
    BY <1>1
  <1>3. /\ Append(dispatches[j], scan.time) \in Seq(Nat)
        /\ Append(dispatches[j], scan.time) # <<>>
        /\ Len(Append(dispatches[j], scan.time)) = Len(dispatches[j]) + 1
        /\ Append(dispatches[j], scan.time)[Len(dispatches[j]) + 1] = scan.time
        /\ \A n \in 1 .. Len(dispatches[j]) :
             Append(dispatches[j], scan.time)[n] = dispatches[j][n]
    BY <1>1, <1>2, AppendProperties
  <1> QED
    BY <1>1, <1>2, <1>3 DEF Published

LEMMA TimesOut ==
  ASSUME JobsInv, NEW j \in Jobs, ScanTimeout(j)
  PROVE  JobsInv'
  <1> DEFINE r == scan.batch[j]
  <1>1. /\ r # None /\ TimedOut(r, scan.time) /\ Write(j, r, Failure(r, scan.time))
        /\ open' = [open EXCEPT ![j] = 0] /\ scan' = Continue(j) /\ scan.pc = "loop"
        /\ UNCHANGED <<clock, calls, dispatches, cancelled, retried, requests, failures, plan>>
    BY DEF ScanTimeout, InScan, budgets
  <1>2. r \in SoundRecords /\ r.status = "active" /\ scan.time \in Nat
    BY <1>1, BatchIs
  <1>3. /\ Failure(r, scan.time) \in SoundRecords /\ Failure(r, scan.time) # None
        /\ Failure(r, scan.time).retries = r.retries /\ Failure(r, scan.time).runCount = r.runCount
    BY <1>2, FailureIs
  <1>4. AckBased(r)
    BY <1>1, <1>2, RecordIs DEF TimedOut, AckBased
  <1>5. /\ files' \in [Jobs -> SoundRecords \cup {None}] /\ files'[j] = Failure(r, scan.time)
        /\ \A i \in Jobs \ {j} : /\ files'[i] = files[i]
                                 /\ i \in lost' <=> i \in lost
        /\ lost' \subseteq Jobs
        /\ j \notin lost' => j \notin lost /\ files[j] = r
    BY <1>1, <1>3, WriteIs
  <1>6. /\ open' \in [Jobs -> Nat] /\ open'[j] = 0
        /\ \A i \in Jobs \ {j} : open'[i] = open[i]
    BY <1>1, OpenIs
  <1>7. /\ scan' \in ScanRecs /\ scan'.pc = "loop" /\ scan'.pc \in Looping
        /\ scan'.time = scan.time
        /\ scan'.batch[j] = None /\ \A i \in Jobs \ {j} : scan'.batch[i] = scan.batch[i]
        /\ AtSound' /\ ~At("publish", j)' /\ ~At("advance", j)'
    BY <1>1, Continues
  <1>8. JobSound(j)'
    <2>1. AckBased(files'[j])
      BY <1>3, <1>4, <1>5 DEF AckBased
    <2>2. Counted(j)'
      <3>1. Counted(j) /\ ~At("publish", j)
        BY <1>1 DEF JobsInv, JobSound, At
      <3> QED
        BY <1>1, <1>2, <1>3, <1>4, <1>5, <1>7, <3>1, RecordIs DEF Counted
    <2>3. BatchSound(j)' /\ Visible(j)'
      BY <1>6, <1>7 DEF BatchSound, Visible
    <2>4. Spaced(j)'
      BY <2>1 DEF Spaced, Plain
    <2> QED
      BY <2>2, <2>3, <2>4 DEF JobSound
  <1>9. dispatches' \in [Jobs -> Seq(Nat)]
    BY <1>1 DEF JobsInv, JobsTyped
  <1> QED
    BY <1>1, <1>5, <1>6, <1>7, <1>8, <1>9, ScanStep

LEMMA PublishesHeld ==
  ASSUME JobsInv, NEW j \in Jobs, ScanPublishHeld(j)
  PROVE  JobsInv'
  <1>1. /\ scan.pc = "publish" /\ scan.job = j /\ Published(j) /\ scan' = Continue(j)
        /\ UNCHANGED <<files, clock, calls, open, cancelled, lost, retried, requests, failures, plan>>
    BY DEF ScanPublishHeld, InScan, budgets
  <1>2. scan.batch[j] # None /\ AckBased(scan.batch[j]) /\ At("publish", j)
    BY <1>1 DEF JobsInv, AtSound, At
  <1>3. /\ dispatches' \in [Jobs -> Seq(Nat)]
        /\ \A i \in Jobs \ {j} : dispatches'[i] = dispatches[i]
        /\ dispatches'[j] # <<>> /\ Len(dispatches'[j]) = Len(dispatches[j]) + 1
    BY <1>1, PublishedIs
  <1>4. /\ scan' \in ScanRecs /\ scan'.pc = "loop" /\ scan'.pc \in Looping
        /\ scan'.time = scan.time
        /\ scan'.batch[j] = None /\ \A i \in Jobs \ {j} : scan'.batch[i] = scan.batch[i]
        /\ AtSound' /\ ~At("publish", j)' /\ ~At("advance", j)'
    BY <1>1, Continues
  <1>5. BatchSound(j) /\ Counted(j) /\ Visible(j) /\ Len(dispatches[j]) \in Nat
    BY DEF JobsInv, JobSound, JobsTyped
  <1>6. JobSound(j)'
    <2>1. Counted(j)'
      BY <1>1, <1>2, <1>3, <1>4, <1>5 DEF Counted
    <2>2. BatchSound(j)' /\ Visible(j)'
      BY <1>1, <1>4, <1>5 DEF BatchSound, Visible
    <2>3. Spaced(j)'
      BY <1>1, <1>2, <1>5 DEF Spaced, Plain, BatchSound, AckBased
    <2> QED
      BY <2>1, <2>2, <2>3 DEF JobSound
  <1>7. files' \in [Jobs -> SoundRecords \cup {None}] /\ lost' \subseteq Jobs /\ open' \in [Jobs -> Nat]
    BY <1>1 DEF JobsInv, JobsTyped
  <1> QED
    BY <1>1, <1>2, <1>3, <1>4, <1>6, <1>7, ScanStep

LEMMA Marks ==
  ASSUME JobsInv, NEW j \in Jobs, ScanMark(j)
  PROVE  JobsInv'
  <1> DEFINE r == scan.batch[j]
             m == Marked(r, scan.time)
             n == Len(dispatches[j]) + 1
  <1>1. /\ r # None /\ AckBased(r) /\ Write(j, r, m) /\ scan.pc = "loop"
        /\ open' = [open EXCEPT ![j] = n]
        /\ scan' = [scan EXCEPT !.pc = "publish", !.job = j]
        /\ UNCHANGED <<clock, calls, dispatches, cancelled, retried, requests, failures, plan>>
    BY DEF ScanMark, InScan, budgets
  <1>2. r \in SoundRecords /\ r.status = "active" /\ scan.time \in Nat /\ Handled(r, scan.time)
    BY <1>1, BatchIs
  <1>3. /\ m \in SoundRecords /\ m # None /\ m.retries = r.retries
        /\ m.runCount = r.runCount + 1 /\ m.dispatchAt # Unset
    BY <1>1, <1>2, MarkedIs
  <1>4. Len(dispatches[j]) \in Nat /\ n \in Nat /\ dispatches' \in [Jobs -> Seq(Nat)]
    BY <1>1 DEF JobsInv, JobsTyped
  <1>5. /\ files' \in [Jobs -> SoundRecords \cup {None}] /\ files'[j] = m
        /\ \A i \in Jobs \ {j} : /\ files'[i] = files[i]
                                 /\ i \in lost' <=> i \in lost
        /\ lost' \subseteq Jobs
        /\ j \notin lost' => j \notin lost /\ files[j] = r
    BY <1>1, <1>3, WriteIs
  <1>6. /\ open' \in [Jobs -> Nat] /\ open'[j] = n
        /\ \A i \in Jobs \ {j} : open'[i] = open[i]
    BY <1>1, <1>4, OpenIs
  <1>7. /\ scan' \in ScanRecs /\ scan'.pc = "publish" /\ scan'.job = j
        /\ scan'.time = scan.time /\ scan'.batch = scan.batch
    BY <1>1 DEF JobsInv, JobsTyped, ScanRecs
  <1>8. AtSound' /\ At("publish", j)' /\ ~At("advance", j)' /\ scan'.pc \in Looping
    BY <1>1, <1>7 DEF AtSound, At, Looping
  <1> HIDE DEF m, n
  <1>9. JobSound(j)'
    <2>1. AckBased(files'[j])
      BY <1>1, <1>3, <1>5 DEF AckBased
    <2>2. failures = 0 /\ j \notin lost' => r.runCount = Len(dispatches[j])
      <3>1. Counted(j) /\ ~At("publish", j)
        BY <1>1 DEF JobsInv, JobSound, At
      <3> QED
        BY <1>1, <1>4, <1>5, <3>1 DEF Counted
    <2>3. Counted(j)'
      BY <1>1, <1>3, <1>5, <1>8, <2>2 DEF Counted
    <2>4. BatchSound(j)'
      BY <1>2, <1>3, <1>5, <1>7, <1>8, <2>1 DEF BatchSound
    <2>5. Visible(j)'
      BY <1>1, <1>3, <1>5, <1>6, <2>2 DEF Visible, n
    <2>6. Spaced(j)'
      BY <2>1 DEF Spaced, Plain
    <2> QED
      BY <2>3, <2>4, <2>5, <2>6 DEF JobSound
  <1> QED
    BY <1>1, <1>4, <1>5, <1>6, <1>7, <1>8, <1>9, ScanStep

LEMMA Publishes ==
  ASSUME JobsInv, NEW j \in Jobs, ScanPublish(j)
  PROVE  JobsInv'
  <1> DEFINE r == scan.batch[j]
  <1>1. /\ r # None /\ ~AckBased(r) /\ Published(j) /\ scan.pc = "loop"
        /\ scan' = [scan EXCEPT !.pc = "advance", !.job = j]
        /\ UNCHANGED <<files, clock, calls, open, cancelled, lost, retried, requests, failures, plan>>
    BY DEF ScanPublish, InScan, budgets
  <1>2. r \in SoundRecords /\ r.retries \in Nat /\ scan.time \in Nat /\ Handled(r, scan.time)
    BY <1>1, BatchIs, RecordIs
  <1>3. Due(r, scan.time)
    BY <1>1, <1>2, RecordIs DEF Handled, TimedOut, AckBased
  <1>4. /\ dispatches' \in [Jobs -> Seq(Nat)] /\ dispatches[j] \in Seq(Nat)
        /\ \A i \in Jobs \ {j} : dispatches'[i] = dispatches[i]
        /\ dispatches'[j] # <<>> /\ Len(dispatches'[j]) = Len(dispatches[j]) + 1
        /\ dispatches'[j][Len(dispatches[j]) + 1] = scan.time
        /\ \A n \in 1 .. Len(dispatches[j]) : dispatches'[j][n] = dispatches[j][n]
    BY <1>1, PublishedIs
  <1>5. /\ scan' \in ScanRecs /\ scan'.pc = "advance" /\ scan'.job = j
        /\ scan'.time = scan.time /\ scan'.batch = scan.batch
    BY <1>1 DEF JobsInv, JobsTyped, ScanRecs
  <1>6. AtSound' /\ At("advance", j)' /\ ~At("publish", j)' /\ scan'.pc \in Looping
        /\ ~At("advance", j)
    BY <1>1, <1>5 DEF AtSound, At, Looping
  <1>7. BatchSound(j) /\ Counted(j) /\ Spaced(j) /\ Visible(j)
    BY DEF JobsInv, JobSound
  <1>8. JobSound(j)'
    <2>1. BatchSound(j)'
      BY <1>1, <1>4, <1>5, <1>6, <1>7 DEF BatchSound
    <2>2. Counted(j)'
      BY <1>1, <1>7 DEF Counted, BatchSound, AckBased
    <2>3. Visible(j)'
      BY <1>1, <1>7 DEF Visible
    <2>4. Spaced(j)'
      <3> SUFFICES ASSUME Plain(j)' PROVE Spaced(j)'
        BY DEF Spaced
      <3>1. Plain(j) /\ files[j] = r /\ files'[j] = files[j]
        BY <1>1, <1>7 DEF Plain, BatchSound
      <3> DEFINE runs == dispatches[j]
                 k == Len(runs)
      <3>2. k \in Nat /\ runs = <<>> <=> k = 0
        BY <1>4, EmptySeq, LenProperties
      <3>3. CASE files[j].kind = "interval"
        <4>1. /\ \A n \in 1 .. k - 1 : runs[n + 1] >= runs[n] + Interval
              /\ runs # <<>> => files[j].nextRunAt >= runs[k] + Interval
          BY <1>6, <1>7, <3>1, <3>3 DEF Spaced
        <4>2. files[j].nextRunAt <= scan.time
          BY <1>3, <3>1 DEF Due
        <4>3. \A n \in 1 .. k : dispatches'[j][n + 1] >= dispatches'[j][n] + Interval
          <5> TAKE n \in 1 .. k
          <5>1. CASE n = k
            <6>1. runs[k] \in Nat /\ runs # <<>>
              BY <1>4, <3>2, <5>1, ElementOfSeq
            <6>2. files[j].nextRunAt \in Nat
              BY <1>2, <3>1, RecordIs
            <6>3. dispatches'[j][k + 1] = scan.time /\ dispatches'[j][k] = runs[k]
              BY <1>4, <5>1
            <6> QED
              BY <1>2, <4>1, <4>2, <5>1, <6>1, <6>2, <6>3, TimesAssumption
          <5>2. CASE n < k
            <6>1. n \in 1 .. k - 1 /\ n + 1 \in 1 .. k
              BY <3>2, <5>2
            <6> QED
              BY <1>4, <4>1, <6>1
          <5> QED
            BY <3>2, <5>1, <5>2
        <4> QED
          BY <1>4, <1>5, <1>6, <3>1, <3>2, <3>3, <4>3 DEF Spaced, Kinds
      <3>4. CASE files[j].kind # "interval"
        <4>1. files[j].kind = "once" => k = 0
          BY <1>6, <1>7, <3>1 DEF Spaced
        <4> QED
          BY <1>4, <1>6, <3>1, <3>4, <4>1 DEF Spaced
      <3> QED
        BY <3>3, <3>4
    <2> QED
      BY <2>1, <2>2, <2>3, <2>4 DEF JobSound
  <1>9. files' \in [Jobs -> SoundRecords \cup {None}] /\ lost' \subseteq Jobs /\ open' \in [Jobs -> Nat]
    BY <1>1 DEF JobsInv, JobsTyped
  <1> QED
    BY <1>1, <1>4, <1>5, <1>6, <1>8, <1>9, ScanStep

LEMMA Advances ==
  ASSUME JobsInv, NEW j \in Jobs, ScanAdvance(j)
  PROVE  JobsInv'
  <1> DEFINE r == scan.batch[j]
             a == Advanced(r, scan.time)
  <1>1. /\ scan.pc = "advance" /\ scan.job = j /\ ~Exhausted(r, scan.time)
        /\ Write(j, r, a) /\ scan' = Continue(j)
        /\ UNCHANGED <<clock, calls, dispatches, open, cancelled, retried, requests, failures, plan>>
    BY DEF ScanAdvance, InScan, budgets
  <1>2. r # None /\ ~AckBased(r) /\ At("advance", j)
    BY <1>1 DEF JobsInv, AtSound, At
  <1>3. r \in SoundRecords /\ r.status = "active" /\ scan.time \in Nat /\ r.dispatchAt = Unset
    BY <1>2, BatchIs, RecordIs DEF AckBased
  <1>4. IF r.kind = "once" THEN a = None
        ELSE /\ a \in SoundRecords /\ a # None /\ a.retries = r.retries /\ a.kind = r.kind
             /\ r.kind = "interval" => a.nextRunAt >= scan.time + Interval
    BY <1>1, <1>2, <1>3, AdvancedIs
  <1> HIDE DEF a
  <1>5. /\ files' \in [Jobs -> SoundRecords \cup {None}] /\ files'[j] = a
        /\ \A i \in Jobs \ {j} : /\ files'[i] = files[i]
                                 /\ i \in lost' <=> i \in lost
        /\ lost' \subseteq Jobs
        /\ j \notin lost' => j \notin lost /\ files[j] = r
    BY <1>1, <1>4, WriteIs
  <1>6. /\ scan' \in ScanRecs /\ scan'.pc = "loop" /\ scan'.pc \in Looping
        /\ scan'.time = scan.time
        /\ scan'.batch[j] = None /\ \A i \in Jobs \ {j} : scan'.batch[i] = scan.batch[i]
        /\ AtSound' /\ ~At("publish", j)' /\ ~At("advance", j)'
    BY <1>1, Continues
  <1>7. Spaced(j) /\ Visible(j)
    BY DEF JobsInv, JobSound
  <1>8. JobSound(j)'
    <2>1. BatchSound(j)'
      BY <1>6 DEF BatchSound
    <2>2. Counted(j)'
      BY <1>2, <1>4, <1>5 DEF Counted, AckBased
    <2>3. Visible(j)'
      BY <1>1, <1>3, <1>5, <1>7 DEF Visible
    <2>4. Spaced(j)'
      <3> SUFFICES ASSUME Plain(j)' PROVE Spaced(j)'
        BY DEF Spaced
      <3>1. Plain(j) /\ files[j] = r /\ a # None
        BY <1>1, <1>2, <1>5, BatchIs, RecordAssumption DEF Plain
      <3>2. r.kind # "once" /\ a.kind = r.kind
        BY <1>4, <3>1
      <3>3. CASE r.kind = "interval"
        <4> DEFINE runs == dispatches[j]
        <4>1. /\ \A n \in 1 .. Len(runs) - 1 : runs[n + 1] >= runs[n] + Interval
              /\ runs[Len(runs)] = scan.time
          BY <1>2, <1>7, <3>1, <3>3 DEF Spaced
        <4>2. files'[j].nextRunAt >= scan.time + Interval
          BY <1>4, <1>5, <3>2, <3>3
        <4>3. files'[j].nextRunAt >= runs[Len(runs)] + Interval
          BY <1>3, <4>1, <4>2, TimesAssumption
        <4>4. files'[j].kind = "interval" /\ dispatches' = dispatches
          BY <1>1, <1>5, <3>2, <3>3
        <4> QED
          BY <1>6, <4>1, <4>3, <4>4 DEF Spaced
      <3> QED
        BY <1>5, <3>2, <3>3 DEF Spaced
    <2> QED
      BY <2>1, <2>2, <2>3, <2>4 DEF JobSound
  <1>9. dispatches' \in [Jobs -> Seq(Nat)] /\ open' \in [Jobs -> Nat]
    BY <1>1 DEF JobsInv, JobsTyped
  <1> QED
    BY <1>1, <1>2, <1>5, <1>6, <1>8, <1>9, ScanStep

-----------------------------------------------------------------------------
(* Requests.                                                               *)

LEMMA FilesIs ==
  ASSUME JobsInv, NEW j \in Jobs
  PROVE  /\ files[j] \in SoundRecords \cup {None} /\ scan.batch[j] \in SoundRecords \cup {None}
         /\ dispatches[j] \in Seq(Nat) /\ open[j] \in Nat /\ clock \in Nat
  BY DEF JobsInv, JobsTyped, ScanRecs

\* A request that arrives reads, and will write; a new job has an id of its own.
LEMMA RequestStep ==
  ASSUME JobsInv, NEW c \in Slots, NEW op \in {"schedule", "ack", "retry", "cancel"},
         NEW j \in Jobs, NEW new \in Records \cup {None}, Request(c, op, j, new),
         UNCHANGED <<files, clock, scan, history, failures, plan>>,
         op = "schedule" => Fresh(j), op # "schedule" => files[j] # None,
         CallSound(c)'
  PROVE  JobsInv'
  <1> DEFINE call == [op |-> op, job |-> j, read |-> files[j], new |-> new]
  <1>1. /\ calls' = [calls EXCEPT ![c] = call] /\ requests' = requests + 1
        /\ UNCHANGED <<files, clock, scan, dispatches, open, cancelled, lost, retried, failures, plan>>
    BY DEF Request, history
  <1>2. calls \in [Slots -> Calls] /\ call \in Calls
    BY FilesIs, RecordIs DEF JobsInv, JobsTyped, Calls
  <1>3. /\ calls' \in [Slots -> Calls] /\ calls'[c].job = j /\ calls'[c].op = op
        /\ \A d \in Slots \ {c} : calls'[d] = calls[d]
    BY <1>1, <1>2
  <1> HIDE DEF call
  <1>4. JobsTyped' /\ AtSound'
    BY <1>1, <1>3 DEF JobsInv, JobsTyped, AtSound
  <1>5. ASSUME NEW d \in Slots \ {c} PROVE CallSound(d)'
    <2>1. CallSound(d) /\ calls'[d] = calls[d]
      BY <1>3 DEF JobsInv
    <2>2. calls[d].op = "schedule" => files[calls[d].job] = None /\ calls[d].job \in Jobs
      BY <2>1 DEF CallSound
    <2>3. calls[d].op = "schedule" => calls[d].job # j
      BY <2>2 DEF Fresh
    <2>4. calls[d].op = "schedule" => \A e \in Slots \ {d} : calls'[e].job # calls'[d].job
      BY <1>3, <2>1, <2>3 DEF CallSound
    <2> QED
      BY <1>1, <2>1, <2>4 DEF CallSound
  <1>6. ASSUME NEW i \in Jobs PROVE JobSound(i)'
    <2>1. SameJob(i)
      BY <1>1 DEF SameJob, At
    <2> QED
      BY <2>1, JobStays DEF JobsInv
  <1> QED
    BY <1>4, <1>5, <1>6 DEF JobsInv

LEMMA CallIs ==
  ASSUME JobsInv, NEW c \in Slots, NEW op, NEW j, NEW new, Request(c, op, j, new)
  PROVE  calls'[c] = [op |-> op, job |-> j, read |-> files[j], new |-> new]
  BY DEF Request, JobsInv, JobsTyped

LEMMA Schedules ==
  ASSUME JobsInv, NEW c \in Slots, NEW j \in Jobs, NEW kind \in Kinds, NEW retries \in Retries,
         NEW runAt \in clock .. clock + 1, Schedule(c, j, kind, retries, runAt)
  PROVE  JobsInv'
  <1> DEFINE next == CASE kind = "interval" -> clock + Interval
                       [] kind = "cron" -> Min(Matches(clock))
                       [] OTHER -> runAt
             new == NewRecord(kind, retries, next)
  <1>1. /\ Fresh(j) /\ (kind = "cron" => Matches(clock) # {})
        /\ Request(c, "schedule", j, new)
        /\ UNCHANGED <<files, clock, scan, history, failures, plan>>
    BY DEF Schedule
  <1>2. clock \in Nat /\ runAt \in Nat /\ retries \in Nat
    BY BoundsAssumption DEF JobsInv, JobsTyped
  <1>3. kind = "cron" => Min(Matches(clock)) \in Nat
    <2>1. Matches(clock) \in SUBSET Nat
      BY TimesAssumption DEF Matches
    <2> QED
      BY <1>1, <2>1, MinIs
  <1>4. next \in Nat
    BY <1>2, <1>3, TimesAssumption DEF Kinds
  <1> HIDE DEF next
  <1>5. new \in SoundRecords /\ new \in Records /\ new.runCount = 0 /\ new.dispatchAt = Unset
    BY <1>2, <1>4, NewRecordIs, RecordIs
  <1> HIDE DEF new
  <1>6. calls'[c] = [op |-> "schedule", job |-> j, read |-> files[j], new |-> new]
    BY <1>1, CallIs
  <1>7. /\ files[j] = None /\ dispatches[j] = <<>> /\ scan.batch[j] = None
        /\ \A d \in Slots : calls[d].job # j
    BY <1>1 DEF Fresh, JobsInv, JobSound, BatchSound
  <1>8. \A d \in Slots \ {c} : calls'[d] = calls[d]
    BY <1>1 DEF Request, JobsInv, JobsTyped
  <1>9. CallSound(c)'
    <2>1. /\ calls'[c].op = "schedule" /\ calls'[c].job = j /\ calls'[c].new = new
          /\ calls'[c].read = None /\ calls'[c] # NoCall
      BY <1>6, <1>7 DEF NoCall
    <2>2. files' = files /\ dispatches' = dispatches /\ scan' = scan
      BY <1>1 DEF history
    <2> QED
      BY <1>5, <1>7, <1>8, <2>1, <2>2 DEF CallSound
  <1> QED
    BY <1>1, <1>5, <1>9, RequestStep

LEMMA Acks ==
  ASSUME JobsInv, NEW c \in Slots, NEW j \in Jobs, NEW ok \in BOOLEAN, Ack(c, j, ok)
  PROVE  JobsInv'
  <1> DEFINE applies == files[j] # None /\ files[j].dispatchAt # Unset
             throws == applies /\ ok /\ Exhausted(files[j], clock)
             new == IF ok THEN Success(files[j], clock) ELSE Failure(files[j], clock)
  <1>1. /\ dispatches[j] # <<>>
        /\ UNCHANGED <<files, clock, scan, dispatches, open, cancelled, lost, retried, failures, plan>>
        /\ IF applies /\ ~throws THEN Request(c, "ack", j, new)
           ELSE requests' = requests + 1 /\ calls' = calls
    BY DEF Ack, history
  <1>2. CASE applies /\ ~throws
    <2>1. files[j] \in SoundRecords /\ files[j] \in Records /\ files[j].retries > 0
          /\ files[j].status = "active" /\ clock \in Nat
      BY <1>2, FilesIs, RecordIs
    <2>2. new = None \/ Keeps(files[j], new)
      BY <1>2, <2>1, SuccessIs, FailureIs DEF Keeps
    <2> HIDE DEF new
    <2>3. new \in Records \cup {None}
      BY <2>2, RecordIs DEF Keeps
    <2>4. /\ Request(c, "ack", j, new) /\ files[j] # None
          /\ UNCHANGED <<files, clock, scan, history, failures, plan>>
      BY <1>1, <1>2 DEF history
    <2>5. calls'[c] = [op |-> "ack", job |-> j, read |-> files[j], new |-> new]
      BY <2>4, CallIs
    <2>6. CallSound(c)'
      BY <1>1, <2>1, <2>2, <2>5 DEF CallSound, NoCall
    <2> QED
      BY <2>3, <2>4, <2>6, RequestStep
  <1>3. CASE ~(applies /\ ~throws)
    <2>1. JobsTyped' /\ AtSound'
      BY <1>1, <1>3 DEF JobsInv, JobsTyped, AtSound
    <2>2. \A d \in Slots : CallSound(d)'
      BY <1>1, <1>3, CallsStay
    <2>3. ASSUME NEW i \in Jobs PROVE JobSound(i)'
      <3>1. SameJob(i)
        BY <1>1 DEF SameJob, At
      <3> QED
        BY <3>1, JobStays DEF JobsInv
    <2> QED
      BY <2>1, <2>2, <2>3 DEF JobsInv
  <1> QED
    BY <1>2, <1>3

LEMMA Retried ==
  ASSUME JobsInv, NEW c \in Slots, NEW j \in Jobs, Retry(c, j)
  PROVE  JobsInv'
  <1> DEFINE new == Reenqueued(files[j], clock)
  <1>1. /\ files[j] # None /\ Request(c, "retry", j, new)
        /\ UNCHANGED <<files, clock, scan, history, failures, plan>>
    BY DEF Retry
  <1>2. Keeps(files[j], new)
    BY <1>1, FilesIs, ReenqueuedIs
  <1> HIDE DEF new
  <1>3. calls'[c] = [op |-> "retry", job |-> j, read |-> files[j], new |-> new]
    BY <1>1, CallIs
  <1>4. CallSound(c)'
    BY <1>2, <1>3 DEF CallSound, NoCall
  <1> QED
    BY <1>1, <1>2, <1>4, RequestStep DEF Keeps, SoundRecords

LEMMA Cancels ==
  ASSUME JobsInv, NEW c \in Slots, NEW j \in Jobs, Cancel(c, j)
  PROVE  JobsInv'
  <1>1. /\ files[j] # None /\ Request(c, "cancel", j, None)
        /\ UNCHANGED <<files, clock, scan, history, failures, plan>>
    BY DEF Cancel
  <1>2. calls'[c] = [op |-> "cancel", job |-> j, read |-> files[j], new |-> None]
    BY <1>1, CallIs
  <1>3. CallSound(c)'
    BY <1>2 DEF CallSound, NoCall
  <1> QED
    BY <1>1, <1>3, RequestStep

\* What a request that ends leaves of its job.
LEMMA FinishedJob ==
  ASSUME JobsInv, NEW c \in Slots, Finish(c), NEW j, j = calls[c].job
  PROVE  j \in Jobs /\ files'[j] \in SoundRecords \cup {None} /\ JobSound(j)'
  <1> DEFINE call == calls[c]
  <1>1. /\ call # NoCall
        /\ UNCHANGED <<clock, scan, dispatches, requests, failures, plan>>
        /\ IF call.op = "cancel" THEN files' = [files EXCEPT ![j] = None] /\ lost' = lost
           ELSE Write(j, call.read, call.new)
        /\ open' = IF call.op = "schedule" THEN open ELSE [open EXCEPT ![j] = 0]
        /\ cancelled' = IF call.op = "cancel" THEN cancelled \cup {j} ELSE cancelled
        /\ retried' = IF call.op = "retry" THEN retried \cup {j} ELSE retried
    BY DEF Finish, budgets
  <1>2. CallSound(c) /\ call \in Calls
    BY DEF JobsInv, JobsTyped
  <1>3. j \in Jobs /\ call.op \in {"schedule", "ack", "retry", "cancel"}
    BY <1>1, <1>2 DEF CallSound, Calls
  <1>4. BatchSound(j) /\ Counted(j) /\ Spaced(j) /\ Visible(j) /\ AtSound
    BY <1>3 DEF JobsInv, JobSound
  <1>5. /\ call.op # "schedule" => open'[j] = 0
        /\ At("publish", j)' <=> At("publish", j)
        /\ At("advance", j)' <=> At("advance", j)
    BY <1>1, <1>3 DEF JobsInv, JobsTyped, At
  <1>6. CASE call.op = "cancel"
    <2>1. files'[j] = None /\ j \in cancelled'
      BY <1>1, <1>3, <1>6 DEF JobsInv, JobsTyped
    <2> QED
      BY <1>1, <1>3, <1>4, <1>5, <1>6, <2>1
      DEF JobSound, BatchSound, Counted, Spaced, Plain, Visible
  <1>7. ASSUME call.op # "cancel", call.new \in SoundRecords \cup {None}
        PROVE  /\ files'[j] = call.new /\ lost \subseteq lost'
               /\ j \notin lost' => j \notin lost /\ files[j] = call.read
    BY <1>1, <1>3, <1>7 DEF JobsInv, JobsTyped, Write
  <1>8. CASE call.op = "schedule"
    <2>1. /\ call.read = None /\ call.new \in SoundRecords /\ call.new # None
          /\ call.new.runCount = 0 /\ files[j] = None
          /\ dispatches[j] = <<>> /\ scan.batch[j] = None
      BY <1>2, <1>8, RecordIs DEF CallSound
    <2>2. files'[j] = call.new /\ lost \subseteq lost' /\ open' = open
      BY <1>1, <1>7, <1>8, <2>1
    <2>3. ~At("publish", j) /\ ~At("advance", j)
      BY <1>4, <2>1 DEF AtSound, At
    <2>4. Len(dispatches'[j]) = 0 /\ dispatches'[j] = <<>>
      BY <1>1, <2>1
    <2>5. BatchSound(j)' /\ Visible(j)'
      BY <1>1, <1>4, <2>1, <2>2 DEF BatchSound, Visible
    <2>6. Counted(j)'
      BY <1>1, <1>5, <2>1, <2>2, <2>3, <2>4 DEF Counted
    <2>7. Spaced(j)'
      BY <1>5, <2>3, <2>4 DEF Spaced
    <2> QED
      BY <1>3, <2>1, <2>2, <2>5, <2>6, <2>7 DEF JobSound
  <1>9. CASE call.op \in {"ack", "retry"} /\ call.new = None
    <2>1. call.op = "ack" /\ dispatches[j] # <<>>
      BY <1>2, <1>9, RecordIs DEF CallSound, Keeps
    <2>2. files'[j] = None /\ open'[j] = 0
      BY <1>5, <1>7, <1>9
    <2> QED
      BY <1>1, <1>3, <1>4, <2>1, <2>2
      DEF JobSound, BatchSound, Counted, Spaced, Plain, Visible
  <1>10. CASE call.op \in {"ack", "retry"} /\ call.new # None
    <2>1. Keeps(call.read, call.new) /\ (call.op = "ack" => call.read.retries > 0)
      BY <1>2, <1>10 DEF CallSound
    <2>2. /\ files'[j] = call.new /\ lost \subseteq lost' /\ files'[j] # None
          /\ j \notin lost' => /\ j \notin lost /\ files[j] # None
                               /\ files'[j].retries = files[j].retries
                               /\ files'[j].runCount = files[j].runCount
      BY <1>7, <1>10, <2>1, RecordAssumption DEF Keeps
    <2>3. /\ call.op = "ack" => AckBased(files'[j])
          /\ call.op = "retry" => j \in retried'
      BY <1>1, <2>1, <2>2 DEF Keeps, AckBased
    <2>4. AckBased(files'[j]) \/ j \in retried'
      BY <1>10, <2>3
    <2>5. BatchSound(j)'
      BY <1>1, <1>4, <2>2, <2>4 DEF BatchSound
    <2>6. Counted(j)'
      BY <1>1, <1>4, <1>5, <2>2 DEF Counted, AckBased
    <2>7. Spaced(j)' /\ Visible(j)'
      BY <1>5, <1>10, <2>4 DEF Spaced, Plain, Visible
    <2> QED
      BY <1>3, <1>7, <1>10, <2>1, <2>5, <2>6, <2>7 DEF JobSound, Keeps
  <1> QED
    BY <1>3, <1>6, <1>8, <1>9, <1>10

LEMMA Finishes ==
  ASSUME JobsInv, NEW c \in Slots, Finish(c)
  PROVE  JobsInv'
  <1> PICK j : j = calls[c].job
    OBVIOUS
  <1> DEFINE call == calls[c]
  <1>1. /\ calls' = [calls EXCEPT ![c] = NoCall] /\ call # NoCall
        /\ UNCHANGED <<clock, scan, dispatches, requests, failures, plan>>
        /\ IF call.op = "cancel" THEN files' = [files EXCEPT ![j] = None] /\ lost' = lost
           ELSE Write(j, call.read, call.new)
        /\ open' = IF call.op = "schedule" THEN open ELSE [open EXCEPT ![j] = 0]
        /\ cancelled' = IF call.op = "cancel" THEN cancelled \cup {j} ELSE cancelled
        /\ retried' = IF call.op = "retry" THEN retried \cup {j} ELSE retried
    BY DEF Finish, budgets
  <1>2. j \in Jobs /\ files'[j] \in SoundRecords \cup {None} /\ JobSound(j)'
    BY FinishedJob
  <1>3. /\ files \in [Jobs -> SoundRecords \cup {None}] /\ open \in [Jobs -> Nat]
        /\ cancelled \subseteq Jobs /\ lost \subseteq Jobs /\ retried \subseteq Jobs
        /\ calls \in [Slots -> Calls] /\ NoCall \in Calls
    BY DEF JobsInv, JobsTyped, Calls, NoCall
  <1>4. /\ files' \in [Jobs -> SoundRecords \cup {None}]
        /\ \A i \in Jobs \ {j} : files'[i] = files[i]
    BY <1>1, <1>2, <1>3 DEF Write
  <1>5. /\ lost' \subseteq Jobs
        /\ \A i \in Jobs \ {j} : i \in lost' <=> i \in lost
    BY <1>1, <1>2, <1>3 DEF Write
  <1>6. /\ open' \in [Jobs -> Nat] /\ cancelled' \subseteq Jobs /\ retried' \subseteq Jobs
        /\ \A i \in Jobs \ {j} : /\ open'[i] = open[i]
                                 /\ i \in cancelled' <=> i \in cancelled
                                 /\ i \in retried' <=> i \in retried
    BY <1>1, <1>2, <1>3
  <1>7. calls' \in [Slots -> Calls] /\ calls'[c] = NoCall /\ \A d \in Slots \ {c} : calls'[d] = calls[d]
    BY <1>1, <1>3
  <1>8. JobsTyped' /\ AtSound'
    BY <1>1, <1>4, <1>5, <1>6, <1>7 DEF JobsInv, JobsTyped, AtSound
  <1>9. ASSUME NEW d \in Slots PROVE CallSound(d)'
    <2>1. CASE d = c
      BY <1>7, <2>1 DEF CallSound, NoCall
    <2>2. CASE d # c
      <3>1. CallSound(d) /\ calls'[d] = calls[d]
        BY <1>7, <2>2 DEF JobsInv
      <3>2. calls[d].op = "schedule" =>
              /\ calls[d].job \in Jobs \ {j}
              /\ \A e \in Slots \ {d} : calls[e].job # calls[d].job
        BY <2>2, <3>1 DEF CallSound
      <3>3. calls[d].op = "schedule" => NoCall.job # calls[d].job
        BY <3>2, NoneAssumption DEF NoCall
      <3>4. calls[d].op = "schedule" =>
              /\ files'[calls[d].job] = files[calls[d].job]
              /\ \A e \in Slots \ {d} : calls'[e].job # calls[d].job
        BY <1>4, <1>7, <3>2, <3>3
      <3> QED
        BY <1>1, <3>1, <3>4 DEF CallSound
    <2> QED
      BY <2>1, <2>2
  <1>10. ASSUME NEW i \in Jobs, i # j PROVE JobSound(i)'
    <2>1. SameJob(i)
      BY <1>1, <1>4, <1>5, <1>6, <1>10 DEF SameJob, At
    <2> QED
      BY <2>1, JobStays DEF JobsInv
  <1> QED
    BY <1>2, <1>8, <1>9, <1>10 DEF JobsInv

-----------------------------------------------------------------------------
(* The invariant, and what it says.                                        *)

LEMMA NextJobs == JobsInv /\ [Next]_vars => JobsInv'
  <1> SUFFICES ASSUME JobsInv, [Next]_vars PROVE JobsInv'
    OBVIOUS
  <1>1. CASE Tick
    <2>1. clock' \in Nat
      BY <1>1 DEF Tick, JobsInv, JobsTyped
    <2> QED
      BY <1>1, <2>1, NothingMoves DEF Tick, history, budgets
  <1>2. CASE Scan
    BY <1>2, ScanBegins, ScanReads, ScanStops, TimesOut, Marks, PublishesHeld, Publishes,
       Advances DEF Scan
  <1>3. ASSUME NEW c \in Slots, Arrives(c) \/ Finish(c) PROVE JobsInv'
    BY <1>3, Schedules, Acks, Retried, Cancels, Finishes DEF Arrives
  <1>4. CASE ScanFails \/ Restart
    BY <1>4, ScanStops
  <1>5. CASE UNCHANGED vars
    <2>1. clock' \in Nat
      BY <1>5 DEF vars, JobsInv, JobsTyped
    <2> QED
      BY <1>5, <2>1, NothingMoves DEF vars
  <1> QED
    BY <1>1, <1>2, <1>3, <1>4, <1>5 DEF Next

LEMMA InvJobs == JobsInv => JobsSound
  <1> SUFFICES ASSUME JobsInv PROVE JobsSound
    OBVIOUS
  <1>1. SoundRecords \subseteq Records
    BY DEF SoundRecords
  <1>2. TypeOK
    <2>1. files \in [Jobs -> Records \cup {None}] /\ calls \in [Slots -> Calls]
      BY <1>1 DEF JobsInv, JobsTyped
    <2>2. scan \in [pc : {"idle", "read", "loop", "publish", "advance"}, time : Nat,
                    batch : [Jobs -> Records \cup {None}], job : Jobs \cup {None}]
      BY <1>1 DEF JobsInv, JobsTyped, ScanRecs
    <2> QED
      BY <2>1, <2>2 DEF JobsInv, JobsTyped, TypeOK, Calls
  <1>3. DlqSound
    BY FilesIs, RecordIs DEF DlqSound, AckBased
  <1>4. InFlightVisible
    BY DEF JobsInv, JobSound, Visible, InFlightVisible
  <1>5. NoBurst
    <2> SUFFICES ASSUME NEW j \in Jobs, Plain(j)
                 PROVE  /\ files[j].kind = "interval" =>
                             \A n \in 1 .. Len(dispatches[j]) - 1 :
                               dispatches[j][n + 1] >= dispatches[j][n] + Interval
                        /\ files[j].kind = "once" => Len(dispatches[j]) <= 1
      BY DEF NoBurst
    <2> QED
      BY DEF JobsInv, JobSound, Spaced
  <1> QED
    BY <1>2, <1>3, <1>4, <1>5 DEF JobsSound

\* The record of a job, whatever the scan and the requests do in whichever order
\* (scanOnce, recordFailure, ack, retry, cancel): it is in the DLQ exactly when its
\* failures exceed its budget; a dispatch without an answer is in flight in the file
\* and counted, unless an update was lost; runs do not burst.
THEOREM JobsAreSound == Spec => []JobsSound
  <1>1. Spec => []JobsInv
    BY InitJobs, NextJobs, PTL DEF Spec
  <1> QED
    BY <1>1, InvJobs, PTL

LEMMA HeldStep ==
  JobsInv /\ Next =>
    \A j \in Jobs : /\ files[j] # None /\ files'[j] # None
                    /\ files'[j].runCount > files[j].runCount
                    /\ j \notin lost'
                    => open[j] = 0
  <1> SUFFICES ASSUME JobsInv, Next, NEW j \in Jobs, files[j] # None, files'[j] # None,
                      files'[j].runCount > files[j].runCount, j \notin lost'
               PROVE  open[j] = 0
    OBVIOUS
  <1>1. files[j] \in SoundRecords /\ files[j].runCount \in Nat /\ Visible(j)
    BY FilesIs, RecordIs DEF JobsInv, JobSound
  <1>2. files'[j] # files[j] /\ files'[j].runCount # files[j].runCount
    BY <1>1
  <1>3. ASSUME NEW i \in Jobs, ScanTimeout(i) PROVE FALSE
    <2> DEFINE r == scan.batch[i]
    <2>1. r # None /\ Write(i, r, Failure(r, scan.time))
      BY <1>3 DEF ScanTimeout
    <2>2. /\ Failure(r, scan.time) \in SoundRecords
          /\ Failure(r, scan.time).runCount = r.runCount
      BY <2>1, BatchIs, FailureIs
    <2>3. /\ files'[i] = Failure(r, scan.time)
          /\ \A k \in Jobs \ {i} : files'[k] = files[k]
          /\ i \notin lost' => files[i] = r
      BY <2>1, <2>2, WriteIs
    <2> QED
      BY <1>2, <2>2, <2>3
  <1>4. ASSUME NEW i \in Jobs, ScanMark(i) PROVE open[j] = 0
    <2> DEFINE r == scan.batch[i]
    <2>1. r # None /\ AckBased(r) /\ ~TimedOut(r, scan.time) /\ Write(i, r, Marked(r, scan.time))
      BY <1>4 DEF ScanMark
    <2>2. Marked(r, scan.time) \in SoundRecords /\ r.dispatchAt = Unset
      BY <2>1, BatchIs, MarkedIs DEF Handled, Due
    <2>3. /\ \A k \in Jobs \ {i} : files'[k] = files[k]
          /\ i \notin lost' => files[i] = r /\ i \notin lost
      BY <2>1, <2>2, WriteIs
    <2> QED
      BY <1>1, <1>2, <2>2, <2>3 DEF Visible
  <1>5. ASSUME NEW i \in Jobs, ScanAdvance(i) PROVE open[j] = 0
    <2> DEFINE r == scan.batch[i]
    <2>1. /\ scan.pc = "advance" /\ scan.job = i /\ ~Exhausted(r, scan.time)
          /\ Write(i, r, Advanced(r, scan.time))
      BY <1>5 DEF ScanAdvance, InScan
    <2>2. r # None /\ ~AckBased(r)
      BY <2>1 DEF JobsInv, AtSound
    <2>3. Advanced(r, scan.time) \in SoundRecords \cup {None} /\ r.dispatchAt = Unset
      BY <2>1, <2>2, BatchIs, RecordIs, AdvancedIs DEF AckBased
    <2>4. /\ \A k \in Jobs \ {i} : files'[k] = files[k]
          /\ i \notin lost' => files[i] = r /\ i \notin lost
      BY <2>1, <2>3, WriteIs
    <2> QED
      BY <1>1, <1>2, <2>3, <2>4 DEF Visible
  <1>6. ASSUME NEW c \in Slots, Finish(c) PROVE FALSE
    <2> DEFINE call == calls[c]
               i == call.job
    <2>1. /\ call # NoCall
          /\ IF call.op = "cancel" THEN files' = [files EXCEPT ![i] = None]
             ELSE Write(i, call.read, call.new)
      BY <1>6 DEF Finish
    <2>2. CallSound(c) /\ call \in Calls /\ i \in Jobs /\ files \in [Jobs -> SoundRecords \cup {None}]
      BY <1>6, FinishedJob DEF JobsInv, JobsTyped
    <2>3. i = j
      BY <1>2, <2>1, <2>2 DEF Write
    <2>4. /\ call.op # "cancel" /\ files'[j] = call.new /\ files[j] = call.read
      BY <2>1, <2>2, <2>3 DEF Write
    <2>5. call.op \in {"schedule", "ack", "retry"}
      BY <2>1, <2>2, <2>4 DEF CallSound, Calls
    <2> QED
      BY <1>2, <2>2, <2>4, <2>5 DEF CallSound, Keeps
  <1>7. ASSUME files' = files PROVE FALSE
    BY <1>2, <1>7
  <1> QED
    BY <1>3, <1>4, <1>5, <1>6, <1>7
    DEF Next, Tick, Scan, ScanBegin, ScanRead, ScanEnd, ScanPublishHeld, ScanPublish,
        ScanThrows, Arrives, Schedule, Ack, Retry, Cancel, ScanFails, Restart

\* "The dispatch is held until ack" (pluginJobs.ts, scanOnce): no second dispatch of
\* a job is counted while the first has no answer, unless an update was lost.
THEOREM DispatchesAreHeld == Spec => HeldUntilAck
  <1>1. Spec => []JobsInv
    BY InitJobs, NextJobs, PTL DEF Spec
  <1>2. JobsInv /\ [Next]_vars =>
          [\A j \in Jobs : /\ files[j] # None /\ files'[j] # None
                           /\ files'[j].runCount > files[j].runCount
                           /\ j \notin lost'
                           => open[j] = 0]_vars
    BY HeldStep
  <1> QED
    BY <1>1, <1>2, PTL DEF Spec, HeldUntilAck
=============================================================================
