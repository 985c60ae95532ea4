----------------------------- MODULE PluginJobs -----------------------------
(***************************************************************************)
(* Background jobs of a plugin (apps/server/src/plugins/pluginJobs.ts).    *)
(*                                                                         *)
(* A job is one JSON file.  A scan runs every second: it reads the files,  *)
(* and then, one job after the other, publishes `plugin.job.due` and       *)
(* writes the file.  Requests (schedule, ack, retry, cancel) read a file   *)
(* and write it.  Every read and every write is an await: the event loop   *)
(* runs other requests, and the scan, in between.  Nothing locks a file.   *)
(*                                                                         *)
(* Jobs meet in the quota, and in the scan that handles them in turn.  The *)
(* module has one plugin.                                                  *)
(***************************************************************************)
EXTENDS Integers, Sequences, FiniteSets, FiniteSetsExt

CONSTANTS
    Jobs,           \* ids that randomToken can return
    MaxInFlight,    \* bound: requests in progress together
    None,           \* no file
    MaxJobs,        \* MAX_JOBS_PER_PLUGIN; 100 in the code
    Retries,        \* retry budgets that plugins ask for
    RetryDelay,     \* retryDelayMs, in seconds
    MaxRetryDelay,  \* MAX_RETRY_DELAY_MS
    Interval,       \* intervalMs of the interval jobs
    CronTimes,      \* the times the cron expression matches
    AckTimeout,     \* DEFAULT_ACK_TIMEOUT_MS
    Plans,          \* bounds: how far the clock goes in a behaviour, with how many
                    \* requests and how many dispatches of one job
    MaxFailures     \* bound: restarts of the server and failing scans

ASSUME NoneAssumption == None \notin Jobs
ASSUME TimesAssumption ==
    /\ RetryDelay \in Nat \ {0} /\ MaxRetryDelay \in Nat
    /\ Interval \in Nat \ {0} /\ AckTimeout \in Nat \ {0}
    /\ CronTimes \subseteq Nat /\ IsFiniteSet(CronTimes)
ASSUME BoundsAssumption ==
    /\ MaxJobs \in Nat /\ Retries \subseteq Nat
    /\ Plans \subseteq [time : Nat, requests : Nat, dispatches : Nat]
    /\ MaxInFlight \in Nat /\ MaxFailures \in Nat

VARIABLES
    files,       \* durable: per id the job's record, or None
    clock,       \* now(), in seconds
    scan,        \* the scan in progress: position, time, records read, job
    calls,       \* per slot: the request that has read and will write
    dispatches,  \* history: per job the times of the events published
    open,        \* history: per job the marked dispatch that has no ack yet, or 0
    cancelled,   \* history: jobs whose cancel or DELETE has returned
    lost,        \* history: jobs with an update overwritten by an older read, or
                 \* whose scan ended between the event and the write
    retried,     \* history: jobs that retry() has re-enqueued
    plan,        \* the member of Plans
    requests, failures  \* what the bounds have used up

history == <<dispatches, open, cancelled, lost, retried>>
budgets == <<requests, failures, plan>>
vars == <<files, clock, scan, calls, dispatches, open, cancelled, lost,
          retried, requests, failures, plan>>

-----------------------------------------------------------------------------
(* Records.                                                                *)

Unset == -1   \* an optional time that is absent

Kinds == {"once", "interval", "cron"}
Records == [kind : Kinds, retries : Nat, status : {"active", "failed"},
            attempts : Nat, runCount : Nat, nextRunAt : Nat,
            nextRetryAt : Nat \cup {Unset}, dispatchAt : Nat \cup {Unset}]

ASSUME RecordAssumption == None \notin Records

AckBased(job) == job.retries > 0

\* nextCronAfter: strictly later; no match within five years is an error.
Matches(time) == {t \in CronTimes : t > time}
\* An interval counts from the run that was due or from now, whichever is later.
NextRun_CatchUp(job, time) ==
    IF job.kind = "interval" THEN job.nextRunAt + Interval ELSE Min(Matches(time))
NextRun(job, time) ==
    IF job.kind = "interval"
    THEN (IF job.nextRunAt > time THEN job.nextRunAt ELSE time) + Interval
    ELSE Min(Matches(time))
\* The schedule of a cron job has run out: nextCronAfter throws.
Exhausted(job, time) == job.kind = "cron" /\ Matches(time) = {}

Backoff(attempt) ==
    LET delay == RetryDelay * 2 ^ (attempt - 1)
    IN  IF delay \in 0 .. MaxRetryDelay THEN delay ELSE MaxRetryDelay

\* recordFailure: another try after a backoff, or the DLQ.
Failure_OneMore(job, time) ==
    LET attempts == job.attempts + 1
        held == [job EXCEPT !.attempts = attempts, !.dispatchAt = Unset]
    IN  IF attempts > job.retries + 1
        THEN [held EXCEPT !.status = "failed", !.nextRetryAt = Unset]
        ELSE [held EXCEPT !.nextRetryAt = time + Backoff(attempts)]
Failure(job, time) ==
    LET attempts == job.attempts + 1
        held == [job EXCEPT !.attempts = attempts, !.dispatchAt = Unset]
    IN  IF attempts > job.retries
        THEN [held EXCEPT !.status = "failed", !.nextRetryAt = Unset]
        ELSE [held EXCEPT !.nextRetryAt = time + Backoff(attempts)]

\* recordSuccess: a one-shot is removed, other jobs wait for their next run.
Success(job, time) ==
    IF job.kind = "once" THEN None
    ELSE [job EXCEPT !.attempts = 0, !.dispatchAt = Unset,
                     !.nextRetryAt = Unset, !.nextRunAt = NextRun(job, time)]

\* retry: active again, and due.
Reenqueued(job, time) ==
    [job EXCEPT !.status = "active", !.attempts = 0, !.dispatchAt = Unset,
                !.nextRetryAt = Unset, !.nextRunAt = time]

\* The in-flight marker that the scan persists before it publishes.
Marked(job, time) ==
    [job EXCEPT !.runCount = job.runCount + 1, !.dispatchAt = time]

\* After a fire-and-forget dispatch.
Advanced(job, time) ==
    IF job.kind = "once" THEN None
    ELSE [job EXCEPT !.runCount = job.runCount + 1,
                     !.nextRunAt = NextRun(job, time)]

\* A new file content over the one that was read.
Write(j, read, new) ==
    /\ files' = [files EXCEPT ![j] = new]
    /\ lost' = IF files[j] # read THEN lost \cup {j} ELSE lost

-----------------------------------------------------------------------------

NoScan == [pc |-> "idle", time |-> 0, batch |-> [j \in Jobs |-> None],
           job |-> None]
Slots == 1 .. MaxInFlight
NoCall == [op |-> "none", job |-> None, read |-> None, new |-> None]

Init ==
    /\ files = [j \in Jobs |-> None]
    /\ clock = 0
    /\ scan = NoScan
    /\ calls = [c \in Slots |-> NoCall]
    /\ dispatches = [j \in Jobs |-> <<>>]
    /\ open = [j \in Jobs |-> 0]
    /\ cancelled = {}
    /\ lost = {}
    /\ retried = {}
    /\ plan \in Plans
    /\ requests = 0
    /\ failures = 0

Tick ==
    /\ clock < plan.time
    /\ clock' = clock + 1
    /\ UNCHANGED <<files, scan, calls, history, budgets>>

-----------------------------------------------------------------------------
(* The scan.  `scanning` keeps a second one from starting.                 *)

InScan(pc) == scan.pc = pc

ScanBegin ==
    /\ InScan("idle")
    /\ scan' = [scan EXCEPT !.pc = "read", !.time = clock]
    /\ UNCHANGED <<files, clock, calls, history, budgets>>

TimedOut_NotAsked(job, time) == FALSE
TimedOut(job, time) ==
    job.dispatchAt # Unset /\ job.dispatchAt + AckTimeout <= time
Due(job, time) ==
    /\ job.dispatchAt = Unset
    /\ job.nextRetryAt <= time
    /\ job.nextRunAt <= time
\* The records that the loop does not `continue` over.
Handled(job, time) ==
    /\ job # None
    /\ job.status = "active"
    /\ TimedOut(job, time) \/ Due(job, time)

\* readDir reads every record before the loop handles the first.
Bounded(j) == Len(dispatches[j]) < plan.dispatches
ScanRead ==
    /\ InScan("read")
    /\ scan' = [scan EXCEPT !.pc = "loop", !.batch =
                  [j \in Jobs |->
                     IF /\ Handled(files[j], scan.time)
                        /\ Due(files[j], scan.time) => Bounded(j)
                     THEN files[j] ELSE None]]
    /\ UNCHANGED <<files, clock, calls, history, budgets>>

\* `continue`: on to the next record of the batch.
Continue(j) == [scan EXCEPT !.pc = "loop", !.job = None, !.batch[j] = None]

\* A missing ack counts as a failed attempt.
ScanTimeout(j) ==
    /\ InScan("loop")
    /\ scan.batch[j] # None
    /\ TimedOut(scan.batch[j], scan.time)
    /\ Write(j, scan.batch[j], Failure(scan.batch[j], scan.time))
    /\ open' = [open EXCEPT ![j] = 0]
    /\ scan' = Continue(j)
    /\ UNCHANGED <<clock, calls, dispatches, cancelled, retried, budgets>>

ScanMark(j) ==
    /\ InScan("loop")
    /\ scan.batch[j] # None
    /\ AckBased(scan.batch[j]) /\ ~TimedOut(scan.batch[j], scan.time)
    /\ Write(j, scan.batch[j], Marked(scan.batch[j], scan.time))
    /\ open' = [open EXCEPT ![j] = Len(dispatches[j]) + 1]
    /\ scan' = [scan EXCEPT !.pc = "publish", !.job = j]
    /\ UNCHANGED <<clock, calls, dispatches, cancelled, retried, budgets>>

Published(j) ==
    dispatches' = [dispatches EXCEPT ![j] =
                     Append(@, scan.time)]

\* events.emit for a job whose marker is on disk: it is held until its ack.
ScanPublishHeld(j) ==
    /\ InScan("publish") /\ scan.job = j
    /\ Published(j)
    /\ scan' = Continue(j)
    /\ UNCHANGED <<files, clock, calls, open, cancelled, lost, retried, budgets>>

\* events.emit for a fire-and-forget job, and the write that follows.
ScanPublish(j) ==
    /\ InScan("loop")
    /\ scan.batch[j] # None
    /\ ~AckBased(scan.batch[j])
    /\ Published(j)
    /\ scan' = [scan EXCEPT !.pc = "advance", !.job = j]
    /\ UNCHANGED <<files, clock, calls, open, cancelled, lost, retried, budgets>>

ScanAdvance(j) ==
    /\ InScan("advance") /\ scan.job = j
    /\ ~Exhausted(scan.batch[j], scan.time)
    /\ Write(j, scan.batch[j], Advanced(scan.batch[j], scan.time))
    /\ scan' = Continue(j)
    /\ UNCHANGED <<clock, calls, dispatches, open, cancelled, retried, budgets>>

\* nextCronAfter throws out of the scan; `finally` clears `scanning`.
ScanThrows(j) ==
    /\ InScan("advance") /\ scan.job = j
    /\ Exhausted(scan.batch[j], scan.time)
    /\ scan' = NoScan
    /\ UNCHANGED <<files, clock, calls, history, budgets>>

ScanEnd ==
    /\ InScan("loop")
    /\ \A j \in Jobs : scan.batch[j] = None
    /\ scan' = NoScan
    /\ UNCHANGED <<files, clock, calls, history, budgets>>

\* The write that follows an event did not happen.
Unwritten ==
    lost' = IF InScan("advance") THEN lost \cup {scan.job} ELSE lost

\* A file operation of the scan fails: the rest waits for the next scan.
ScanFails_NoFinally ==
    /\ ~InScan("idle")
    /\ failures < MaxFailures
    /\ failures' = failures + 1
    /\ Unwritten
    /\ scan' = [NoScan EXCEPT !.pc = "scanning"]
    /\ UNCHANGED <<files, clock, calls, dispatches, open, cancelled, retried, requests, plan>>
ScanFails ==
    /\ ~InScan("idle")
    /\ failures < MaxFailures
    /\ failures' = failures + 1
    /\ Unwritten
    /\ scan' = NoScan
    /\ UNCHANGED <<files, clock, calls, dispatches, open, cancelled, retried, requests, plan>>

-----------------------------------------------------------------------------
(* Requests: read, then write.                                             *)

\* Requests are interchangeable: one takes the first slot that is free.
Idle(c) == /\ calls[c] = NoCall
           /\ \A d \in Slots : d < c => calls[d] # NoCall

Request(c, op, j, new) ==
    /\ requests < plan.requests
    /\ requests' = requests + 1
    /\ calls' = [calls EXCEPT ![c] =
                   [op |-> op, job |-> j, read |-> files[j], new |-> new]]

\* schedule: the quota, then a record under a fresh id.
Fresh(j) == /\ files[j] = None /\ dispatches[j] = <<>> /\ j \notin cancelled
            /\ \A c \in Slots : calls[c].job # j
NewRecord(kind, retries, nextRunAt) ==
    [kind |-> kind, retries |-> retries, status |-> "active", attempts |-> 0,
     runCount |-> 0, nextRunAt |-> nextRunAt, nextRetryAt |-> Unset,
     dispatchAt |-> Unset]

Schedule(c, j, kind, retries, runAt) ==
    /\ Idle(c)
    /\ Fresh(j)
    /\ Cardinality({i \in Jobs : files[i] # None}) < MaxJobs
    /\ kind = "cron" => Matches(clock) # {}
    /\ Request(c, "schedule", j,
         NewRecord(kind, retries,
           CASE kind = "interval" -> clock + Interval
             [] kind = "cron" -> Min(Matches(clock))
             [] OTHER -> runAt))
    /\ UNCHANGED <<files, clock, scan, history, failures, plan>>

\* ack of some dispatch, early, late or again: the request does not name the
\* dispatch.  It applies to the one in flight; with none it is a no-op.
Ack(c, j, ok) ==
    LET applies == files[j] # None /\ files[j].dispatchAt # Unset
        throws == applies /\ ok /\ Exhausted(files[j], clock)
    IN  /\ Idle(c)
        /\ dispatches[j] # <<>>
        /\ IF applies /\ ~throws
           THEN Request(c, "ack", j, IF ok THEN Success(files[j], clock)
                                           ELSE Failure(files[j], clock))
           ELSE /\ requests < plan.requests
                /\ requests' = requests + 1
                /\ UNCHANGED calls
        /\ UNCHANGED <<files, clock, scan, history, failures, plan>>

\* retry does not look at the status: any job is re-enqueued.
Retry(c, j) ==
    /\ Idle(c)
    /\ files[j] # None
    /\ Request(c, "retry", j, Reenqueued(files[j], clock))
    /\ UNCHANGED <<files, clock, scan, history, failures, plan>>

\* cancel and DELETE: NOT_FOUND, or the file goes whatever it holds.
Cancel(c, j) ==
    /\ Idle(c)
    /\ files[j] # None
    /\ Request(c, "cancel", j, None)
    /\ UNCHANGED <<files, clock, scan, history, failures, plan>>

\* writeAtomic or rm, and the reply.
Finish(c) ==
    LET call == calls[c] IN
    /\ call # NoCall
    /\ IF call.op = "cancel"
       THEN files' = [files EXCEPT ![call.job] = None] /\ UNCHANGED lost
       ELSE Write(call.job, call.read, call.new)
    /\ open' = IF call.op = "schedule" THEN open
               ELSE [open EXCEPT ![call.job] = 0]
    /\ cancelled' = IF call.op = "cancel"
                    THEN cancelled \cup {call.job} ELSE cancelled
    /\ retried' = IF call.op = "retry"
                  THEN retried \cup {call.job} ELSE retried
    /\ calls' = [calls EXCEPT ![c] = NoCall]
    /\ UNCHANGED <<clock, scan, dispatches, budgets>>

\* The server stops or is killed, and starts again.
Restart ==
    /\ failures < MaxFailures
    /\ failures' = failures + 1
    /\ Unwritten
    /\ scan' = NoScan
    /\ calls' = [c \in Slots |-> NoCall]
    /\ UNCHANGED <<files, clock, dispatches, open, cancelled, retried, requests, plan>>

-----------------------------------------------------------------------------

Scan ==
    \/ ScanBegin \/ ScanRead \/ ScanEnd
    \/ \E j \in Jobs :
         \/ ScanTimeout(j) \/ ScanMark(j) \/ ScanPublishHeld(j)
         \/ ScanPublish(j) \/ ScanAdvance(j) \/ ScanThrows(j)

Arrives(c) ==
    \E j \in Jobs :
        \/ \E kind \in Kinds, retries \in Retries, runAt \in clock .. clock + 1 :
             Schedule(c, j, kind, retries, runAt)
        \/ \E ok \in BOOLEAN : Ack(c, j, ok)
        \/ Retry(c, j)
        \/ Cancel(c, j)

Next ==
    \/ Tick
    \/ Scan
    \/ \E c \in Slots : Arrives(c) \/ Finish(c)
    \/ ScanFails
    \/ Restart

Spec == Init /\ [][Next]_vars

\* Time passes, the timer starts scans, and file operations complete.
FairSpec == /\ Spec
            /\ WF_vars(Tick)
            /\ WF_vars(Scan)
            /\ WF_vars(\E c \in Slots : Finish(c))

-----------------------------------------------------------------------------

\* Every variable has its type; a record has the fields that JobRecord keeps
\* and parseRecord checks.
TypeOK ==
    /\ files \in [Jobs -> Records \cup {None}]
    /\ clock \in Nat
    /\ scan \in [pc : {"idle", "read", "loop", "publish", "advance"},
                 time : Nat, batch : [Jobs -> Records \cup {None}],
                 job : Jobs \cup {None}]
    /\ calls \in [Slots ->
         [op : {"none", "schedule", "ack", "retry", "cancel"},
          job : Jobs \cup {None}, read : Records \cup {None},
          new : Records \cup {None}]]
    /\ dispatches \in [Jobs -> Seq(Nat)]
    /\ open \in [Jobs -> Nat]
    /\ cancelled \subseteq Jobs /\ lost \subseteq Jobs /\ retried \subseteq Jobs
    /\ plan \in Plans /\ requests \in Nat /\ failures \in Nat

\* recordFailure and retry, under any interleaving: a job is in the DLQ
\* exactly when its failures exceed its budget; in the DLQ it is neither in
\* flight nor waiting for a retry; only a job with a budget is ever held.
DlqSound ==
    \A j \in Jobs : files[j] # None =>
        /\ files[j].status = "failed" <=> files[j].attempts > files[j].retries
        /\ files[j].status = "failed" =>
             files[j].dispatchAt = Unset /\ files[j].nextRetryAt = Unset
        /\ files[j].dispatchAt # Unset => AckBased(files[j])

\* "even a fast ack sees the in-flight state" (adr/0021:20): from the marker
\* of a dispatch to its ack, timeout, retry() or cancel the file says that it
\* is in flight and has counted it, unless an update of the file was lost.
InFlightVisible ==
    \A j \in Jobs : open[j] # 0 /\ j \notin lost =>
        /\ files[j] # None
        /\ files[j].dispatchAt # Unset
        /\ failures = 0 => files[j].runCount = open[j]

\* "the dispatch is held until ack" (rev4-api.md:581): while the answer to a
\* dispatch is out (no ack, timeout, retry() or cancel has been applied) no
\* other dispatch of the job is counted, unless an update of the file was
\* lost.
HeldUntilAck ==
    [][\A j \in Jobs :
         /\ files[j] # None /\ files'[j] # None
         /\ files'[j].runCount > files[j].runCount
         /\ j \notin lost'
         => open[j] = 0]_vars

\* "the next run is exactly one interval after the previous one, no
\* bursting" (rev4-api.md:575): without a retry() or a lost update,
\* dispatches of a fire-and-forget interval job are an interval apart, also
\* when no scan ran for many intervals, and a one-shot has one.
Plain(j) == /\ files[j] # None /\ ~AckBased(files[j])
            /\ j \notin lost \cup retried
NoBurst ==
    \A j \in Jobs : Plain(j) =>
        LET runs == dispatches[j] IN
        /\ files[j].kind = "interval" => \A n \in 1 .. Len(runs) - 1 :
             runs[n + 1] >= runs[n] + Interval
        /\ files[j].kind = "once" => Len(runs) <= 1

\* "A missing ack ... counts as a failed attempt (a sandbox crash does not
\* block the task forever)" (adr/0021:20): a dispatch that is not answered is
\* over some time after its timeout.
Expires(j) == /\ files[j] # None /\ files[j].dispatchAt # Unset
              /\ files[j].dispatchAt + AckTimeout <= plan.time
NoAckNoBlock == \A j \in Jobs : Expires(j) ~> ~Expires(j)

\* scanOnce: a job that falls due before the end of time is published at least
\* once, unless it is cancelled first; a scan that fails or a restart delays
\* it only.
Waits(j) == /\ files[j] # None /\ files[j].status = "active"
            /\ Due(files[j], plan.time) /\ Len(dispatches[j]) = 0
DueIsPublished == \A j \in Jobs : Waits(j) ~> ~Waits(j)

-----------------------------------------------------------------------------
(* What a document says of cancel, and the interleavings do not keep.      *)

\* rev4-api.md:597: "`api.jobs.cancel(jobId)` removes the job from any state".
CancelSticks == \A j \in cancelled : files[j] = None

\* The record of a job, in one: the DLQ, the in-flight marker and the spacing
\* of runs, under any interleaving of scans and requests.
JobsSound == TypeOK /\ DlqSound /\ InFlightVisible /\ NoBurst

\* An ack-based dispatch, in one: held until its answer, and not for ever.
DispatchHeld == HeldUntilAck /\ NoAckNoBlock
=============================================================================
