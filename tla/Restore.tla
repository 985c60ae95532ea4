------------------------------- MODULE Restore -------------------------------
(***************************************************************************)
(* Opening a data root and restoring a backup into it                      *)
(* (crates/storage/src/open.rs, lease.rs, restore.rs and backup.rs).       *)
(*                                                                         *)
(* A restore stages a candidate directory beside the root, checks it by    *)
(* opening it like any data root, and activates it: pending marker, root   *)
(* moved to a `previous` directory, candidate renamed to the root, marker  *)
(* removed.  Every open completes or discards an activation that a kill    *)
(* interrupted.  One action is one change of the file system, with the     *)
(* reads before it; a process may be killed between any two.               *)
(***************************************************************************)
EXTENDS Integers, Sequences, FiniteSets

CONSTANTS
    Procs,       \* processes of the host
    Containers,  \* ids of backup containers
    Taken,       \* those the root holds at the start
    Original,    \* the database of the root at the start
    Fresh,       \* the database that fresh_install creates
    Absent,        \* no directory, no database, no marker, no process
    MaxBackups,  \* containers one root may hold; 16 in the code
    Hosts,       \* the hosts considered: what each does beyond opening after
                 \*   each restore, and how many kills and restores it meets
    MaxFaulted,  \* bound: failing file operations
    MaxRestores  \* bound: calls of restore_backup

\* A database is named by what was last backed up from it: an open kernel
\* that creates container b has then the database that b holds.
Databases == Containers \cup {Original, Fresh}

\* A directory: its database, the ready file (whose checksum matches that
\* database), its backups/ and the process whose lock its lock file carries.
Directories == [db : Databases \cup {Absent}, ready : BOOLEAN,
                containers : SUBSET Containers, holder : Procs \cup {Absent}]

ASSUME NamesAssumption ==
    /\ Taken \subseteq Containers
    /\ Original # Fresh /\ Absent \notin {Original, Fresh}
    /\ {Original, Fresh, Absent} \cap (Procs \cup Containers \cup Nat) = {}
    /\ Absent \notin Directories
ASSUME HostAssumption ==
    Hosts \subseteq [does : SUBSET {"restore_unopened", "open_pending"},
                     kills : Nat, restores : 0 .. MaxRestores]
ASSUME RestoreBounds ==
    /\ MaxBackups \in Nat
    /\ MaxFaulted \in Nat
    /\ MaxRestores \in Nat

VARIABLES
    host,        \* which of the hosts runs the processes
    fs,          \* the directory at each path, or Absent
    previous,    \* the .neotavern-previous-* directories, oldest first
    marker,      \* the candidate the pending marker names, or Absent
    proc,        \* per process: where it is, and its locals
    taken,       \* history: the containers ever created
    current,     \* history: the database the last completed call left active
    attempted,   \* history: containers of restores begun since then
    served,      \* history: the database the last open served
    settled,     \* history: an open succeeded since the last restore began
    killed, faulted, restores  \* what the bounds have used up

disk == <<fs, previous, marker>>
history == <<taken, current, attempted, served, settled>>
restoreBudgets == <<host, killed, faulted, restores>>
restoreVars == <<host, fs, previous, marker, proc, taken, current, attempted,
                 served, settled, killed, faulted, restores>>

\* The data root, and the candidate directory of the n-th restore: its name
\* is never used again.
Root == 0
Paths == 0 .. MaxRestores

EmptyDir ==
    [db |-> Absent, ready |-> FALSE, containers |-> {}, holder |-> Absent]

\* A process: its position, the path it opens or activates (target), its own
\* candidate, the candidate a marker named (found), and the container.
Idle == [pc |-> "idle", job |-> "none", target |-> Root, candidate |-> Absent,
         found |-> Absent, leased |-> FALSE, container |-> Absent]

RestoreInit ==
    /\ host \in Hosts
    /\ fs = [path \in Paths |->
               IF path = Root
               THEN [EmptyDir EXCEPT !.db = Original, !.containers = Taken]
               ELSE Absent]
    /\ previous = <<>>
    /\ marker = Absent
    /\ proc = [p \in Procs |-> Idle]
    /\ taken = Taken
    /\ current = Original
    /\ attempted = {}
    /\ served = Original
    /\ settled = TRUE
    /\ killed = 0
    /\ faulted = 0
    /\ restores = 0

-----------------------------------------------------------------------------
(* Directories, the lease, and what a returning process leaves.            *)

ProcAt(p, pc) == proc[p].pc = pc
Goto(p, pc) == proc' = [proc EXCEPT ![p].pc = pc]

\* The lock goes with the lock file, wherever its directory was renamed to.
Unlocked(dir, p) ==
    IF dir # Absent /\ dir.holder = p
    THEN [dir EXCEPT !.holder = Absent] ELSE dir
Release(p) ==
    /\ fs' = [path \in Paths |-> Unlocked(fs[path], p)]
    /\ previous' = [i \in DOMAIN previous |-> Unlocked(previous[i], p)]

\* DataRootLease::acquire: creates the directory and its lock file.
Locked(path, p) ==
    [(IF fs[path] = Absent THEN EmptyDir ELSE fs[path]) EXCEPT !.holder = p]
Lockable(path) ==
    Absent = IF fs[path] = Absent THEN Absent ELSE fs[path].holder

Ready(path) == fs[path] # Absent /\ fs[path].ready /\ fs[path].db # Absent

\* An error leaves open(): the lease is dropped.  Inside restore_backup an
\* error of the staging phase also removes the candidate's directory.
Staging == {"copy", "acquire", "probe", "resolve", "discard", "retain",
            "swap", "unmark", "prune", "reacquire", "inspect", "checked"}
Failed(p) ==
    /\ proc' = [proc EXCEPT ![p] = Idle]
    /\ IF proc[p].job = "restore" /\ proc[p].pc \in Staging
       THEN /\ fs' = [path \in Paths |->
                        IF path = proc[p].candidate
                        THEN Absent ELSE Unlocked(fs[path], p)]
            /\ previous' = [i \in DOMAIN previous |-> Unlocked(previous[i], p)]
       ELSE Release(p)
    /\ UNCHANGED <<marker, history>>

-----------------------------------------------------------------------------
(* open(): lease, resolve_pending_restore, inspect, install.               *)

\* The host the guarantees are for.
CarefulHost == host.does = {}

\* Two kernels may be started together; while a marker is pending a careful
\* host starts one only.  Restore is an offline operation.
MayOpen(p) ==
    /\ \A q \in Procs : proc[q].job # "restore"
    /\ \/ "open_pending" \in host.does
       \/ marker = Absent
       \/ \A q \in Procs : ProcAt(q, "idle")

OpenBegin(p) ==
    /\ ProcAt(p, "idle")
    /\ MayOpen(p)
    /\ proc' = [proc EXCEPT ![p] = [Idle EXCEPT !.pc = "acquire",
                                                !.job = "open"]]
    /\ UNCHANGED <<disk, history, restoreBudgets>>

\* The lease is taken at the start and again after a marker was resolved.
Acquire(p, pc, next) ==
    /\ ProcAt(p, pc)
    /\ Lockable(proc[p].target)
    /\ fs' = [fs EXCEPT ![proc[p].target] = Locked(proc[p].target, p)]
    /\ proc' = [proc EXCEPT ![p].pc = next, ![p].leased = TRUE]
    /\ UNCHANGED <<previous, marker, history, restoreBudgets>>

DataRootInUse(p) ==
    /\ ProcAt(p, "acquire") \/ ProcAt(p, "reacquire")
    /\ ~Lockable(proc[p].target)
    /\ Failed(p)
    /\ UNCHANGED restoreBudgets

\* A pending marker makes open() give the lease up across the resolution.
ProbeMarker(p) ==
    /\ ProcAt(p, "probe")
    /\ IF marker # Absent
       THEN /\ Release(p)
            /\ proc' = [proc EXCEPT ![p].pc = "resolve", ![p].leased = FALSE]
       ELSE Goto(p, "resolve") /\ UNCHANGED <<fs, previous>>
    /\ UNCHANGED <<marker, history, restoreBudgets>>

\* resolve_pending_restore reads the marker and checks its candidate.
ReadMarker(p) ==
    /\ ProcAt(p, "resolve")
    /\ proc' = [proc EXCEPT
         ![p].pc = IF marker = Absent THEN "prune"
                   ELSE IF Ready(marker) THEN "retain" ELSE "discard",
         ![p].found = marker]
    /\ UNCHANGED <<disk, history, restoreBudgets>>

\* An unready candidate (the swap is done, or it was damaged) is removed.
DiscardCandidate(p) ==
    /\ ProcAt(p, "discard")
    /\ fs' = [fs EXCEPT ![proc[p].found] = Absent]
    /\ Goto(p, "unmark")
    /\ UNCHANGED <<previous, marker, history, restoreBudgets>>

\* retain_or_discard_previous: a directory without a database is removed.
Retain(p, pc, next) ==
    LET dir == fs[proc[p].target] IN
    /\ ProcAt(p, pc)
    /\ fs' = [fs EXCEPT ![proc[p].target] = Absent]
    /\ previous' = IF dir = Absent \/ dir.db = Absent
                   THEN previous ELSE Append(previous, dir)
    /\ Goto(p, next)
    /\ UNCHANGED <<marker, history, restoreBudgets>>

\* rename(candidate, target): the candidate must exist, and a directory that
\* appeared at the target holds at least a lock file, so the rename fails.
CanSwap(p) == fs[proc[p].found] # Absent /\ fs[proc[p].target] = Absent
Swap(p, pc, next) ==
    /\ ProcAt(p, pc)
    /\ CanSwap(p)
    /\ fs' = [fs EXCEPT ![proc[p].target] = fs[proc[p].found],
                        ![proc[p].found] = Absent]
    /\ Goto(p, next)
    /\ UNCHANGED <<previous, marker, history, restoreBudgets>>

SwapFails(p) ==
    /\ ProcAt(p, "swap") \/ ProcAt(p, "activate_swap")
    /\ ~CanSwap(p)
    /\ Failed(p)
    /\ UNCHANGED restoreBudgets

Unmark(p) ==
    /\ ProcAt(p, "unmark")
    /\ marker' = Absent
    /\ Goto(p, "prune")
    /\ UNCHANGED <<fs, previous, history, restoreBudgets>>

\* prune_previous_dirs keeps the newest previous directory.
Newest(dirs) == IF dirs = <<>> THEN <<>> ELSE <<dirs[Len(dirs)]>>
Prune(p) ==
    /\ ProcAt(p, "prune")
    /\ previous' = Newest(previous)
    /\ Goto(p, IF proc[p].leased THEN "inspect" ELSE "reacquire")
    /\ UNCHANGED <<fs, marker, history, restoreBudgets>>

\* inspect; a directory without a database gets a fresh one; then the kernel
\* is open, or the candidate has passed its checks.
Install(p) ==
    LET path == proc[p].target
        db == IF fs[path].db = Absent THEN Fresh ELSE fs[path].db
    IN  /\ ProcAt(p, "inspect")
        /\ fs[path] # Absent
        /\ fs' = [fs EXCEPT ![path].db = db]
        /\ IF proc[p].job = "open"
           THEN /\ Goto(p, "opened")
                /\ served' = db /\ current' = db
                /\ attempted' = {}
                /\ settled' = TRUE
           ELSE /\ Goto(p, "checked")
                /\ UNCHANGED <<current, attempted, served, settled>>
        /\ UNCHANGED <<previous, marker, taken, restoreBudgets>>

InstallFails(p) ==
    /\ ProcAt(p, "inspect")
    /\ fs[proc[p].target] = Absent
    /\ Failed(p)
    /\ UNCHANGED restoreBudgets

\* backups.create on the open kernel, within the quota.
CreateBackup(p, b) ==
    /\ ProcAt(p, "opened")
    /\ b \notin taken
    /\ fs[Root] # Absent /\ fs[Root].holder = p
    /\ Cardinality(fs[Root].containers) < MaxBackups
    /\ fs' = [fs EXCEPT ![Root].db = b, ![Root].ready = FALSE,
                        ![Root].containers = @ \cup {b}]
    /\ taken' = taken \cup {b}
    /\ served' = b /\ current' = b
    /\ UNCHANGED <<previous, marker, proc, attempted, settled, restoreBudgets>>

Close(p) ==
    /\ ProcAt(p, "opened")
    /\ Release(p)
    /\ proc' = [proc EXCEPT ![p] = Idle]
    /\ UNCHANGED <<marker, history, restoreBudgets>>

-----------------------------------------------------------------------------
(* restore_backup(container, root).                                        *)

Stored == UNION {fs[path].containers : path \in {q \in Paths : fs[q] # Absent}}
            \cup UNION {previous[i].containers : i \in DOMAIN previous}

\* Offline; a careful host has opened the root since the last restore.
MayRestore ==
    /\ \A q \in Procs : ProcAt(q, "idle")
    /\ "restore_unopened" \in host.does \/ settled

\* verify_backup passes and stage_candidate makes a new empty directory.
RestoreBegin(p, b) ==
    LET c == restores + 1 IN
    /\ MayRestore
    /\ restores < host.restores
    /\ b \in Stored
    /\ fs' = [fs EXCEPT ![c] = EmptyDir]
    /\ proc' = [proc EXCEPT ![p] =
                  [Idle EXCEPT !.pc = "copy", !.job = "restore", !.target = c,
                               !.candidate = c, !.container = b]]
    /\ restores' = restores + 1
    /\ attempted' = attempted \cup {b}
    /\ settled' = FALSE
    /\ UNCHANGED <<previous, marker, taken, current, served,
                   killed, faulted, host>>

\* copy_container_into_candidate; the candidate is then opened.
CopyContainer(p) ==
    /\ ProcAt(p, "copy")
    /\ fs' = [fs EXCEPT ![proc[p].candidate].db = proc[p].container]
    /\ Goto(p, "acquire")
    /\ UNCHANGED <<previous, marker, history, restoreBudgets>>

\* The integrity gates passed: the candidate is closed.
CloseCandidate(p) ==
    /\ ProcAt(p, "checked")
    /\ Release(p)
    /\ proc' = [proc EXCEPT ![p].pc = "finalize", ![p].leased = FALSE]
    /\ UNCHANGED <<marker, history, restoreBudgets>>

FinalizeCandidate(p) ==
    /\ ProcAt(p, "finalize")
    /\ fs' = [fs EXCEPT ![proc[p].candidate].ready = TRUE]
    /\ Goto(p, "activate")
    /\ UNCHANGED <<previous, marker, history, restoreBudgets>>

\* activate: a ready candidate, then the marker.
ActivateMark_Late(p) ==
    /\ ProcAt(p, "activate")
    /\ Ready(proc[p].candidate)
    /\ proc' = [proc EXCEPT ![p].pc = "activate_retain", ![p].target = Root,
                            ![p].found = proc[p].candidate]
    /\ UNCHANGED <<disk, history, restoreBudgets>>
ActivateMark(p) ==
    /\ ProcAt(p, "activate")
    /\ Ready(proc[p].candidate)
    /\ marker' = proc[p].candidate
    /\ proc' = [proc EXCEPT ![p].pc = "activate_retain", ![p].target = Root,
                            ![p].found = proc[p].candidate]
    /\ UNCHANGED <<fs, previous, history, restoreBudgets>>

\* The marker goes and restore_backup returns Ok.
ActivateDone(p) ==
    /\ ProcAt(p, "activate_done")
    /\ marker' = Absent
    /\ current' = proc[p].container
    /\ attempted' = {}
    /\ proc' = [proc EXCEPT ![p] = Idle]
    /\ UNCHANGED <<fs, previous, taken, served, settled, restoreBudgets>>

-----------------------------------------------------------------------------

\* Any operation of an unfinished call fails: a full disk, a failed check, an
\* incompatible schema.
Fault(p) ==
    /\ proc[p].pc \notin {"idle", "opened"}
    /\ faulted < MaxFaulted
    /\ faulted' = faulted + 1
    /\ Failed(p)
    /\ UNCHANGED <<killed, restores, host>>

\* The process is killed; the operating system drops its locks.
KillProcess(p) ==
    /\ proc[p].pc # "idle"
    /\ killed < host.kills
    /\ killed' = killed + 1
    /\ Release(p)
    /\ proc' = [proc EXCEPT ![p] = Idle]
    /\ UNCHANGED <<marker, history, faulted, restores, host>>

OpenStep(p) ==
    \/ Acquire(p, "acquire", "probe") \/ Acquire(p, "reacquire", "inspect")
    \/ DataRootInUse(p) \/ ProbeMarker(p) \/ ReadMarker(p)
    \/ DiscardCandidate(p) \/ Retain(p, "retain", "swap")
    \/ Swap(p, "swap", "unmark") \/ SwapFails(p) \/ Unmark(p) \/ Prune(p)
    \/ Install(p) \/ InstallFails(p)

RestoreStep(p) ==
    \/ CopyContainer(p) \/ CloseCandidate(p) \/ FinalizeCandidate(p)
    \/ ActivateMark(p) \/ Retain(p, "activate_retain", "activate_swap")
    \/ Swap(p, "activate_swap", "activate_done") \/ ActivateDone(p)

RestoreNext ==
    \E p \in Procs :
        \/ OpenBegin(p) \/ OpenStep(p) \/ Close(p)
        \/ \E b \in Containers : CreateBackup(p, b) \/ RestoreBegin(p, b)
        \/ RestoreStep(p)
        \/ Fault(p) \/ KillProcess(p)

RestoreSpec == RestoreInit /\ [][RestoreNext]_restoreVars

-----------------------------------------------------------------------------
(* Types.                                                                  *)

\* Every variable has its type: a path holds a directory or nothing, and a
\* marker names a candidate path.
RestoreTypeOK ==
    /\ host \in Hosts
    /\ fs \in [Paths -> Directories \cup {Absent}]
    /\ previous \in Seq(Directories)
    /\ marker \in (Paths \ {Root}) \cup {Absent}
    /\ proc \in [Procs ->
         [pc : Staging \cup {"idle", "opened", "finalize", "activate",
                "activate_retain", "activate_swap", "activate_done"},
          job : {"none", "open", "restore"}, target : Paths,
          candidate : Paths \cup {Absent}, found : Paths \cup {Absent},
          leased : BOOLEAN, container : Containers \cup {Absent}]]
    /\ taken \subseteq Containers
    /\ current \in Databases
    /\ attempted \subseteq Containers
    /\ served \in Databases
    /\ settled \in BOOLEAN
    /\ killed \in Nat /\ faulted \in Nat /\ restores \in Nat

-----------------------------------------------------------------------------
(* Safety.                                                                 *)

\* The database the next open would serve if every process stopped now.
Survivor == IF marker # Absent /\ Ready(marker) THEN fs[marker].db
            ELSE IF fs[Root] = Absent THEN Absent ELSE fs[Root].db

\* activate and resolve_pending_restore: "a kill at any point leaves exactly
\* one fully-verified state active (the current root or the validated
\* candidate)" (restore.rs:9).  ProcAt every instant what the next open would
\* serve is the database the last completed call left, or the container a
\* restore begun since then was given; never nothing, never a fresh install.
KillSafe == CarefulHost => Survivor \in {current} \cup attempted

\* open: a kernel is opened on what survived, and on nothing else.
OpensVerified ==
    [][\A p \in Procs :
         ~ProcAt(p, "opened") /\ proc'[p].pc = "opened" =>
         served' \in {current} \cup attempted]_restoreVars

\* retain_or_discard_previous and prune_previous_dirs: "The previous root is
\* retained until the first successful open after activation"
\* (restore.rs:10): what the last kernel served is on disk until another
\* kernel is open.
PreviousRetained == CarefulHost =>
    \/ \E path \in Paths : fs[path] # Absent /\ fs[path].db = served
    \/ \E i \in DOMAIN previous : previous[i].db = served

\* DataRootLease: one kernel at a time has a data root open, and it holds
\* the lock of the directory that is the root.
LeaseExclusive == CarefulHost =>
    \A p \in Procs : ProcAt(p, "opened") =>
        /\ fs[Root] # Absent /\ fs[Root].holder = p
        /\ \A q \in Procs : ProcAt(q, "opened") => q = p

\* DataRootLease: "a lease can never be stranded" (lease.rs:8).  A lock
\* that a directory carries, wherever it was renamed to, belongs to a process
\* that still holds its lease.
NoStrandedLease ==
    /\ \A path \in Paths : fs[path] # Absent /\ fs[path].holder # Absent =>
         proc[fs[path].holder].leased
    /\ \A i \in DOMAIN previous : previous[i].holder # Absent =>
         proc[previous[i].holder].leased

\* open has settled what a restore left: with a kernel open no activation is
\* pending, and at most one previous root is kept.
OpenSettles == CarefulHost =>
    \A p \in Procs : ProcAt(p, "opened") =>
        marker = Absent /\ Len(previous) <= 1

\* What a document says of backups, and the code does not keep.

\* docs/architecture/portable-data.md:38: "user backups are never deleted
\* silently".
BackupsKept == taken \subseteq Stored

\* What a restore and the opens around it guarantee at every instant, also one
\* at which a process is killed: one verified state survives, the state before
\* it is kept until the next open, and an open settles what is pending; one
\* kernel holds a root, and no lock outlives its holder.
RestoreSafety ==
    /\ RestoreTypeOK
    /\ KillSafe /\ PreviousRetained /\ OpenSettles
    /\ LeaseExclusive /\ NoStrandedLease
=============================================================================
