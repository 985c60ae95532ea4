------------------------------- MODULE Assets -------------------------------
(***************************************************************************)
(* The asset store (crates/storage/src/assets.rs): files under assets/ and *)
(* their registry, the table __neotavern_assets.  publish_asset,           *)
(* delete_asset and gc_orphans run one at a time on the single writable    *)
(* Database; files and registry are changed in separate steps, and the     *)
(* process may be killed between any two.                                  *)
(***************************************************************************)
EXTENDS Integers, FiniteSets

CONSTANTS
    Ids,          \* asset ids
    Keys,         \* managed relative keys
    Blobs,        \* contents; a blob stands for its size and checksum too
    None,         \* no row, no file
    MaxCalls,     \* bound: publishes and deletes
    MaxKills,     \* bound: kills
    MaxFaults     \* bound: failing file operations and transactions

ASSUME NoneAssumption == None \notin Ids \cup Keys \cup Blobs
ASSUME BoundsAssumption ==
    MaxCalls \in Nat /\ MaxKills \in Nat /\ MaxFaults \in Nat

VARIABLES
    rows,    \* the registry: per id its row, or None
    files,   \* per key the published file, or None
    temps,   \* hidden temp files on disk
    aged,    \* keys whose file is older than the grace period
    reused,  \* history: registered keys whose file a later publish replaced
    call,    \* the call in progress
    calls, kills, faults  \* what the bounds have used up

store == <<rows, files, temps, aged, reused>>
budgets == <<calls, kills, faults>>
vars == <<rows, files, temps, aged, reused, call, calls, kills, faults>>

NoCall == [pc |-> "idle", id |-> None, key |-> None, blob |-> None]

Init ==
    /\ rows = [id \in Ids |-> None]
    /\ files = [key \in Keys |-> None]
    /\ temps = 0
    /\ aged = {}
    /\ reused = {}
    /\ call = NoCall
    /\ calls = 0
    /\ kills = 0
    /\ faults = 0

Referenced == {rows[id].key : id \in {i \in Ids : rows[i] # None}}
At(pc) == call.pc = pc
Return == call' = NoCall

-----------------------------------------------------------------------------
(* publish_asset: temp file, rename, INSERT; undone when the INSERT fails. *)

PublishTemp(id, key, blob) ==
    /\ At("idle")
    /\ calls < MaxCalls
    /\ temps' = temps + 1
    /\ call' = [pc |-> "temp", id |-> id, key |-> key, blob |-> blob]
    /\ calls' = calls + 1
    /\ UNCHANGED <<rows, files, aged, reused, kills, faults>>

\* The rename replaces whatever file the key had, a registered one too.
PublishRename ==
    /\ At("temp")
    /\ files' = [files EXCEPT ![call.key] = call.blob]
    /\ temps' = temps - 1
    /\ aged' = aged \ {call.key}
    /\ reused' = reused \cup ({call.key} \cap Referenced)
    /\ call' = [call EXCEPT !.pc = "insert"]
    /\ UNCHANGED <<rows, budgets>>

\* Writing, syncing or renaming fails and the temp file is removed, or
\* creating the parent directories fails and it stays.
PublishAborted ==
    /\ At("temp")
    /\ faults < MaxFaults
    /\ faults' = faults + 1
    /\ temps' \in {temps - 1, temps}
    /\ Return
    /\ UNCHANGED <<rows, files, aged, reused, calls, kills>>

\* id is the primary key, relative_key is UNIQUE.
Inserts(id, key) == rows[id] = None /\ key \notin Referenced

PublishInsert ==
    /\ At("insert")
    /\ Inserts(call.id, call.key)
    /\ rows' = [rows EXCEPT ![call.id] = [key |-> call.key, blob |-> call.blob]]
    /\ Return
    /\ UNCHANGED <<files, temps, aged, reused, budgets>>

PublishConflict ==
    /\ At("insert")
    /\ ~Inserts(call.id, call.key)
    /\ call' = [call EXCEPT !.pc = "undo"]
    /\ UNCHANGED <<store, budgets>>

InsertFault ==
    /\ At("insert")
    /\ faults < MaxFaults
    /\ faults' = faults + 1
    /\ call' = [call EXCEPT !.pc = "undo"]
    /\ UNCHANGED <<store, calls, kills>>

\* remove_file(target), best effort, both here and in delete_asset.
RemoveFile(pc) ==
    /\ At(pc)
    /\ files' = [files EXCEPT ![call.key] = None]
    /\ aged' = aged \ {call.key}
    /\ Return
    /\ UNCHANGED <<rows, temps, reused, budgets>>

RemoveIgnored ==
    /\ At("undo") \/ At("unlink")
    /\ faults < MaxFaults
    /\ faults' = faults + 1
    /\ Return
    /\ UNCHANGED <<store, calls, kills>>

-----------------------------------------------------------------------------
(* delete_asset: the row, then the file.  An unknown id changes nothing.   *)

DeleteRow(id) ==
    /\ At("idle")
    /\ calls < MaxCalls
    /\ rows[id] # None
    /\ rows' = [rows EXCEPT ![id] = None]
    /\ call' = [NoCall EXCEPT !.pc = "unlink", !.key = rows[id].key]
    /\ reused' = reused \ {rows[id].key}
    /\ calls' = calls + 1
    /\ UNCHANGED <<files, temps, aged, kills, faults>>

-----------------------------------------------------------------------------
(* gc_orphans: names with a leading dot, referenced files and files within *)
(* the grace period are left alone.                                        *)

Orphan_Any(key) == files[key] # None /\ key \in aged
Orphan_Young(key) ==
    files[key] # None /\ key \notin Referenced /\ key \notin aged
Orphan(key) == files[key] # None /\ key \notin Referenced /\ key \in aged

GcOrphans ==
    /\ At("idle")
    /\ \E key \in Keys : Orphan(key)
    /\ files' = [key \in Keys |-> IF Orphan(key) THEN None ELSE files[key]]
    /\ aged' = {key \in aged : ~Orphan(key)}
    /\ UNCHANGED <<rows, temps, reused, call, budgets>>

\* A walk that stops at an error, or is killed, has removed some of them.
GcInterrupted ==
    /\ At("idle")
    /\ faults < MaxFaults
    /\ faults' = faults + 1
    /\ \E removed \in SUBSET {key \in Keys : Orphan(key)} :
         /\ files' = [key \in Keys |->
                        IF key \in removed THEN None ELSE files[key]]
         /\ aged' = aged \ removed
    /\ UNCHANGED <<rows, temps, reused, call, calls, kills>>

\* The grace period of a file passes.
Age(key) ==
    /\ files[key] # None /\ key \notin aged
    /\ aged' = aged \cup {key}
    /\ UNCHANGED <<rows, files, temps, reused, call, budgets>>

\* The process is killed, and the store opened again.
Kill ==
    /\ ~At("idle")
    /\ kills < MaxKills
    /\ kills' = kills + 1
    /\ Return
    /\ UNCHANGED <<store, calls, faults>>

-----------------------------------------------------------------------------

Writer == \/ PublishRename \/ PublishInsert \/ PublishConflict
          \/ RemoveFile("undo") \/ RemoveFile("unlink")

Next ==
    \/ \E id \in Ids, key \in Keys, blob \in Blobs : PublishTemp(id, key, blob)
    \/ \E id \in Ids : DeleteRow(id)
    \/ Writer
    \/ PublishAborted \/ InsertFault \/ RemoveIgnored
    \/ GcOrphans \/ GcInterrupted
    \/ \E key \in Keys : Age(key)
    \/ Kill

Spec == Init /\ [][Next]_vars

\* Calls return, time passes, and the host runs the collector.
FairSpec == /\ Spec
            /\ WF_vars(Writer)
            /\ WF_vars(GcOrphans)
            /\ WF_vars(\E key \in Keys : Age(key))

-----------------------------------------------------------------------------

\* Every variable has its type; the registry has the columns that matter of
\* an AssetRecord.
TypeOK ==
    /\ rows \in [Ids -> [key : Keys, blob : Blobs] \cup {None}]
    /\ files \in [Keys -> Blobs \cup {None}]
    /\ temps \in Nat
    /\ aged \subseteq Keys /\ reused \subseteq Keys
    /\ call \in [pc : {"idle", "temp", "insert", "undo", "unlink"},
                 id : Ids \cup {None}, key : Keys \cup {None},
                 blob : Blobs \cup {None}]
    /\ calls \in Nat /\ kills \in Nat /\ faults \in Nat

\* publish_asset, delete_asset and gc_orphans: a registered key has its file,
\* and the file is the blob that was registered, whatever was killed or
\* failed, so that a backup finds every asset it pins; except a key that was
\* published again while registered, until its row is deleted.  publish_asset
\* renames before the INSERT refuses the key.
RegisteredIntact ==
    \A id \in Ids :
      rows[id] # None /\ rows[id].key \notin reused =>
        files[rows[id].key] = rows[id].blob

\* What assets.rs:3 says, "Assets are immutable byte blobs", and the code does
\* not keep: no exception between calls.
ImmutableAtRest ==
    At("idle") =>
      \A id \in Ids : rows[id] # None => files[rows[id].key] = rows[id].blob

\* "the orphan GC eventually reclaims the leftover file" (assets.rs:240):
\* whatever a kill or a failed removal leaves under a key is collected,
\* unless the key is registered by then.
OrphansReclaimed ==
    \A key \in Keys :
        (files[key] # None /\ key \notin Referenced)
          ~> (files[key] = None \/ key \in Referenced)
=============================================================================
