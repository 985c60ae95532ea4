--------------------------- MODULE PluginPackages ---------------------------
(***************************************************************************)
(* The life of one plugin package on the Node server: install and update,  *)
(* activation, disabling, deletion, safe mode and server restarts          *)
(* (apps/server/src/plugins/plugins.ts, the registry in                    *)
(* packages/db/src/repositories/plugins.ts).                               *)
(*                                                                         *)
(* A request is a handler that is suspended between two awaits; several    *)
(* may be in progress, and every file operation is a step.  The registry   *)
(* is synchronous and shares a step with what precedes it.  A version is   *)
(* named by the request that installs it.  Backends are reduced to the     *)
(* versions that run, one in the host's process and one in a worker of the *)
(* v3 runtime: their processes and locks are modelled in BackendHost and   *)
(* in the runtime's modules.                                               *)
(***************************************************************************)
EXTENDS Integers, Sequences, FiniteSets

CONSTANTS MaxRequests, MaxServerCrashes

ASSUME PluginPackagesAssumption == MaxRequests \in Nat /\ MaxServerCrashes \in Nat

VARIABLES
    files,      \* plugins/<id>: package, .rollback-* and .incoming-* of each request
    row,        \* the plugin's row in plugin_registry; version 0: no row
    running,    \* the versions whose backend and v3 worker run, 0 for none
    safeMode,   \* runtimeSafeMode
    requests,   \* the handlers, in the order they began
    crashes,    \* server crashes so far
    seen        \* what happened so far (only read by properties)

packageVars == <<files, row, running, safeMode, requests, crashes, seen>>

NoFiles == [root |-> FALSE, package |-> 0,
            rollback |-> [r \in 1..MaxRequests |-> 0], incoming |-> {}]
NoPlugin == [version |-> 0, v3 |-> FALSE, enabled |-> FALSE]
NoRun == [host |-> 0, worker |-> 0, left |-> FALSE]   \* left: the worker was to end

(* The server has started; a plugin is installed and runs, or none is.     *)
First == MaxRequests + 1

PackagesInit ==
    /\ \/ files = NoFiles /\ row = NoPlugin /\ running = NoRun
       \/ /\ files = [NoFiles EXCEPT !.root = TRUE, !.package = First]
          /\ \/ /\ row = [version |-> First, v3 |-> FALSE, enabled |-> TRUE]
                /\ running = [NoRun EXCEPT !.host = First]
             \/ /\ row = [version |-> First, v3 |-> TRUE, enabled |-> TRUE]
                /\ running = [NoRun EXCEPT !.worker = First]
    /\ safeMode = FALSE
    /\ requests = <<>> /\ crashes = 0
    /\ seen = [overlap |-> FALSE, late |-> FALSE, crash |-> FALSE,
               raced |-> FALSE, undone |-> FALSE, stuck |-> FALSE]

Requests  == 1..Len(requests)
InFlight  == {r \in Requests : requests[r].at # "done"}
At(r, st) == requests[r].at = st

(* A handler: where it is suspended, what it read and what it holds. *)
Handler(at) ==
    [at |-> at, v3 |-> FALSE, wasEnabled |-> FALSE, safe |-> FALSE,
     aside |-> FALSE, starts |-> FALSE, enables |-> FALSE, moved |-> NoFiles]

Ended(h) == [Handler("done") EXCEPT !.moved = h.moved]

Moved(r, at) ==
    requests' = [requests EXCEPT ![r] = IF at = "done" THEN Ended(@) ELSE [@ EXCEPT !.at = at]]

Begin(h) ==
    /\ Len(requests) < MaxRequests
    /\ requests' = Append(requests, h)
    /\ seen' = [seen EXCEPT !.overlap = @ \/ InFlight # {}]

(* deactivate of the hosts, and of the v3 runtime in most places: it stops *)
(* waiting for the worker's end after a while.                             *)
EndBackends(withWorker) ==
    \E w \in IF withWorker THEN {0, running.worker} ELSE {running.worker} :
        running' = [host |-> 0, worker |-> w, left |-> w # 0]

(* A worker ends late.                                                     *)
WorkerEnds ==
    /\ running.left /\ running.worker # 0
    /\ running' = [running EXCEPT !.worker = 0, !.left = FALSE]
    /\ UNCHANGED <<files, row, safeMode, requests, crashes, seen>>

(* A step of a rollback fails and is only logged, or lets the request fail. *)
Stuck == seen' = [seen EXCEPT !.stuck = TRUE]

-----------------------------------------------------------------------------
(* installFromExtractedDir                                                 *)

(* The package is valid; the row and safe mode are read. *)
Install(v3) ==
    /\ Begin([Handler("dependencies") EXCEPT
                 !.v3 = v3, !.wasEnabled = row.enabled, !.safe = safeMode])
    /\ UNCHANGED <<files, row, running, safeMode, crashes>>

(* The version is incompatible with the host: an installed plugin is       *)
(* disabled, and the installed version stays.                              *)
InstallRefused(v3) ==
    /\ row.version # 0 /\ Begin(Handler("done"))
    /\ IF row.enabled THEN EndBackends(v3) ELSE UNCHANGED running
    /\ row' = [row EXCEPT !.enabled = FALSE]
    /\ UNCHANGED <<files, safeMode, crashes>>

(* The dependencies are installed and an enabled plugin is deactivated, in *)
(* the v3 runtime only if the new version is one for it.                   *)
Prepared(r) ==
    /\ At(r, "dependencies")
    /\ \/ /\ Moved(r, "incoming")
          /\ IF requests[r].wasEnabled THEN EndBackends(requests[r].v3) ELSE UNCHANGED running
       \/ Moved(r, "done") /\ UNCHANGED running
    /\ UNCHANGED <<files, row, safeMode, crashes, seen>>

(* The package is moved to .incoming-*; when it cannot be, the request     *)
(* fails.                                                                  *)
StageIncoming(r) ==
    /\ At(r, "incoming")
    /\ \/ /\ Moved(r, "checking")
          /\ files' = [files EXCEPT !.root = TRUE, !.incoming = @ \union {r}]
       \/ Moved(r, "done") /\ files' = [files EXCEPT !.root = TRUE]
    /\ UNCHANGED <<row, running, safeMode, crashes, seen>>

(* exists(finalPath) *)
CheckPackage(r) ==
    /\ At(r, "checking")
    /\ Moved(r, IF files.package = 0 THEN "swapping" ELSE "aside")
    /\ UNCHANGED <<files, row, running, safeMode, crashes, seen>>

(* The installed package is set aside; when it cannot be, the request      *)
(* fails before its try block.                                             *)
SetAside_Removed(r) ==
    /\ At(r, "aside")
    /\ files' = [files EXCEPT !.package = 0]
    /\ requests' = [requests EXCEPT ![r].at = "swapping", ![r].aside = TRUE]
    /\ UNCHANGED <<row, running, safeMode, crashes, seen>>

SetAside(r) ==
    /\ At(r, "aside")
    /\ \/ /\ files.package # 0
          /\ files' = [files EXCEPT !.package = 0, !.rollback[r] = files.package]
          /\ requests' = [requests EXCEPT ![r].at = "swapping", ![r].aside = TRUE]
       \/ Moved(r, "done") /\ UNCHANGED files
    /\ UNCHANGED <<row, running, safeMode, crashes, seen>>

(* .incoming-* becomes the package.  The rename fails when a package is    *)
(* there, or when the directory was deleted meanwhile.                     *)
Swap(r) ==
    /\ At(r, "swapping")
    /\ \/ /\ r \in files.incoming /\ files.package = 0
          /\ files' = [files EXCEPT !.package = r, !.incoming = @ \ {r}]
          /\ Moved(r, "registering")
       \/ Moved(r, "undo") /\ UNCHANGED files
    /\ UNCHANGED <<row, running, safeMode, crashes, seen>>

(* repo.install: the plugin stays enabled when it was and nothing new was  *)
(* requested.                                                              *)
RegisterVersion(r) ==
    /\ At(r, "registering")
    /\ \/ \E enabled \in {row.enabled, FALSE} :
          /\ row' = [version |-> r, v3 |-> requests[r].v3, enabled |-> enabled]
          /\ requests' = [requests EXCEPT ![r].at = "cleaning", ![r].starts = enabled]
       \/ Moved(r, "undo") /\ UNCHANGED row
    /\ UNCHANGED <<files, running, safeMode, crashes, seen>>

(* The old package is removed (nobody looks at it again, if it stays), the *)
(* grants are stored, and the backend of a plugin that stayed enabled      *)
(* starts unless safe mode was on at the start.  Storing the grants may    *)
(* throw: the catch then undoes a finished swap.                           *)
CleanUp(r) ==
    /\ At(r, "cleaning")
    /\ LET cleaned == [files EXCEPT !.rollback[r] = 0] IN
       \/ /\ Moved(r, IF requests[r].starts /\ ~requests[r].safe THEN "starting" ELSE "done")
          /\ files' = cleaned /\ UNCHANGED seen
       \/ /\ Moved(r, "undo") /\ seen' = [seen EXCEPT !.late = TRUE]
          /\ files' \in {files, cleaned}
    /\ UNCHANGED <<row, running, safeMode, crashes>>

(* The catch: remove the new package ... *)
UndoRemove(r) ==
    /\ At(r, "undo") /\ Moved(r, "restoring")
    /\ \/ files' = [files EXCEPT !.package = 0] /\ UNCHANGED seen
       \/ UNCHANGED files /\ Stuck
    /\ UNCHANGED <<row, running, safeMode, crashes>>

(* ... put the old one back ... *)
UndoRestore(r) ==
    /\ At(r, "restoring") /\ Moved(r, "discarding")
    /\ \/ ~requests[r].aside /\ UNCHANGED <<files, seen>>
       \/ /\ requests[r].aside /\ files.rollback[r] # 0 /\ files.package = 0
          /\ files' = [files EXCEPT !.package = files.rollback[r], !.rollback[r] = 0]
          /\ UNCHANGED seen
       \/ requests[r].aside /\ UNCHANGED files /\ Stuck
    /\ UNCHANGED <<row, running, safeMode, crashes>>

(* ... drop .incoming-* (which nobody looks at again, if it stays), and     *)
(* start the previous version if it is enabled.                            *)
UndoDiscard(r) ==
    /\ At(r, "discarding")
    /\ files' = [files EXCEPT !.incoming = @ \ {r}]
    /\ LET restarts == row.enabled /\ requests[r].aside IN
       /\ \/ restarts /\ requests' = [requests EXCEPT ![r].at = "starting", ![r].v3 = row.v3]
          \/ ~restarts /\ Moved(r, "done")
       /\ seen' = [seen EXCEPT !.undone = @ \/ restarts]
    /\ UNCHANGED <<row, running, safeMode, crashes>>

-----------------------------------------------------------------------------
(* activatePluginBackends, and what follows it.                            *)

(* The backend runs the package it finds; the v3 runtime refuses a plugin  *)
(* that has a worker.                                                      *)
Launch(v3) ==
    IF v3 THEN /\ running.worker = 0
               /\ running' = [running EXCEPT !.worker = files.package]
          ELSE running' = [running EXCEPT !.host = files.package]

(* The activate route then enables the plugin, or finds that its row is    *)
(* gone ...                                                                *)
Started(r) ==
    /\ At(r, "starting") /\ files.package # 0
    /\ Launch(requests[r].v3)
    /\ IF requests[r].enables /\ row.version # 0
       THEN row' = [row EXCEPT !.enabled = TRUE] ELSE UNCHANGED row
    /\ Moved(r, IF requests[r].enables /\ row.version = 0 THEN "ending" ELSE "done")
    /\ UNCHANGED <<files, safeMode, crashes, seen>>

(* ... and ends the backends again.                                        *)
EndGone(r) ==
    /\ At(r, "ending") /\ Moved(r, "done") /\ EndBackends(TRUE)
    /\ UNCHANGED <<files, row, safeMode, crashes, seen>>

(* It does not start: markError disables the plugin, except when the       *)
(* activate route is refused a permission.  A worker of before runs on.    *)
StartFailed(r) ==
    /\ At(r, "starting") /\ Moved(r, "done")
    /\ running' = IF requests[r].v3 THEN [running EXCEPT !.left = running.worker # 0]
                  ELSE [running EXCEPT !.host = 0]
    /\ \/ row' = [row EXCEPT !.enabled = FALSE]
       \/ requests[r].enables /\ ~requests[r].v3 /\ UNCHANGED row
    /\ UNCHANGED <<files, safeMode, crashes, seen>>

(* A handler that starts the registered version. *)
Starting == [Handler("starting") EXCEPT !.v3 = row.v3]

(* POST /plugins/:id/activate *)
ActivateRoute ==
    /\ row.version # 0 /\ ~safeMode
    /\ Begin([Starting EXCEPT !.enables = TRUE])
    /\ UNCHANGED <<files, row, running, safeMode, crashes>>

(* POST /plugins/:id/disable *)
Disable ==
    /\ row.version # 0 /\ Begin(Handler("done"))
    /\ EndBackends(TRUE)
    /\ row' = [row EXCEPT !.enabled = FALSE]
    /\ UNCHANGED <<files, safeMode, crashes>>

(* DELETE /plugins/:id: the backend ends ... *)
Delete ==
    /\ Begin(Handler("removing"))
    /\ EndBackends(TRUE)
    /\ UNCHANGED <<files, row, safeMode, crashes>>

(* ... the directory is moved away, if it can be ... *)
RemoveFiles(r) ==
    /\ At(r, "removing")
    /\ \/ /\ files' = NoFiles
          /\ requests' = [requests EXCEPT ![r].at = "unregistering", ![r].moved = files]
       \/ files.root /\ Moved(r, "done") /\ UNCHANGED files
    /\ UNCHANGED <<row, running, safeMode, crashes, seen>>

(* ... and the row is deleted; when that throws, the directory comes back  *)
(* unless there is a new one, or the move fails.                           *)
Unregister(r) ==
    /\ At(r, "unregistering")
    /\ \/ row' = NoPlugin /\ requests' = [requests EXCEPT ![r] = Handler("done")]
       \/ Moved(r, "returning") /\ UNCHANGED row
    /\ UNCHANGED <<files, running, safeMode, crashes, seen>>

ReturnFiles(r) ==
    /\ At(r, "returning")
    /\ \/ /\ ~files.root /\ files' = requests[r].moved
          /\ requests' = [requests EXCEPT ![r] = Handler("done")]
          /\ UNCHANGED seen
       \/ /\ files.root \/ requests[r].moved.root
          /\ Moved(r, "done") /\ UNCHANGED files /\ Stuck
    /\ UNCHANGED <<row, running, safeMode, crashes>>

-----------------------------------------------------------------------------
(* Safe mode, and the server.                                              *)

(* The flag is set and what runs is ended. *)
EnterSafeMode ==
    /\ ~safeMode /\ safeMode' = TRUE
    /\ running' = NoRun
    /\ seen' = [seen EXCEPT !.raced = InFlight # {}]
    /\ UNCHANGED <<files, row, requests, crashes>>

(* activateEnabledPlugins, at the end of safe mode and at server start. *)
StartsEnabled == IF row.enabled THEN Starting ELSE Handler("done")

LeaveSafeMode ==
    /\ safeMode /\ safeMode' = FALSE
    /\ Begin(StartsEnabled)
    /\ UNCHANGED <<files, row, running, crashes>>

(* The server dies and comes up: handlers and backends are gone, files and *)
(* registry are as they were; enabled plugins start.                       *)
Restart ==
    /\ crashes < MaxServerCrashes /\ crashes' = crashes + 1
    /\ Len(requests) < MaxRequests
    /\ running' = NoRun /\ safeMode' = FALSE
    /\ requests' = Append([r \in Requests |-> Ended(requests[r])], StartsEnabled)
    /\ seen' = [seen EXCEPT !.crash = TRUE, !.raced = FALSE]
    /\ UNCHANGED <<files, row>>

Proceeds(r) ==
    \/ Prepared(r) \/ StageIncoming(r) \/ CheckPackage(r) \/ SetAside(r) \/ Swap(r)
    \/ RegisterVersion(r) \/ CleanUp(r) \/ UndoRemove(r) \/ UndoRestore(r) \/ UndoDiscard(r)
    \/ Started(r) \/ EndGone(r) \/ StartFailed(r) \/ RemoveFiles(r)
    \/ Unregister(r) \/ ReturnFiles(r)

PackagesNext ==
    \/ \E r \in Requests : Proceeds(r)
    \/ \E v3 \in BOOLEAN : Install(v3) \/ InstallRefused(v3)
    \/ ActivateRoute \/ Disable \/ Delete \/ WorkerEnds
    \/ EnterSafeMode \/ LeaveSafeMode \/ Restart

PackagesSpec == PackagesInit /\ [][PackagesNext]_packageVars

-----------------------------------------------------------------------------
Quiet == InFlight = {}

(* Without another request in between, an install replaces the package and *)
(* the registry row together or leaves both as they were, whichever step   *)
(* fails, except a step of a rollback: the installed package is the        *)
(* registered one, and what runs is an enabled plugin in its registered    *)
(* version, in the place that its manifest asks for.  A worker that was    *)
(* left over may run beside it.                                            *)
InstallConsistent ==
    Quiet /\ ~seen.overlap /\ ~seen.late /\ ~seen.crash /\ ~seen.stuck =>
        /\ files.package = row.version
        /\ running.host # 0 => running.host = row.version /\ row.enabled /\ ~row.v3
        /\ running.worker # 0 /\ ~running.left =>
             running.worker = row.version /\ row.enabled /\ row.v3

Holds(f, version) ==
    f.package = version \/ \E r \in 1..MaxRequests : f.rollback[r] = version

(* Neither a server crash nor a rollback that fails loses a package: while *)
(* the plugin is registered, its version is on disk, in place or set aside *)
(* (or moved by a delete).                                                 *)
KeepsACopy ==
    row.version # 0 /\ ~seen.overlap /\ ~seen.late =>
        \/ Holds(files, row.version)
        \/ \E r \in Requests : Holds(requests[r].moved, row.version)

(* Nothing runs in safe mode, unless a request was in flight when it was   *)
(* entered or a failed update restarted the previous version.              *)
SafeModeQuietUnlessRaced ==
    safeMode /\ ~seen.raced /\ ~seen.undone => running = NoRun

(* "Safe mode must not load native or legacy entry points - not even for   *)
(* an update installed over an already-enabled plugin (PLUG-51)."  The     *)
(* rollback of a failed update starts the previous version without asking  *)
(* for safe mode.                                                          *)
SafeModeQuiet == safeMode /\ ~seen.raced => running = NoRun

(* "atomically replace any previous installation with rollback on          *)
(* failure": after a server crash during an update nothing looks for the   *)
(* package that was set aside.                                             *)
InstallAtomic ==
    Quiet /\ ~seen.overlap /\ ~seen.late => files.package = row.version

(* Packages, in one: consistent, never lost, and quiet in safe mode.       *)
PackagesSafe == InstallConsistent /\ KeepsACopy /\ SafeModeQuietUnlessRaced
=============================================================================
