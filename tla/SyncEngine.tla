----------------------------- MODULE SyncEngine -----------------------------
(***************************************************************************)
(* Desired-state synchronisation: internal/sync (engine.go, plan.go,       *)
(* config_manager.go, status.go), the two callers of the engine            *)
(* (handlers/sync.go for pushes, server/lifecycle.go for pulls).           *)
(*                                                                         *)
(* A syncer is a goroutine that carries one desired state through          *)
(* Reconcile and Apply: a pusher is a POST /sync/desired-state request, a  *)
(* puller the start-up or drift-check goroutine.  Nothing serialises two   *)
(* syncers but the mutex taken around every single step of a plan.         *)
(*                                                                         *)
(* saveConfigMap writes with os.WriteFile: the file is truncated (Open)    *)
(* and then filled (Fill), both under the mutex, which sing-box does not   *)
(* take.  ConfigManager.mu is held exactly while the mutex is and is not   *)
(* a variable of its own.                                                  *)
(***************************************************************************)
EXTENDS ConfigFile, Integers, Sequences

CONSTANTS
    Pushers,         \* goroutines that serve requests of the control plane
    Pullers,         \* goroutines that make the agent's own fetches
    Desired,         \* the desired state published as version v; 0: the empty one
    MaxVersion,      \* bound on the versions the control plane publishes
    Plans(_, _, _),  \* plans for a desired state, given two reads of the file
    Execute(_, _),   \* Step.Execute on a document; no document: an error
    Undo(_, _),      \* Step.Rollback on a document; no document: an error
    None,            \* a local variable not set yet
    MaxSyncs,        \* bound on the number of synchronisations
    MaxIOFaults      \* bound on failing reads and writes of the file

Syncers == Pushers \cup Pullers

ASSUME SyncEngineAssumption ==
    /\ Free \notin Syncers
    /\ None \notin Content
    /\ MaxVersion \in Nat
    /\ MaxSyncs \in Nat
    /\ MaxIOFaults \in Nat

VARIABLES
    spc,      \* where each syncer is
    version,  \* the version each syncer carries
    seen,     \* the file as GetInbounds read it
    plan,     \* the steps to execute
    pos,      \* how many steps are in `executed'
    buf,      \* the document saveConfigMap is writing
    reloaded, \* the rollback follows a failed reload
    status,   \* SyncStatus: state, version, inSync
    plane,    \* the newest version the control plane has published
    syncs,    \* synchronisations so far
    ioFaults, \* failing reads and writes so far
    before    \* history: the file when the syncer began to execute its plan

syncerVars == <<spc, version, seen, plan, pos, buf, reloaded>>
boundVars == <<plane, syncs, ioFaults>>
engineVars == <<syncerVars, status, boundVars, before>>

SyncerPC == {"idle", "reconcile", "getInbounds", "getUsers", "apply", "exec", "fill",
             "reload", "undo", "refill", "rereload", "done", "fail"}

SyncState == {"synced", "syncing", "error"}

NewSyncStatus == [state |-> "synced", version |-> -1, inSync |-> TRUE]
UpdateSyncing == status' = [status EXCEPT !.state = "syncing"]
UpdateError == status' = [status EXCEPT !.state = "error", !.inSync = FALSE]

UpdateSync(v) ==
    status' = [state |-> "synced", version |-> v, inSync |-> TRUE]
-----------------------------------------------------------------------------
EngineInit ==
    /\ spc = [s \in Syncers |-> "idle"]
    /\ version = [s \in Syncers |-> 0]
    /\ seen = [s \in Syncers |-> None]
    /\ plan = [s \in Syncers |-> <<>>]
    /\ pos = [s \in Syncers |-> 0]
    /\ buf = [s \in Syncers |-> None]
    /\ reloaded = [s \in Syncers |-> FALSE]
    /\ status = NewSyncStatus
    /\ plane = 0
    /\ syncs = 0
    /\ ioFaults = 0
    /\ before = [s \in Syncers |-> None]

Goto(s, pc) == spc' = [spc EXCEPT ![s] = pc]

\* The control plane publishes the next version (external).
Publish ==
    /\ plane < MaxVersion
    /\ plane' = plane + 1
    /\ UNCHANGED <<syncerVars, status, syncs, ioFaults, before, fileVars>>

\* A goroutine takes on version v.
Start(s, v) ==
    /\ spc[s] = "idle"
    /\ syncs < MaxSyncs
    /\ syncs' = syncs + 1
    /\ version' = [version EXCEPT ![s] = v]
    /\ Goto(s, "reconcile")
    /\ UNCHANGED <<seen, plan, pos, buf, reloaded, status, plane, ioFaults, before, fileVars>>

\* ApplyDesiredState: the version checks, made before anything else and without
\* the status mutex.  A push may be late or repeated: any published version.
Push(s) ==
    /\ s \in Pushers
    /\ \E v \in 1..plane :
         /\ v > status.version
         /\ Start(s, v)

\* fetchAndApplyDesiredState: whatever FetchConfig returned, and no check.  An
\* envelope that reports success without data leaves the zero Config: version 0
\* of an empty desired state.
Pull(s) ==
    /\ s \in Pullers
    /\ \E v \in {0, plane} : Start(s, v)

\* Reconcile begins.
BeginReconcile(s) ==
    /\ spc[s] = "reconcile"
    /\ UpdateSyncing
    /\ Goto(s, "getInbounds")
    /\ UNCHANGED <<version, seen, plan, pos, buf, reloaded, boundVars, before, fileVars>>

\* Mutant of ReadOK: the error of json.Unmarshal is not checked.
ReadUnparsed == lock = Free /\ UNCHANGED ioFaults

\* A read of the file under the mutex succeeds, or fails: the bytes are no
\* document, or the read itself fails.
ReadOK == lock = Free /\ disk \in Config /\ UNCHANGED ioFaults
ReadFails ==
    /\ lock = Free
    /\ \/ disk = Torn /\ UNCHANGED ioFaults
       \/ ioFaults < MaxIOFaults /\ ioFaults' = ioFaults + 1

GetInboundsStep(s) ==
    /\ spc[s] = "getInbounds"
    /\ \/ /\ ReadOK
          /\ seen' = [seen EXCEPT ![s] = disk]
          /\ Goto(s, "getUsers")
       \/ /\ ReadFails
          /\ Goto(s, "fail")
          /\ UNCHANGED seen
    /\ UNCHANGED <<version, plan, pos, buf, reloaded, status, plane, syncs, before, fileVars>>

\* GetUsers is a second read: the file may have changed since the first.
GetUsersStep(s) ==
    /\ spc[s] = "getUsers"
    /\ \/ /\ ReadOK
          /\ \E p \in Plans(Desired[version[s]], seen[s], disk) : plan' = [plan EXCEPT ![s] = p]
          /\ Goto(s, "apply")
       \/ /\ ReadFails
          /\ Goto(s, "fail")
          /\ UNCHANGED plan
    /\ UNCHANGED <<version, seen, pos, buf, reloaded, status, plane, syncs, before, fileVars>>

\* Apply begins, whether or not the plan has steps.
BeginApply(s) ==
    /\ spc[s] = "apply"
    /\ UpdateSyncing
    /\ before' = [before EXCEPT ![s] = disk]
    /\ Goto(s, "exec")
    /\ UNCHANGED <<version, seen, plan, pos, buf, reloaded, boundVars, fileVars>>
-----------------------------------------------------------------------------
\* Mutant of Open: the mutex is not taken.
OpenUnlocked(s, doc, pc) ==
    /\ disk' = Torn
    /\ buf' = [buf EXCEPT ![s] = doc]
    /\ Goto(s, pc)
    /\ UNCHANGED <<lock, loaded, unseen, flakes, ioFaults>>

\* saveConfigMap opens the file with O_TRUNC; the mutex is held.
Open(s, doc, pc) ==
    /\ lock' = s
    /\ disk' = Torn
    /\ buf' = [buf EXCEPT ![s] = doc]
    /\ Goto(s, pc)
    /\ UNCHANGED <<loaded, unseen, flakes, ioFaults>>

\* A step of the manager ends without having touched the file: an error of the
\* step itself, a file that does not parse, or a failing read or open.
StepFails(s, result, pc) ==
    /\ \/ disk \in Config /\ result \notin Config /\ UNCHANGED ioFaults
       \/ ReadFails
    /\ Goto(s, pc)
    /\ UNCHANGED <<buf, fileVars>>

\* Execute: the next step goes into `executed' before it is executed, so a step
\* that fails is rolled back with the others.
ExecStep(s) ==
    /\ spc[s] = "exec"
    /\ pos[s] < Len(plan[s])
    /\ lock = Free
    /\ pos' = [pos EXCEPT ![s] = @ + 1]
    /\ LET result == Execute(disk, plan[s][pos[s] + 1])
       IN  \/ disk \in Config /\ result \in Config /\ Open(s, result, "fill")
           \/ StepFails(s, result, "undo")
    /\ UNCHANGED <<version, seen, plan, reloaded, status, plane, syncs, before>>

\* The write of saveConfigMap succeeds or leaves the file truncated.
FillOK(s) ==
    /\ disk' = buf[s]
    /\ UNCHANGED ioFaults
FillFails ==
    /\ ioFaults < MaxIOFaults
    /\ ioFaults' = ioFaults + 1
    /\ UNCHANGED disk

\* Mutant of EndFill: the deferred unlock is missing.
EndFillLocked(s) ==
    /\ buf' = [buf EXCEPT ![s] = None]
    /\ UNCHANGED <<lock, loaded, unseen, flakes>>

EndFill(s) ==
    /\ lock' = Free
    /\ buf' = [buf EXCEPT ![s] = None]
    /\ UNCHANGED <<loaded, unseen, flakes>>

Fill(s) ==
    /\ spc[s] = "fill"
    /\ \/ FillOK(s) /\ Goto(s, "exec")
       \/ FillFails /\ Goto(s, "undo")
    /\ EndFill(s)
    /\ UNCHANGED <<version, seen, plan, pos, reloaded, status, plane, syncs, before>>

\* Mutant of ExecDone: only the files are brought up to date.
ExecDoneQuiet(s) ==
    /\ spc[s] = "exec"
    /\ pos[s] = Len(plan[s])
    /\ Goto(s, "done")
    /\ UNCHANGED <<version, seen, plan, pos, buf, reloaded, status, boundVars, before, fileVars>>

\* All steps are executed; a plan without steps does not reload.
ExecDone(s) ==
    /\ spc[s] = "exec"
    /\ pos[s] = Len(plan[s])
    /\ Goto(s, IF pos[s] > 0 THEN "reload" ELSE "done")
    /\ UNCHANGED <<version, seen, plan, pos, buf, reloaded, status, boundVars, before, fileVars>>

ReloadStep(s) ==
    /\ spc[s] = "reload"
    /\ \/ Reload(TRUE) /\ Goto(s, "done") /\ UNCHANGED reloaded
       \/ Reload(FALSE) /\ Goto(s, "undo") /\ reloaded' = [reloaded EXCEPT ![s] = TRUE]
    /\ UNCHANGED <<version, seen, plan, pos, buf, status, boundVars, before>>

\* rollbackExecuted: last step first; the first error ends it.
UndoStep(s) ==
    /\ spc[s] = "undo"
    /\ pos[s] > 0
    /\ lock = Free
    /\ LET result == Undo(disk, plan[s][pos[s]])
       IN  \/ disk \in Config /\ result \in Config /\ Open(s, result, "refill")
           \/ StepFails(s, result, "fail")
    /\ UNCHANGED <<version, seen, plan, pos, reloaded, status, plane, syncs, before>>

Refill(s) ==
    /\ spc[s] = "refill"
    /\ \/ /\ FillOK(s)
          /\ pos' = [pos EXCEPT ![s] = @ - 1]
          /\ Goto(s, "undo")
       \/ /\ FillFails
          /\ Goto(s, "fail")
          /\ UNCHANGED pos
    /\ EndFill(s)
    /\ UNCHANGED <<version, seen, plan, reloaded, status, plane, syncs, before>>

UndoDone(s) ==
    /\ spc[s] = "undo"
    /\ pos[s] = 0
    /\ Goto(s, IF reloaded[s] THEN "rereload" ELSE "fail")
    /\ UNCHANGED <<version, seen, plan, pos, buf, reloaded, status, boundVars, before, fileVars>>

ReReload(s) ==
    /\ spc[s] = "rereload"
    /\ \E ok \in BOOLEAN : Reload(ok)
    /\ Goto(s, "fail")
    /\ UNCHANGED <<version, seen, plan, pos, buf, reloaded, status, boundVars, before>>
-----------------------------------------------------------------------------
\* The goroutine returns; its locals are gone.
Leave(s) ==
    /\ Goto(s, "idle")
    /\ version' = [version EXCEPT ![s] = 0]
    /\ seen' = [seen EXCEPT ![s] = None]
    /\ plan' = [plan EXCEPT ![s] = <<>>]
    /\ pos' = [pos EXCEPT ![s] = 0]
    /\ reloaded' = [reloaded EXCEPT ![s] = FALSE]
    /\ before' = [before EXCEPT ![s] = None]
    /\ UNCHANGED <<buf, boundVars, fileVars>>

Succeed(s) ==
    /\ spc[s] = "done"
    /\ UpdateSync(version[s])
    /\ Leave(s)

\* Mutant of Fail: an error return without UpdateError.
FailSilently(s) ==
    /\ spc[s] = "fail"
    /\ Leave(s)
    /\ UNCHANGED status

Fail(s) ==
    /\ spc[s] = "fail"
    /\ UpdateError
    /\ Leave(s)
-----------------------------------------------------------------------------
Sync(s) ==
    \/ BeginReconcile(s) \/ GetInboundsStep(s) \/ GetUsersStep(s) \/ BeginApply(s)
    \/ ExecStep(s) \/ Fill(s) \/ ExecDone(s) \/ ReloadStep(s)
    \/ UndoStep(s) \/ Refill(s) \/ UndoDone(s) \/ ReReload(s)
    \/ Succeed(s) \/ Fail(s)

EngineNext == Publish \/ \E s \in Syncers : Push(s) \/ Pull(s) \/ Sync(s)

EngineStart == FileInit /\ EngineInit
allVars == <<fileVars, engineVars>>
EngineSpec == EngineStart /\ [][EngineNext]_allVars

\* A goroutine that has taken on a desired state keeps running.
EngineFairness == \A s \in Syncers : WF_allVars(Sync(s))
FairEngineSpec == EngineSpec /\ EngineFairness
-----------------------------------------------------------------------------
\* A plan is whatever Plans returns; its elements are not typed here.
EngineTypeOK ==
    /\ spc \in [Syncers -> SyncerPC]
    /\ version \in [Syncers -> 0..MaxVersion]
    /\ seen \in [Syncers -> Config \cup {None}]
    /\ DOMAIN plan = Syncers
    /\ pos \in [Syncers -> Nat]
    /\ buf \in [Syncers -> Config \cup {None}]
    /\ reloaded \in [Syncers -> BOOLEAN]
    /\ status \in [state : SyncState, version : -1..MaxVersion, inSync : BOOLEAN]
    /\ plane \in 0..MaxVersion
    /\ syncs \in Nat
    /\ ioFaults \in Nat
    /\ before \in [Syncers -> Content \cup {None}]

EngineFileTypeOK == FileTypeOK /\ lock \in Syncers \cup {Free}

SyncTypeOK == EngineFileTypeOK /\ EngineTypeOK

\* Whoever reads the file under the mutex reads a whole document, although
\* saveConfigMap truncates before it writes ("a concurrent write from the other
\* config writer is never observed half-applied"), as long as no write fails.
WholeWhenUnlocked == lock = Free /\ ioFaults = 0 => disk \in Config

\* The status says "syncing" only while some syncer is on its way to replace it:
\* neither an empty plan, nor a failure, nor another syncer leaves it behind
\* ("without it the engine would stay in syncing forever").
SyncingMeansActive ==
    status.state = "syncing" =>
        \E s \in Syncers : spc[s] \notin {"idle", "reconcile"}

\* The applied version never goes back: ApplyDesiredState answers 409 to a
\* version that is not newer than the current one.
VersionNeverRegresses == [][status'.version >= status.version]_allVars

\* A synchronisation that began is over some time: the status leaves "syncing".
SyncingEnds == status.state = "syncing" ~> status.state # "syncing"
=============================================================================
