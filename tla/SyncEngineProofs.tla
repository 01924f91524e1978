-------------------------- MODULE SyncEngineProofs --------------------------
(***************************************************************************)
(* Proofs about SyncEngine, for any number of concurrent syncers, any      *)
(* documents, plans and bounds, and about SyncPlans, for all documents,    *)
(* desired states and plans.                                               *)
(*                                                                         *)
(* WholeWhenUnlocked needs to know that exactly the syncer that truncated  *)
(* the file holds the mutex and has a document to fill it with (HoldInv).  *)
(* That, the types and SyncingMeansActive (EngineCore) speak of the        *)
(* engine's own state and hold beside another writer too; what a step does *)
(* to the file is said once (EngineMoves).                                 *)
(*                                                                         *)
(* The properties of SyncPlans need to know where a syncer's plan has      *)
(* taken the document it is writing (OnTheWay, PlanInv), and for the       *)
(* rollback how far back it has come (RestoreInv).  They hold as long as   *)
(* no two synchronisations overlap (Serial).                               *)
(***************************************************************************)
EXTENDS SyncPlans, ConfigDataProofs

HoldInv ==
    /\ \A s \in Syncers : spc[s] \in {"fill", "refill"} <=> lock = s
    /\ \A s \in Syncers : lock = s => buf[s] \in Config
    /\ \A s \in Syncers : spc[s] \in {"fill", "refill"} => pos[s] > 0

EngineCore == EngineTypeOK /\ HoldInv /\ SyncingMeansActive

EngineInv == EngineFileTypeOK /\ EngineCore /\ WholeWhenUnlocked
-----------------------------------------------------------------------------
USE ConfigFileAssumption, SyncEngineAssumption
USE DEF Content, fileVars, syncerVars, boundVars

\* A new version at the control plane does not touch the agent.
LEMMA PublishKeeps ==
    ASSUME FileTypeOK, EngineCore, Publish
    PROVE  EngineCore'
<1>1. EngineTypeOK'
  BY DEF EngineCore, EngineTypeOK, Publish
<1>2. HoldInv'
  BY DEF EngineCore, HoldInv, Publish
<1>3. SyncingMeansActive'
  BY DEF EngineCore, SyncingMeansActive, Publish
<1>4. QED
  BY <1>1, <1>2, <1>3 DEF EngineCore

\* An accepted push starts a syncer that holds nothing.
LEMMA PushKeeps ==
    ASSUME FileTypeOK, EngineCore, NEW s \in Syncers, Push(s)
    PROVE  EngineCore'
<1>1. EngineTypeOK'
  BY DEF EngineCore, EngineTypeOK, Push, Start, Goto, SyncerPC
<1>2. HoldInv'
  BY DEF EngineCore, HoldInv, Push, Start, Goto
<1>3. SyncingMeansActive'
  BY DEF EngineCore, SyncingMeansActive, Push, Start, Goto
<1>4. QED
  BY <1>1, <1>2, <1>3 DEF EngineCore

\* A pull starts a syncer that holds nothing.
LEMMA PullKeeps ==
    ASSUME FileTypeOK, EngineCore, NEW s \in Syncers, Pull(s)
    PROVE  EngineCore'
<1>1. EngineTypeOK'
  BY DEF EngineCore, EngineTypeOK, Pull, Start, Goto, SyncerPC
<1>2. HoldInv'
  BY DEF EngineCore, HoldInv, Pull, Start, Goto
<1>3. SyncingMeansActive'
  BY DEF EngineCore, SyncingMeansActive, Pull, Start, Goto
<1>4. QED
  BY <1>1, <1>2, <1>3 DEF EngineCore

\* Reconcile sets the status to "syncing" and its syncer is on its way.
LEMMA BeginReconcileKeeps ==
    ASSUME FileTypeOK, EngineCore, NEW s \in Syncers, BeginReconcile(s)
    PROVE  EngineCore'
<1>1. EngineTypeOK'
  BY DEF EngineCore, EngineTypeOK, BeginReconcile, Goto, SyncState, SyncerPC,
     UpdateSyncing
<1>2. HoldInv'
  BY DEF EngineCore, HoldInv, BeginReconcile, Goto
<1>3. SyncingMeansActive'
  BY DEF EngineCore, SyncingMeansActive, BeginReconcile, Goto, EngineTypeOK
<1>4. QED
  BY <1>1, <1>2, <1>3 DEF EngineCore

\* GetInbounds only reads; a failed read leads to the error status.
LEMMA GetInboundsStepKeeps ==
    ASSUME FileTypeOK, EngineCore, NEW s \in Syncers, GetInboundsStep(s)
    PROVE  EngineCore'
<1>1. EngineTypeOK'
  BY DEF EngineCore, EngineTypeOK, GetInboundsStep, Goto, SyncerPC, ReadOK, ReadFails
<1>2. HoldInv'
  BY DEF EngineCore, HoldInv, GetInboundsStep, Goto, EngineTypeOK
<1>3. SyncingMeansActive'
  BY DEF EngineCore, SyncingMeansActive, GetInboundsStep, Goto, EngineTypeOK
<1>4. QED
  BY <1>1, <1>2, <1>3 DEF EngineCore

\* GetUsers only reads; a failed read leads to the error status.
LEMMA GetUsersStepKeeps ==
    ASSUME FileTypeOK, EngineCore, NEW s \in Syncers, GetUsersStep(s)
    PROVE  EngineCore'
<1>1. EngineTypeOK'
  BY DEF EngineCore, EngineTypeOK, GetUsersStep, Goto, SyncerPC, ReadOK, ReadFails
<1>2. HoldInv'
  BY DEF EngineCore, HoldInv, GetUsersStep, Goto, EngineTypeOK
<1>3. SyncingMeansActive'
  BY DEF EngineCore, SyncingMeansActive, GetUsersStep, Goto, EngineTypeOK
<1>4. QED
  BY <1>1, <1>2, <1>3 DEF EngineCore

\* Apply sets the status to "syncing" and its syncer is on its way.
LEMMA BeginApplyKeeps ==
    ASSUME FileTypeOK, EngineCore, NEW s \in Syncers, BeginApply(s)
    PROVE  EngineCore'
<1>1. EngineTypeOK'
  BY DEF EngineCore, EngineTypeOK, BeginApply, Goto, SyncState, SyncerPC,
     UpdateSyncing, FileTypeOK
<1>2. HoldInv'
  BY DEF EngineCore, HoldInv, BeginApply, Goto
<1>3. SyncingMeansActive'
  BY DEF EngineCore, SyncingMeansActive, BeginApply, Goto
<1>4. QED
  BY <1>1, <1>2, <1>3 DEF EngineCore

\* A step takes the mutex before it truncates the file, or leaves the file alone.
LEMMA ExecStepKeeps ==
    ASSUME FileTypeOK, EngineCore, NEW s \in Syncers, ExecStep(s)
    PROVE  EngineCore'
<1>1. EngineTypeOK'
  <2>1. spc' \in [Syncers -> SyncerPC]
    <3>1. Goto(s, "fill") \/ Goto(s, "undo")
      BY DEF ExecStep, Open, StepFails
    <3>2. QED
      BY <3>1 DEF EngineCore, Goto, SyncerPC, EngineTypeOK
  <2>1a. pos' \in [Syncers -> Nat]
    BY DEF EngineCore, ExecStep, Open, StepFails, EngineTypeOK
  <2>2. buf' \in [Syncers -> Config \cup {None}]
    <3>1. buf' = buf \/ \E d \in Config : buf' = [buf EXCEPT ![s] = d]
      BY DEF ExecStep, Open, StepFails
    <3>2. QED
      BY <3>1 DEF EngineCore, EngineTypeOK
  <2>3. ioFaults' \in Nat
    BY DEF EngineCore, ExecStep, Open, StepFails, ReadFails, EngineTypeOK
  <2>4. QED
    BY <2>1, <2>1a, <2>2, <2>3 DEF EngineCore, ExecStep, EngineTypeOK
<1>2. HoldInv'
  BY DEF EngineCore, HoldInv, ExecStep, Open, Goto, StepFails, EngineTypeOK
<1>3. SyncingMeansActive'
  BY DEF EngineCore, SyncingMeansActive, ExecStep, Open, Goto, StepFails, EngineTypeOK
<1>4. QED
  BY <1>1, <1>2, <1>3 DEF EngineCore

\* The syncer fills the file it truncated and releases the mutex; a failed write
\* is counted.
LEMMA FillKeeps ==
    ASSUME FileTypeOK, EngineCore, NEW s \in Syncers, Fill(s)
    PROVE  EngineCore'
<1>1. EngineTypeOK'
  BY DEF EngineCore, EngineTypeOK, Fill, Goto, SyncerPC, FillOK, FillFails, EndFill
<1>2. HoldInv'
  BY DEF EngineCore, HoldInv, Fill, Goto, EndFill, EngineTypeOK
<1>3. SyncingMeansActive'
  BY DEF EngineCore, SyncingMeansActive, Fill, Goto, EngineTypeOK
<1>4. QED
  BY <1>1, <1>2, <1>3 DEF EngineCore

\* The end of the steps leads to the reload, or to "done" for an empty plan.
LEMMA ExecDoneKeeps ==
    ASSUME FileTypeOK, EngineCore, NEW s \in Syncers, ExecDone(s)
    PROVE  EngineCore'
<1>1. EngineTypeOK'
  BY DEF EngineCore, EngineTypeOK, ExecDone, Goto, SyncerPC
<1>2. HoldInv'
  BY DEF EngineCore, HoldInv, ExecDone, Goto
<1>3. SyncingMeansActive'
  BY DEF EngineCore, SyncingMeansActive, ExecDone, Goto
<1>4. QED
  BY <1>1, <1>2, <1>3 DEF EngineCore

\* The reload after the steps changes what sing-box runs and nothing else.
LEMMA ReloadStepKeeps ==
    ASSUME FileTypeOK, EngineCore, NEW s \in Syncers, ReloadStep(s)
    PROVE  EngineCore'
<1>1. EngineTypeOK'
  BY DEF EngineCore, EngineTypeOK, ReloadStep, Goto, SyncerPC
<1>2. HoldInv'
  BY DEF EngineCore, HoldInv, ReloadStep, Goto, Reload, EngineTypeOK
<1>3. SyncingMeansActive'
  BY DEF EngineCore, SyncingMeansActive, ReloadStep, Goto, EngineTypeOK
<1>4. QED
  BY <1>1, <1>2, <1>3 DEF EngineCore

\* A rollback step takes the mutex before it truncates, or leaves the file alone.
LEMMA UndoStepKeeps ==
    ASSUME FileTypeOK, EngineCore, NEW s \in Syncers, UndoStep(s)
    PROVE  EngineCore'
<1>1. EngineTypeOK'
  BY DEF EngineCore, EngineTypeOK, UndoStep, Open, Goto, SyncerPC, StepFails,
     ReadFails
<1>2. HoldInv'
  BY DEF EngineCore, HoldInv, UndoStep, Open, Goto, StepFails, EngineTypeOK
<1>3. SyncingMeansActive'
  BY DEF EngineCore, SyncingMeansActive, UndoStep, Open, Goto, StepFails, EngineTypeOK
<1>4. QED
  BY <1>1, <1>2, <1>3 DEF EngineCore

\* The rollback fills the file it truncated and releases the mutex; a failed write
\* is counted.
LEMMA RefillKeeps ==
    ASSUME FileTypeOK, EngineCore, NEW s \in Syncers, Refill(s)
    PROVE  EngineCore'
<1>1. EngineTypeOK'
  BY DEF EngineCore, EngineTypeOK, Refill, Goto, HoldInv, SyncerPC, FillOK, FillFails,
     EndFill
<1>2. HoldInv'
  BY DEF EngineCore, HoldInv, Refill, Goto, EndFill, EngineTypeOK
<1>3. SyncingMeansActive'
  BY DEF EngineCore, SyncingMeansActive, Refill, Goto, EngineTypeOK
<1>4. QED
  BY <1>1, <1>2, <1>3 DEF EngineCore

\* The end of the rollback leads to a reload or to the error status.
LEMMA UndoDoneKeeps ==
    ASSUME FileTypeOK, EngineCore, NEW s \in Syncers, UndoDone(s)
    PROVE  EngineCore'
<1>1. EngineTypeOK'
  BY DEF EngineCore, EngineTypeOK, UndoDone, Goto, SyncerPC
<1>2. HoldInv'
  BY DEF EngineCore, HoldInv, UndoDone, Goto
<1>3. SyncingMeansActive'
  BY DEF EngineCore, SyncingMeansActive, UndoDone, Goto
<1>4. QED
  BY <1>1, <1>2, <1>3 DEF EngineCore

\* The reload after a rollback changes what sing-box runs and nothing else.
LEMMA ReReloadKeeps ==
    ASSUME FileTypeOK, EngineCore, NEW s \in Syncers, ReReload(s)
    PROVE  EngineCore'
<1>1. EngineTypeOK'
  BY DEF EngineCore, EngineTypeOK, ReReload, Goto, SyncerPC
<1>2. HoldInv'
  BY DEF EngineCore, HoldInv, ReReload, Goto, Reload
<1>3. SyncingMeansActive'
  BY DEF EngineCore, SyncingMeansActive, ReReload, Goto
<1>4. QED
  BY <1>1, <1>2, <1>3 DEF EngineCore

\* UpdateSync replaces "syncing" when the syncer returns.
LEMMA SucceedKeeps ==
    ASSUME FileTypeOK, EngineCore, NEW s \in Syncers, Succeed(s)
    PROVE  EngineCore'
<1>1. EngineTypeOK'
  BY DEF EngineCore, EngineTypeOK, Succeed, Goto, SyncState, SyncerPC, UpdateSync,
     Leave
<1>2. HoldInv'
  BY DEF EngineCore, HoldInv, Succeed, Goto, Leave
<1>3. SyncingMeansActive'
  BY DEF EngineCore, SyncingMeansActive, Succeed, Goto, SyncState, UpdateSync
<1>4. QED
  BY <1>1, <1>2, <1>3 DEF EngineCore

\* UpdateError replaces "syncing" when the syncer returns.
LEMMA FailKeeps ==
    ASSUME FileTypeOK, EngineCore, NEW s \in Syncers, Fail(s)
    PROVE  EngineCore'
<1>1. EngineTypeOK'
  <2>1. status' \in [state : SyncState, version : -1..MaxVersion, inSync : BOOLEAN]
    BY DEF EngineCore, Fail, SyncState, UpdateError, EngineTypeOK
  <2>2. QED
    BY <2>1 DEF EngineCore, Fail, Goto, SyncerPC, Leave, EngineTypeOK
<1>2. HoldInv'
  BY DEF EngineCore, HoldInv, Fail, Goto, Leave
<1>3. SyncingMeansActive'
  BY DEF EngineCore, SyncingMeansActive, Fail, Goto, SyncState, UpdateError
<1>4. QED
  BY <1>1, <1>2, <1>3 DEF EngineCore

\* Somebody else's step, which leaves the engine's state and its hold on the mutex
\* alone, keeps what the engine knows of itself.
LEMMA EngineUntouched ==
    ASSUME EngineCore, UNCHANGED engineVars, \A s \in Syncers : lock' = s <=> lock = s
    PROVE  EngineCore'
<1> USE DEF engineVars, EngineCore
<1>1. EngineTypeOK'
  BY DEF EngineTypeOK
<1>2. HoldInv' /\ SyncingMeansActive'
  BY DEF HoldInv, SyncingMeansActive
<1>3. QED
  BY <1>1, <1>2

\* Every step of every syncer keeps what the engine knows of itself.
LEMMA EngineCoreKept ==
    ASSUME FileTypeOK, EngineCore, EngineNext
    PROVE  EngineCore'
<1>1. CASE Publish
  BY <1>1, PublishKeeps
<1>2. ASSUME NEW s \in Syncers, Push(s) \/ Pull(s)
      PROVE  EngineCore'
  BY <1>2, PushKeeps, PullKeeps
<1>3. ASSUME NEW s \in Syncers, Sync(s)
      PROVE  EngineCore'
  BY <1>3, BeginReconcileKeeps, GetInboundsStepKeeps, GetUsersStepKeeps, BeginApplyKeeps,
     ExecStepKeeps, FillKeeps, ExecDoneKeeps, ReloadStepKeeps, UndoStepKeeps, RefillKeeps,
     UndoDoneKeeps, ReReloadKeeps, SucceedKeeps, FailKeeps
     DEF Sync
<1>4. QED
  BY <1>1, <1>2, <1>3 DEF EngineNext
-----------------------------------------------------------------------------
(***************************************************************************)
(* What a step of the engine does to the file.                             *)
(***************************************************************************)
Opens(s) ==
    /\ lock = Free /\ lock' = s
    /\ disk' = Torn
    /\ UNCHANGED <<loaded, unseen, flakes, ioFaults>>

Closes(s) ==
    /\ lock = s /\ lock' = Free
    /\ \/ disk' \in Config /\ UNCHANGED ioFaults
       \/ ioFaults' = ioFaults + 1 /\ UNCHANGED disk
    /\ UNCHANGED <<loaded, unseen, flakes>>

LeavesFile ==
    /\ ioFaults' \in {ioFaults, ioFaults + 1}
    /\ UNCHANGED fileVars

EngineMoves ==
    \/ \E s \in Syncers : Opens(s) \/ Closes(s)
    \/ \E ok \in BOOLEAN : Reload(ok) /\ UNCHANGED ioFaults
    \/ LeavesFile

\* A step of a plan or of its rollback opens the file under the mutex, fills it
\* and gives the mutex back, reloads, or leaves the file alone.
LEMMA EngineStepMoves ==
    ASSUME FileTypeOK, EngineCore, EngineNext
    PROVE  EngineMoves
<1> USE DEF EngineCore
<1>1. CASE Publish
  BY <1>1 DEF Publish, EngineMoves, LeavesFile
<1>2. ASSUME NEW s \in Syncers, Push(s) \/ Pull(s)
      PROVE  EngineMoves
  BY <1>2 DEF Push, Pull, Start, EngineMoves, LeavesFile
<1>3. ASSUME NEW s \in Syncers, Sync(s)
      PROVE  EngineMoves
  <2>1. CASE BeginReconcile(s) \/ BeginApply(s) \/ ExecDone(s) \/ UndoDone(s)
             \/ Succeed(s) \/ Fail(s)
    <3>1. UNCHANGED <<fileVars, ioFaults>>
      BY <2>1 DEF BeginReconcile, BeginApply, ExecDone, UndoDone, Succeed, Fail, Leave
    <3>2. QED
      BY <3>1 DEF EngineMoves, LeavesFile
  <2>2. CASE GetInboundsStep(s) \/ GetUsersStep(s)
    <3>1. UNCHANGED fileVars /\ ioFaults' \in {ioFaults, ioFaults + 1}
      BY <2>2 DEF GetInboundsStep, GetUsersStep, ReadOK, ReadFails
    <3>2. QED
      BY <3>1 DEF EngineMoves, LeavesFile
  <2>3. CASE ExecStep(s) \/ UndoStep(s)
    BY <2>3 DEF ExecStep, UndoStep, Open, StepFails, ReadFails, EngineMoves, Opens,
       LeavesFile
  <2>4. CASE Fill(s) \/ Refill(s)
    BY <2>4 DEF Fill, Refill, FillOK, FillFails, EndFill, HoldInv, EngineMoves, Closes
  <2>5. CASE ReloadStep(s) \/ ReReload(s)
    BY <2>5 DEF ReloadStep, ReReload, EngineMoves
  <2>6. QED
    BY <1>3, <2>1, <2>2, <2>3, <2>4, <2>5 DEF Sync
<1>4. QED
  BY <1>1, <1>2, <1>3 DEF EngineNext

\* Whatever the engine does, the file holds a document or is torn, and sing-box
\* runs a document or nothing.
LEMMA EngineFileTyped ==
    ASSUME FileTypeOK, EngineMoves
    PROVE  FileTypeOK'
<1>1. ASSUME NEW s \in Syncers, Opens(s) \/ Closes(s)
      PROVE  FileTypeOK'
  BY <1>1 DEF Opens, Closes, FileTypeOK
<1>2. ASSUME NEW ok \in BOOLEAN, Reload(ok)
      PROVE  FileTypeOK'
  <2>1. loaded' \in Config \cup {Down}
    BY <1>2 DEF FileTypeOK, Reload, Runnable
  <2>2. disk' \in Content /\ flakes' \in Nat
    BY <1>2 DEF FileTypeOK, Reload
  <2>3. unseen' \in BOOLEAN
    BY <1>2 DEF Reload
  <2>4. QED
    BY <2>1, <2>2, <2>3 DEF FileTypeOK
<1>3. CASE LeavesFile
  BY <1>3 DEF LeavesFile, FileTypeOK
<1>4. QED
  BY <1>1, <1>2, <1>3 DEF EngineMoves
-----------------------------------------------------------------------------
\* The agent starts with a whole file, no syncer and the status "synced".
LEMMA EngineStartInv == EngineStart => EngineInv
<1> SUFFICES ASSUME EngineStart PROVE EngineInv
  OBVIOUS
<1> USE DEF EngineStart, FileInit, EngineInit
<1>1. EngineFileTypeOK
  BY DEF EngineFileTypeOK, FileTypeOK, Runnable
<1>2. EngineTypeOK
  <2>1. NewSyncStatus \in [state : SyncState, version : -1..MaxVersion, inSync : BOOLEAN]
    BY DEF NewSyncStatus, SyncState
  <2>2. QED
    BY <2>1 DEF EngineTypeOK, SyncerPC
<1>3. HoldInv
  BY DEF HoldInv
<1>4. WholeWhenUnlocked
  BY DEF WholeWhenUnlocked, Runnable
<1>5. SyncingMeansActive
  BY DEF SyncingMeansActive, NewSyncStatus
<1>6. QED
  BY <1>1, <1>2, <1>3, <1>4, <1>5 DEF EngineInv, EngineCore

\* The invariant holds of every behaviour of the engine: each step of Reconcile
\* and Apply, of any syncer, keeps it.
THEOREM EngineInvariant == EngineSpec => []EngineInv
<1>1. ASSUME EngineInv, [EngineNext]_allVars
      PROVE  EngineInv'
  <2>1. CASE EngineNext
    <3>1. FileTypeOK /\ EngineCore
      BY <1>1 DEF EngineInv, EngineFileTypeOK
    <3>2. EngineMoves /\ EngineCore'
      BY <2>1, <3>1, EngineStepMoves, EngineCoreKept
    <3>3. FileTypeOK'
      BY <3>1, <3>2, EngineFileTyped
    <3>4. lock' \in Syncers \cup {Free}
      BY <1>1, <3>2 DEF EngineMoves, Opens, Closes, LeavesFile, Reload, EngineInv,
         EngineFileTypeOK
    <3>5. WholeWhenUnlocked'
      <4>1. ioFaults \in Nat
        BY <3>1 DEF EngineCore, EngineTypeOK
      <4>2. ASSUME NEW s \in Syncers, Opens(s) \/ Closes(s)
            PROVE  WholeWhenUnlocked'
        BY <4>1, <4>2 DEF WholeWhenUnlocked, Opens, Closes
      <4>3. ASSUME UNCHANGED <<lock, disk>>, ioFaults' \in {ioFaults, ioFaults + 1}
            PROVE  WholeWhenUnlocked'
        BY <1>1, <4>1, <4>3 DEF WholeWhenUnlocked, EngineInv
      <4>4. QED
        BY <3>2, <4>2, <4>3 DEF EngineMoves, LeavesFile, Reload
    <3>6. QED
      BY <3>2, <3>3, <3>4, <3>5 DEF EngineInv, EngineFileTypeOK
  <2>2. CASE UNCHANGED allVars
    <3>1. EngineCore'
      BY <1>1, <2>2, EngineUntouched DEF EngineInv, allVars
    <3>2. EngineFileTypeOK' /\ WholeWhenUnlocked'
      BY <1>1, <2>2 DEF EngineInv, EngineFileTypeOK, FileTypeOK, WholeWhenUnlocked, allVars,
         engineVars
    <3>3. QED
      BY <3>1, <3>2 DEF EngineInv
  <2>3. QED
    BY <1>1, <2>1, <2>2
<1>2. QED
  BY <1>1, EngineStartInv, PTL DEF EngineSpec

\* Every variable of the engine keeps its type.
THEOREM EngineTypeCorrect == EngineSpec => []SyncTypeOK
<1>1. EngineInv => SyncTypeOK
  BY DEF EngineInv, EngineCore, SyncTypeOK
<1>2. QED
  BY <1>1, EngineInvariant, PTL

\* Whoever takes the mutex finds a whole document, however many syncers truncate
\* and fill the file, as long as no write has failed.
THEOREM EngineWholeWhenUnlocked == EngineSpec => []WholeWhenUnlocked
<1>1. EngineInv => WholeWhenUnlocked
  BY DEF EngineInv
<1>2. QED
  BY <1>1, EngineInvariant, PTL

\* The status does not stay at "syncing" once every syncer has returned.
THEOREM EngineSyncingMeansActive == EngineSpec => []SyncingMeansActive
<1>1. EngineInv => SyncingMeansActive
  BY DEF EngineInv, EngineCore
<1>2. QED
  BY <1>1, EngineInvariant, PTL
-----------------------------------------------------------------------------
(***************************************************************************)
(* Whom the file serves.  From here on the engine carries plans of         *)
(* ConfigData into documents, and no two synchronisations overlap: a       *)
(* syncer that is not idle finds the file as it left it.                   *)
(***************************************************************************)

\* The engine works on documents, with the plans of the manager, for a sing-box
\* that looks at the attributes.
Documents ==
    /\ Config = Document
    /\ \A d, i, u : Plans(d, i, u) = Reconcile(d, i, u)
    /\ \A doc, st : Execute(doc, st) = ExecuteStep(doc, st)
    /\ \A doc, st : Undo(doc, st) = RollbackStep(doc, st)
    /\ \A doc \in Config : Accepts(doc) <=> AttrsAccepted(doc)

Goal(s) == Desired[version[s]]
NotBegun(s) == spc[s] \in {"idle", "reconcile", "getInbounds", "getUsers", "apply"}
Forward(s) == spc[s] \in {"exec", "fill", "reload", "done"}
Back(s) == spc[s] \in {"undo", "refill", "rereload"}

\* The document is on the way from what the syncer saw to its desired state.
OnTheWay(s, n, doc) == Reached(Homes, Goal(s), seen[s], Upto(plan[s], n), doc)

\* The syncer has a plan for the file it saw.
Planned(s) ==
    /\ Setting(Homes, Goal(s), seen[s])
    /\ plan[s] \in Reconcile(Goal(s), seen[s], seen[s])
    /\ pos[s] <= Len(plan[s])
    /\ before[s] = seen[s]

SyncerInv(s) ==
    /\ spc[s] # "idle" => version[s] \in 0..MaxVersion
    /\ NotBegun(s) => pos[s] = 0 /\ before[s] = None
    /\ spc[s] \in {"getUsers", "apply"} => seen[s] = disk /\ disk \in Config
    /\ spc[s] = "apply" => plan[s] \in Reconcile(Goal(s), seen[s], seen[s])
    /\ Forward(s) \/ Back(s) => Planned(s)
    /\ spc[s] \in {"exec", "reload", "done"} => OnTheWay(s, pos[s], disk)
    /\ spc[s] = "fill" => OnTheWay(s, pos[s], buf[s])
    /\ spc[s] \in {"reload", "done"} => pos[s] = Len(plan[s])
    /\ spc[s] = "refill" => Tidy(Homes, buf[s])
    /\ (Back(s) \/ spc[s] = "fail") /\ ioFaults = 0 /\ flakes = 0 =>
          \E m \in Goal(s).inbounds : m.attr \in Refused

TidyDisk == disk \in Config => Tidy(Homes, disk)

\* With nothing under way, the file says what the applied version desires.
AppliedInv ==
    Idle /\ status.state = "synced" /\ status.version >= 0 =>
        /\ status.version \in 0..MaxVersion
        /\ disk \in Config
        /\ Says(disk, DesiredFacts(Desired[status.version]))

PlanInv ==
    /\ TidyDisk
    /\ AppliedInv
    /\ \A s \in Syncers : SyncerInv(s)
-----------------------------------------------------------------------------
\* The step of s leaves the others idle.
Alone(s) ==
    \A t \in Syncers \ {s} : spc[t] = "idle" /\ spc'[t] = "idle"
                             /\ pos'[t] = pos[t] /\ before'[t] = before[t]

\* While a syncer is at work the others have nothing to lose.
LEMMA OthersKept ==
    ASSUME NEW s \in Syncers, PlanInv,
           Alone(s),
           TidyDisk', AppliedInv', SyncerInv(s)'
    PROVE  PlanInv'
<1>1. ASSUME NEW t \in Syncers, t # s
      PROVE  SyncerInv(t)'
  <2>1. spc[t] = "idle" /\ spc'[t] = "idle" /\ pos'[t] = pos[t] /\ before'[t] = before[t]
    BY <1>1 DEF Alone
  <2>2. pos[t] = 0 /\ before[t] = None
    BY <2>1 DEF PlanInv, SyncerInv, NotBegun
  <2>3. QED
    BY <2>1, <2>2 DEF SyncerInv, NotBegun, Forward, Back
<1>2. QED
  BY <1>1 DEF PlanInv

\* A new version at the control plane does not touch the plans, nor does a stutter.
LEMMA StillPlans ==
    ASSUME PlanInv, Publish \/ UNCHANGED allVars
    PROVE  PlanInv'
<1>1. UNCHANGED spc /\ UNCHANGED version /\ UNCHANGED seen /\ UNCHANGED plan /\ UNCHANGED pos
      /\ UNCHANGED buf /\ UNCHANGED status /\ UNCHANGED ioFaults /\ UNCHANGED before
      /\ UNCHANGED disk /\ UNCHANGED flakes
  BY DEF Publish, allVars, engineVars
<1>2. TidyDisk'
  BY <1>1 DEF PlanInv, TidyDisk
<1>3. AppliedInv'
  BY <1>1 DEF PlanInv, AppliedInv, Idle
<1>4. ASSUME NEW s \in Syncers PROVE SyncerInv(s)'
  <2>1. SyncerInv(s)
    BY DEF PlanInv
  <2>2. QED
    BY <1>1, <2>1 DEF SyncerInv, NotBegun, Forward, Back, Goal, Planned, OnTheWay
<1>5. QED
  BY <1>2, <1>3, <1>4 DEF PlanInv

\* A syncer that moves is alone when synchronisations do not overlap.
LEMMA MovesAlone ==
    ASSUME NEW s \in Syncers, EngineTypeOK, Serial, spc[s] # "idle", NEW pc, Goto(s, pc),
           \A t \in Syncers \ {s} : pos'[t] = pos[t] /\ before'[t] = before[t]
    PROVE  Alone(s)
BY DEF Alone, Serial, Goto, EngineTypeOK

\* While a syncer is at work, nothing is said about the applied version.
LEMMA BusyApplied ==
    ASSUME NEW s \in Syncers, spc'[s] # "idle"
    PROVE  AppliedInv'
BY DEF AppliedInv, Idle

\* A syncer that takes on a version.
LEMMA StartPlans ==
    ASSUME EngineInv, PlanInv, Serial', NEW s \in Syncers, NEW v \in 0..MaxVersion, Start(s, v)
    PROVE  PlanInv'
<1>1. EngineTypeOK
  BY DEF EngineInv, EngineCore
<1>2. spc'[s] = "reconcile" /\ version'[s] = v /\ spc[s] = "idle"
      /\ UNCHANGED pos /\ UNCHANGED before /\ UNCHANGED disk
  BY <1>1 DEF Start, Goto, EngineTypeOK
<1>3. Alone(s)
  BY <1>1, <1>2 DEF Alone, Serial, Start, Goto, EngineTypeOK
<1>4. TidyDisk'
  BY <1>2 DEF PlanInv, TidyDisk
<1>5. SyncerInv(s)'
  BY <1>2 DEF PlanInv, SyncerInv, NotBegun, Forward, Back
<1>6. AppliedInv'
  BY <1>2, BusyApplied
<1>7. QED
  BY <1>3, <1>4, <1>5, <1>6, OthersKept

\* A push carries a published version, a pull the newest one or none.
LEMMA TakenPlans ==
    ASSUME EngineInv, PlanInv, Serial', NEW s \in Syncers, Push(s) \/ Pull(s)
    PROVE  PlanInv'
<1>1. plane \in 0..MaxVersion
  BY DEF EngineInv, EngineCore, EngineTypeOK
<1>2. PICK v \in 0..plane : Start(s, v)
  BY <1>1 DEF Push, Pull
<1>3. v \in 0..MaxVersion
  BY <1>1
<1>4. QED
  BY <1>2, <1>3, StartPlans

\* Reconcile begins.
LEMMA BeginReconcilePlans ==
    ASSUME EngineInv, PlanInv, Serial, NEW s \in Syncers, BeginReconcile(s)
    PROVE  PlanInv'
<1>1. EngineTypeOK
  BY DEF EngineInv, EngineCore
<1>2. spc'[s] = "getInbounds" /\ spc[s] = "reconcile" /\ Goto(s, "getInbounds")
      /\ UNCHANGED pos /\ UNCHANGED before /\ UNCHANGED disk /\ UNCHANGED version
  BY <1>1 DEF BeginReconcile, Goto, EngineTypeOK
<1>3. Alone(s)
  BY <1>1, <1>2, MovesAlone
<1>4. TidyDisk'
  BY <1>2 DEF PlanInv, TidyDisk
<1>5. SyncerInv(s)'
  BY <1>2 DEF PlanInv, SyncerInv, NotBegun, Forward, Back
<1>6. AppliedInv'
  BY <1>2, BusyApplied
<1>7. QED
  BY <1>3, <1>4, <1>5, <1>6, OthersKept

\* A read under the mutex fails only when a read or a write has failed.
LEMMA ReadFailsByFault ==
    ASSUME EngineInv, ReadFails
    PROVE  ioFaults' # 0
BY DEF EngineInv, EngineCore, EngineTypeOK, ReadFails, WholeWhenUnlocked

\* The inbounds are read: the file is as it was seen.
LEMMA GetInboundsPlans ==
    ASSUME EngineInv, PlanInv, Serial, NEW s \in Syncers, GetInboundsStep(s)
    PROVE  PlanInv'
<1>1. EngineTypeOK
  BY DEF EngineInv, EngineCore
<1>2. spc[s] = "getInbounds" /\ UNCHANGED pos /\ UNCHANGED before /\ UNCHANGED disk /\ UNCHANGED version
  BY DEF GetInboundsStep
<1>3. TidyDisk'
  BY <1>2 DEF PlanInv, TidyDisk
<1>4. CASE ReadOK /\ seen' = [seen EXCEPT ![s] = disk] /\ Goto(s, "getUsers")
  <2>1. spc'[s] = "getUsers" /\ seen'[s] = disk /\ disk \in Config
    BY <1>1, <1>4 DEF ReadOK, Goto, EngineTypeOK
  <2>2. Alone(s)
    BY <1>1, <1>2, <1>4, MovesAlone
  <2>3. SyncerInv(s)'
    BY <1>2, <2>1 DEF PlanInv, SyncerInv, NotBegun, Forward, Back
  <2>4. QED
    BY <1>3, <2>1, <2>2, <2>3, BusyApplied, OthersKept
<1>5. CASE ReadFails /\ Goto(s, "fail")
  <2>1. spc'[s] = "fail" /\ ioFaults' # 0
    BY <1>1, <1>5, ReadFailsByFault DEF Goto, EngineTypeOK
  <2>2. Alone(s)
    BY <1>1, <1>2, <1>5, MovesAlone
  <2>3. SyncerInv(s)'
    BY <1>2, <2>1 DEF PlanInv, SyncerInv, NotBegun, Forward, Back
  <2>4. QED
    BY <1>3, <2>1, <2>2, <2>3, BusyApplied, OthersKept
<1>6. QED
  BY <1>4, <1>5 DEF GetInboundsStep

\* The second read: the plan is one for the file as it is.
LEMMA GetUsersPlans ==
    ASSUME Documents, EngineInv, PlanInv, Serial, NEW s \in Syncers, GetUsersStep(s)
    PROVE  PlanInv'
<1>1. EngineTypeOK
  BY DEF EngineInv, EngineCore
<1>2. spc[s] = "getUsers" /\ UNCHANGED pos /\ UNCHANGED before /\ UNCHANGED disk /\ UNCHANGED version
      /\ UNCHANGED seen
  BY DEF GetUsersStep
<1>3. TidyDisk'
  BY <1>2 DEF PlanInv, TidyDisk
<1>4. SyncerInv(s)
  BY DEF PlanInv
<1>5. ASSUME NEW p \in Plans(Desired[version[s]], seen[s], disk),
             plan' = [plan EXCEPT ![s] = p], Goto(s, "apply")
      PROVE  PlanInv'
  <2>1. spc'[s] = "apply" /\ plan'[s] = p
    BY <1>1, <1>5 DEF Goto, EngineTypeOK
  <2>2. Alone(s)
    BY <1>1, <1>2, <1>5, MovesAlone
  <2>3. p \in Reconcile(Goal(s), seen[s], seen[s])
    BY <1>2, <1>4 DEF SyncerInv, Documents, Goal
  <2>4. SyncerInv(s)'
    BY <1>2, <1>4, <2>1, <2>3 DEF SyncerInv, NotBegun, Forward, Back, Goal
  <2>5. QED
    BY <1>3, <2>1, <2>2, <2>4, BusyApplied, OthersKept
<1>6. CASE ReadFails /\ Goto(s, "fail")
  <2>1. spc'[s] = "fail" /\ ioFaults' # 0
    BY <1>1, <1>6, ReadFailsByFault DEF Goto, EngineTypeOK
  <2>2. Alone(s)
    BY <1>1, <1>2, <1>6, MovesAlone
  <2>3. SyncerInv(s)'
    BY <1>2, <1>4, <2>1 DEF SyncerInv, NotBegun, Forward, Back
  <2>4. QED
    BY <1>3, <2>1, <2>2, <2>3, BusyApplied, OthersKept
<1>7. QED
  BY <1>5, <1>6 DEF GetUsersStep

\* Apply begins with nothing changed yet.
LEMMA BeginApplyPlans ==
    ASSUME Documents, Trusted, EngineInv, PlanInv, Serial, NEW s \in Syncers, BeginApply(s)
    PROVE  PlanInv'
<1>1. EngineTypeOK
  BY DEF EngineInv, EngineCore
<1>2. spc[s] = "apply" /\ UNCHANGED pos /\ UNCHANGED disk /\ UNCHANGED version
      /\ UNCHANGED seen /\ UNCHANGED plan /\ Goto(s, "exec")
  BY DEF BeginApply
<1>3. TidyDisk'
  BY <1>2 DEF PlanInv, TidyDisk
<1>4. SyncerInv(s)
  BY DEF PlanInv
<1>5. spc'[s] = "exec" /\ before'[s] = disk /\ \A t \in Syncers \ {s} : before'[t] = before[t]
  BY <1>1 DEF BeginApply, Goto, EngineTypeOK
<1>6. Alone(s)
  BY <1>1, <1>2, <1>5, MovesAlone
<1>7. seen[s] = disk /\ disk \in Config /\ pos[s] = 0 /\ version[s] \in 0..MaxVersion
      /\ plan[s] \in Reconcile(Goal(s), seen[s], seen[s])
  BY <1>2, <1>4 DEF SyncerInv, NotBegun
<1>8. Setting(Homes, Goal(s), seen[s])
  BY <1>7 DEF Setting, Trusted, PlanInv, TidyDisk, Goal
<1>9. InRankOrder(plan[s], ChangesTo(Goal(s), seen[s]))
  BY <1>7, <1>8, ReconcileInOrder
<1>10. Len(plan[s]) \in Nat /\ Upto(plan[s], 0) = {}
  BY <1>9, NoneAndAll DEF InRankOrder
<1>11. OnTheWay(s, 0, disk)
  BY <1>7, <1>8, <1>10, ReachedNone DEF OnTheWay
<1>12. Planned(s)'
  BY <1>2, <1>5, <1>7, <1>8, <1>10 DEF Planned, Goal
<1>13. OnTheWay(s, pos[s], disk)'
  BY <1>2, <1>7, <1>11 DEF OnTheWay, Goal
<1>14. SyncerInv(s)'
  BY <1>2, <1>5, <1>7, <1>12, <1>13 DEF SyncerInv, NotBegun, Forward, Back
<1>15. QED
  BY <1>3, <1>5, <1>6, <1>14, BusyApplied, OthersKept

\* The next step of a plan succeeds and leads one step further.
LEMMA NextStep ==
    ASSUME NEW H, NEW d, NEW D, Setting(H, d, D), NEW p \in Reconcile(d, D, D), NEW n \in Nat,
           n < Len(p), NEW doc, Reached(H, d, D, Upto(p, n), doc)
    PROVE  /\ ExecuteStep(doc, p[n + 1]) \in Document
           /\ Reached(H, d, D, Upto(p, n + 1), ExecuteStep(doc, p[n + 1]))
<1> DEFINE c == p[n + 1]
           X == Upto(p, n)
<1>1. InRankOrder(p, ChangesTo(d, D))
  BY ReconcileInOrder
<1>2. /\ c \in ChangesTo(d, D) /\ c \notin X
      /\ X \in SUBSET ChangesTo(d, D)
      /\ Upto(p, n + 1) = X \cup {c}
      /\ \A b \in ChangesTo(d, D) : Rank(b) < Rank(c) => b \in X
  BY <1>1, NextInOrder
<1> HIDE DEF c, X
<1>3. Reached(H, d, D, X, doc)
  BY DEF X
<1>4. Reached(H, d, D, X \cup {c}, ExecuteStep(doc, c))
  BY <1>2, <1>3, Executes
<1>5. ExecuteStep(doc, c) \in Document
  BY <1>4 DEF Reached, Tidy
<1>6. QED
  BY <1>2, <1>4, <1>5 DEF c

\* The steps of a plan are changes.
LEMMA PlanOfChanges ==
    ASSUME NEW H, NEW d, NEW D, Setting(H, d, D), NEW p \in Reconcile(d, D, D)
    PROVE  /\ Len(p) \in Nat /\ DOMAIN p = 1..Len(p)
           /\ \A k \in 1..Len(p) : p[k] \in ChangesTo(d, D)
<1>1. p \in Seq(ChangesTo(d, D))
  BY ReconcileInOrder DEF InRankOrder
<1>2. QED
  BY <1>1

\* The engine's next step succeeds.
LEMMA ExecResult ==
    ASSUME Documents, EngineTypeOK, NEW s \in Syncers, Planned(s), OnTheWay(s, pos[s], disk),
           pos[s] < Len(plan[s])
    PROVE  /\ Execute(disk, plan[s][pos[s] + 1]) \in Config
           /\ OnTheWay(s, pos[s] + 1, Execute(disk, plan[s][pos[s] + 1]))
<1> DEFINE result == ExecuteStep(disk, plan[s][pos[s] + 1])
<1>1. Setting(Homes, Goal(s), seen[s]) /\ plan[s] \in Reconcile(Goal(s), seen[s], seen[s])
      /\ pos[s] \in Nat
  BY DEF Planned, EngineTypeOK
<1>2. Reached(Homes, Goal(s), seen[s], Upto(plan[s], pos[s]), disk)
  BY DEF OnTheWay
<1>3. result \in Document /\ Reached(Homes, Goal(s), seen[s], Upto(plan[s], pos[s] + 1), result)
  BY <1>1, <1>2, NextStep
<1>4. result = Execute(disk, plan[s][pos[s] + 1]) /\ result \in Config
  BY <1>3 DEF Documents
<1> HIDE DEF result
<1>5. OnTheWay(s, pos[s] + 1, result)
  BY <1>3 DEF OnTheWay
<1>6. QED
  BY <1>4, <1>5

\* A step of the plan is opened for writing, or a read has failed.
LEMMA ExecPlans ==
    ASSUME Documents, EngineInv, PlanInv, Serial, NEW s \in Syncers, ExecStep(s)
    PROVE  PlanInv'
<1>1. EngineTypeOK
  BY DEF EngineInv, EngineCore
<1>2. spc[s] = "exec" /\ UNCHANGED before /\ UNCHANGED version
      /\ UNCHANGED seen /\ UNCHANGED plan /\ pos[s] < Len(plan[s])
  BY DEF ExecStep
<1>3. SyncerInv(s)
  BY DEF PlanInv
<1>4. pos'[s] = pos[s] + 1 /\ pos[s] \in Nat /\ \A t \in Syncers \ {s} : pos'[t] = pos[t]
  BY <1>1 DEF ExecStep, EngineTypeOK
<1>5. Planned(s) /\ OnTheWay(s, pos[s], disk) /\ version[s] \in 0..MaxVersion
  BY <1>2, <1>3 DEF SyncerInv, Forward
<1> DEFINE result == Execute(disk, plan[s][pos[s] + 1])
<1>7. Len(plan[s]) \in Nat
  BY <1>5, PlanOfChanges DEF Planned
<1>9. result \in Config /\ OnTheWay(s, pos[s] + 1, result)
  BY <1>1, <1>2, <1>5, ExecResult
<1> HIDE DEF result
<1>11. Planned(s)'
  BY <1>2, <1>4, <1>5, <1>7 DEF Planned, Goal
<1>12. CASE Open(s, result, "fill")
  <2>1. spc'[s] = "fill" /\ buf'[s] = result /\ disk' = Torn /\ Goto(s, "fill")
    BY <1>1, <1>12 DEF Open, Goto, EngineTypeOK
  <2>2. Alone(s)
    BY <1>1, <1>2, <1>4, <2>1, MovesAlone
  <2>3. TidyDisk'
    BY <2>1 DEF TidyDisk
  <2>4. OnTheWay(s, pos[s], buf[s])'
    BY <1>2, <1>4, <1>9, <2>1 DEF OnTheWay, Goal
  <2>5. SyncerInv(s)'
    BY <1>2, <1>5, <1>11, <2>1, <2>4 DEF SyncerInv, NotBegun, Forward, Back
  <2>6. QED
    BY <2>1, <2>2, <2>3, <2>5, BusyApplied, OthersKept
<1>13. CASE ReadFails /\ Goto(s, "undo") /\ UNCHANGED disk
  <2>1. spc'[s] = "undo" /\ ioFaults' # 0
    BY <1>1, <1>13, ReadFailsByFault DEF Goto, EngineTypeOK
  <2>2. Alone(s)
    BY <1>1, <1>2, <1>4, <1>13, MovesAlone
  <2>3. TidyDisk'
    BY <1>13 DEF PlanInv, TidyDisk
  <2>4. SyncerInv(s)'
    BY <1>2, <1>5, <1>11, <2>1 DEF SyncerInv, NotBegun, Forward, Back
  <2>5. QED
    BY <2>1, <2>2, <2>3, <2>4, BusyApplied, OthersKept
<1>14. QED
  BY <1>9, <1>12, <1>13 DEF ExecStep, StepFails, result

\* A write ends with the document in the file, or fails.
LEMMA FillPlans ==
    ASSUME EngineInv, PlanInv, Serial, NEW s \in Syncers, Fill(s)
    PROVE  PlanInv'
<1>1. EngineTypeOK
  BY DEF EngineInv, EngineCore
<1>2. spc[s] = "fill" /\ UNCHANGED before /\ UNCHANGED version
      /\ UNCHANGED seen /\ UNCHANGED plan /\ UNCHANGED pos
  BY DEF Fill
<1>3. SyncerInv(s)
  BY DEF PlanInv
<1>4. Planned(s) /\ OnTheWay(s, pos[s], buf[s]) /\ version[s] \in 0..MaxVersion
  BY <1>2, <1>3 DEF SyncerInv, Forward
<1>5. Planned(s)'
  BY <1>2, <1>4 DEF Planned, Goal
<1>6. CASE FillOK(s) /\ Goto(s, "exec")
  <2>1. spc'[s] = "exec" /\ disk' = buf[s]
    BY <1>1, <1>6 DEF FillOK, Goto, EngineTypeOK
  <2>2. Alone(s)
    BY <1>1, <1>2, <1>6, MovesAlone
  <2>3. TidyDisk'
    BY <1>4, <2>1 DEF TidyDisk, OnTheWay, Reached
  <2>4. OnTheWay(s, pos[s], disk)'
    BY <1>2, <1>4, <2>1 DEF OnTheWay, Goal
  <2>5. SyncerInv(s)'
    BY <1>2, <1>4, <1>5, <2>1, <2>4 DEF SyncerInv, NotBegun, Forward, Back
  <2>6. QED
    BY <2>1, <2>2, <2>3, <2>5, BusyApplied, OthersKept
<1>7. CASE FillFails /\ Goto(s, "undo")
  <2>1. spc'[s] = "undo" /\ UNCHANGED disk /\ ioFaults' # 0
    BY <1>1, <1>7 DEF FillFails, Goto, EngineTypeOK
  <2>2. Alone(s)
    BY <1>1, <1>2, <1>7, MovesAlone
  <2>3. TidyDisk'
    BY <2>1 DEF PlanInv, TidyDisk
  <2>4. SyncerInv(s)'
    BY <1>2, <1>4, <1>5, <2>1 DEF SyncerInv, NotBegun, Forward, Back
  <2>5. QED
    BY <2>1, <2>2, <2>3, <2>4, BusyApplied, OthersKept
<1>8. QED
  BY <1>6, <1>7 DEF Fill

\* The last step is executed.
LEMMA ExecDonePlans ==
    ASSUME EngineInv, PlanInv, Serial, NEW s \in Syncers, ExecDone(s)
    PROVE  PlanInv'
<1>1. EngineTypeOK
  BY DEF EngineInv, EngineCore
<1>2. spc[s] = "exec" /\ UNCHANGED before /\ UNCHANGED version /\ UNCHANGED disk
      /\ UNCHANGED seen /\ UNCHANGED plan /\ UNCHANGED pos /\ pos[s] = Len(plan[s])
  BY DEF ExecDone
<1>3. SyncerInv(s)
  BY DEF PlanInv
<1>4. Planned(s) /\ OnTheWay(s, pos[s], disk) /\ version[s] \in 0..MaxVersion
  BY <1>2, <1>3 DEF SyncerInv, Forward
<1>5. Planned(s)' /\ OnTheWay(s, pos[s], disk)'
  BY <1>2, <1>4 DEF Planned, OnTheWay, Goal
<1>6. PICK pc \in {"reload", "done"} : Goto(s, pc)
  BY DEF ExecDone
<1>7. spc'[s] = pc
  BY <1>1, <1>6 DEF Goto, EngineTypeOK
<1>8. Alone(s)
  BY <1>1, <1>2, <1>6, MovesAlone
<1>9. TidyDisk'
  BY <1>2 DEF PlanInv, TidyDisk
<1>10. SyncerInv(s)'
  BY <1>2, <1>4, <1>5, <1>6, <1>7 DEF SyncerInv, NotBegun, Forward, Back
<1>11. QED
  BY <1>6, <1>7, <1>8, <1>9, <1>10, BusyApplied, OthersKept

\* A document at the end of a plan that sing-box refuses has an inbound that the
\* desired state asked for.
LEMMA RefusedDesired ==
    ASSUME Documents, NEW s \in Syncers, Planned(s), pos[s] = Len(plan[s]),
           OnTheWay(s, pos[s], disk)
    PROVE  /\ disk \in Config /\ Says(disk, DesiredFacts(Goal(s)))
           /\ disk \notin Runnable => \E m \in Goal(s).inbounds : m.attr \in Refused
<1>1. Setting(Homes, Goal(s), seen[s]) /\ plan[s] \in Reconcile(Goal(s), seen[s], seen[s])
  BY DEF Planned
<1>2. Upto(plan[s], Len(plan[s])) = ChangesTo(Goal(s), seen[s])
  BY <1>1, ReconcileInOrder, NoneAndAll
<1>3. Reached(Homes, Goal(s), seen[s], ChangesTo(Goal(s), seen[s]), disk)
  BY <1>2 DEF OnTheWay
<1>4. disk \in Document /\ disk \in Config
  BY <1>3 DEF Reached, Tidy, Documents
<1>5. Says(disk, DesiredFacts(Goal(s)))
  BY <1>1, <1>3, AllSays
<1>6. ASSUME disk \notin Runnable
      PROVE  \E m \in Goal(s).inbounds : m.attr \in Refused
  <2>1. ~AttrsAccepted(disk)
    BY <1>4, <1>6 DEF Runnable, Documents
  <2>2. PICK i \in DOMAIN disk.inbounds : disk.inbounds[i].attr \in Refused
    BY <2>1 DEF AttrsAccepted
  <2>3. \E m \in Goal(s).inbounds : m.attr = disk.inbounds[i].attr
    BY <1>4, <1>5, DesiredAttributes
  <2>4. QED
    BY <2>2, <2>3
<1>7. QED
  BY <1>4, <1>5, <1>6

\* sing-box reads the file at the end of the plan.
LEMMA ReloadPlans ==
    ASSUME Documents, EngineInv, PlanInv, Serial, NEW s \in Syncers, ReloadStep(s)
    PROVE  PlanInv'
<1>1. EngineTypeOK /\ flakes \in Nat
  BY DEF EngineInv, EngineCore, EngineFileTypeOK, FileTypeOK
<1>2. spc[s] = "reload" /\ UNCHANGED before /\ UNCHANGED version /\ UNCHANGED disk
      /\ UNCHANGED seen /\ UNCHANGED plan /\ UNCHANGED pos
  BY DEF ReloadStep, Reload
<1>3. SyncerInv(s)
  BY DEF PlanInv
<1>4. Planned(s) /\ OnTheWay(s, pos[s], disk) /\ version[s] \in 0..MaxVersion
      /\ pos[s] = Len(plan[s])
  BY <1>2, <1>3 DEF SyncerInv, Forward
<1>5. Planned(s)' /\ OnTheWay(s, pos[s], disk)'
  BY <1>2, <1>4 DEF Planned, OnTheWay, Goal
<1>6. TidyDisk'
  BY <1>2 DEF PlanInv, TidyDisk
<1>7. CASE Goto(s, "done")
  <2>1. spc'[s] = "done"
    BY <1>1, <1>7 DEF Goto, EngineTypeOK
  <2>2. Alone(s)
    BY <1>1, <1>2, <1>7, MovesAlone
  <2>3. SyncerInv(s)'
    BY <1>2, <1>4, <1>5, <2>1 DEF SyncerInv, NotBegun, Forward, Back
  <2>4. QED
    BY <1>6, <2>1, <2>2, <2>3, BusyApplied, OthersKept
<1>8. CASE Reload(FALSE) /\ Goto(s, "undo")
  <2>1. spc'[s] = "undo"
    BY <1>1, <1>8 DEF Goto, EngineTypeOK
  <2>2. Alone(s)
    BY <1>1, <1>2, <1>8, MovesAlone
  <2>3. flakes' = 0 => \E m \in Goal(s).inbounds : m.attr \in Refused
    <3>1. flakes' = 0 => disk \notin Runnable
      BY <1>1, <1>8 DEF Reload
    <3>2. QED
      BY <1>4, <3>1, RefusedDesired
  <2>4. Goal(s)' = Goal(s)
    BY <1>2 DEF Goal
  <2>5. SyncerInv(s)'
    BY <1>2, <1>4, <1>5, <2>1, <2>3, <2>4 DEF SyncerInv, NotBegun, Forward, Back
  <2>6. QED
    BY <1>6, <2>1, <2>2, <2>5, BusyApplied, OthersKept
<1>9. QED
  BY <1>7, <1>8 DEF ReloadStep

\* The last clause of SyncerInv.
Explained(s) ==
    ioFaults = 0 /\ flakes = 0 => \E m \in Goal(s).inbounds : m.attr \in Refused

\* A step is undone: what it leaves has no tag and no user twice.
LEMMA UndoPlans ==
    ASSUME Documents, EngineInv, PlanInv, Serial, NEW s \in Syncers, UndoStep(s)
    PROVE  PlanInv'
<1>1. EngineTypeOK
  BY DEF EngineInv, EngineCore
<1>2. spc[s] = "undo" /\ UNCHANGED before /\ UNCHANGED version /\ UNCHANGED flakes
      /\ UNCHANGED seen /\ UNCHANGED plan /\ UNCHANGED pos /\ pos[s] > 0
  BY DEF UndoStep, Open, StepFails
<1>3. SyncerInv(s)
  BY DEF PlanInv
<1>4. Planned(s) /\ version[s] \in 0..MaxVersion /\ Explained(s)
  BY <1>2, <1>3 DEF SyncerInv, Back, Explained
<1>5. Planned(s)' /\ Goal(s)' = Goal(s)
  BY <1>2, <1>4 DEF Planned, Goal
<1>6. CASE disk \in Config /\ Undo(disk, plan[s][pos[s]]) \in Config
           /\ Open(s, Undo(disk, plan[s][pos[s]]), "refill")
  <2> DEFINE result == RollbackStep(disk, plan[s][pos[s]])
  <2>1. result = Undo(disk, plan[s][pos[s]]) /\ result \in Document
    BY <1>6 DEF Documents
  <2>2. Setting(Homes, Goal(s), seen[s]) /\ plan[s] \in Reconcile(Goal(s), seen[s], seen[s])
        /\ pos[s] \in Nat /\ pos[s] <= Len(plan[s])
    BY <1>1, <1>4 DEF Planned, EngineTypeOK
  <2>3. plan[s][pos[s]] \in ChangesTo(Goal(s), seen[s])
    BY <1>2, <2>2, PlanOfChanges
  <2>4. Tidy(Homes, disk)
    BY <1>6 DEF PlanInv, TidyDisk
  <2>5. Tidy(Homes, result)
    BY <2>1, <2>2, <2>3, <2>4, UndoKeepsTidy, ConfigDataAssumption
  <2> HIDE DEF result
  <2>6. spc'[s] = "refill" /\ buf'[s] = result /\ disk' = Torn /\ UNCHANGED ioFaults
        /\ Goto(s, "refill")
    BY <1>1, <1>6, <2>1 DEF Open, Goto, EngineTypeOK
  <2>7. Alone(s)
    BY <1>1, <1>2, <2>6, MovesAlone
  <2>8. TidyDisk'
    BY <2>6 DEF TidyDisk
  <2>9. Explained(s)' /\ Tidy(Homes, buf[s])'
    BY <1>2, <1>4, <1>5, <2>5, <2>6 DEF Explained
  <2>10. SyncerInv(s)'
    BY <1>2, <1>4, <1>5, <2>6, <2>9 DEF SyncerInv, NotBegun, Forward, Back, Explained
  <2>11. QED
    BY <2>6, <2>7, <2>8, <2>10, BusyApplied, OthersKept
<1>7. CASE StepFails(s, Undo(disk, plan[s][pos[s]]), "fail")
  <2>1. spc'[s] = "fail" /\ UNCHANGED disk /\ (UNCHANGED ioFaults \/ ioFaults' # 0)
        /\ Goto(s, "fail")
    BY <1>1, <1>7, ReadFailsByFault DEF StepFails, Goto, EngineTypeOK
  <2>2. Alone(s)
    BY <1>1, <1>2, <2>1, MovesAlone
  <2>3. TidyDisk'
    BY <2>1 DEF PlanInv, TidyDisk
  <2>4. Explained(s)'
    BY <1>2, <1>4, <1>5, <2>1 DEF Explained
  <2>5. SyncerInv(s)'
    BY <1>2, <1>4, <1>5, <2>1, <2>4 DEF SyncerInv, NotBegun, Forward, Back, Explained
  <2>6. QED
    BY <2>1, <2>2, <2>3, <2>5, BusyApplied, OthersKept
<1>8. QED
  BY <1>6, <1>7 DEF UndoStep

\* The undone document is in the file, or the write fails.
LEMMA RefillPlans ==
    ASSUME EngineInv, PlanInv, Serial, NEW s \in Syncers, Refill(s)
    PROVE  PlanInv'
<1>1. EngineTypeOK
  BY DEF EngineInv, EngineCore
<1>2. spc[s] = "refill" /\ UNCHANGED before /\ UNCHANGED version /\ UNCHANGED flakes
      /\ UNCHANGED seen /\ UNCHANGED plan
  BY DEF Refill, EndFill
<1>3. SyncerInv(s)
  BY DEF PlanInv
<1>4. Planned(s) /\ version[s] \in 0..MaxVersion /\ Explained(s) /\ Tidy(Homes, buf[s])
  BY <1>2, <1>3 DEF SyncerInv, Back, Explained
<1>5. Goal(s)' = Goal(s)
  BY <1>2 DEF Goal
<1>6. CASE FillOK(s) /\ pos' = [pos EXCEPT ![s] = @ - 1] /\ Goto(s, "undo")
  <2>1. spc'[s] = "undo" /\ disk' = buf[s] /\ UNCHANGED ioFaults
        /\ pos'[s] = pos[s] - 1 /\ \A t \in Syncers \ {s} : pos'[t] = pos[t]
    BY <1>1, <1>6 DEF FillOK, Goto, EngineTypeOK
  <2>2. Alone(s)
    BY <1>1, <1>2, <1>6, <2>1, MovesAlone
  <2>3. TidyDisk'
    BY <1>4, <2>1 DEF TidyDisk
  <2>4. Explained(s)'
    BY <1>2, <1>4, <1>5, <2>1 DEF Explained
  <2>5. Planned(s)'
    <3>1. Len(plan[s]) \in Nat /\ pos[s] \in Nat
      BY <1>1, <1>4, PlanOfChanges DEF Planned, EngineTypeOK
    <3>2. QED
      BY <1>2, <1>4, <1>5, <2>1, <3>1 DEF Planned
  <2>6. SyncerInv(s)'
    BY <1>2, <1>4, <2>1, <2>4, <2>5 DEF SyncerInv, NotBegun, Forward, Back, Explained
  <2>7. QED
    BY <2>1, <2>2, <2>3, <2>6, BusyApplied, OthersKept
<1>7. CASE FillFails /\ Goto(s, "fail") /\ UNCHANGED pos
  <2>1. spc'[s] = "fail" /\ UNCHANGED disk /\ ioFaults' # 0
    BY <1>1, <1>7 DEF FillFails, Goto, EngineTypeOK
  <2>2. Alone(s)
    BY <1>1, <1>2, <1>7, MovesAlone
  <2>3. TidyDisk'
    BY <2>1 DEF PlanInv, TidyDisk
  <2>4. SyncerInv(s)'
    BY <1>2, <1>4, <1>5, <1>7, <2>1 DEF SyncerInv, NotBegun, Forward, Back
  <2>5. QED
    BY <2>1, <2>2, <2>3, <2>4, BusyApplied, OthersKept
<1>8. QED
  BY <1>6, <1>7 DEF Refill

\* The rollback is over, or sing-box is told to read the file it left.
LEMMA EndOfUndoPlans ==
    ASSUME EngineInv, PlanInv, Serial, NEW s \in Syncers, UndoDone(s) \/ ReReload(s)
    PROVE  PlanInv'
<1>1. EngineTypeOK /\ flakes \in Nat
  BY DEF EngineInv, EngineCore, EngineFileTypeOK, FileTypeOK
<1>2. spc[s] \in {"undo", "rereload"} /\ UNCHANGED before /\ UNCHANGED version
      /\ UNCHANGED seen /\ UNCHANGED plan /\ UNCHANGED pos /\ UNCHANGED disk /\ UNCHANGED ioFaults
      /\ (UNCHANGED flakes \/ flakes' # 0)
  BY <1>1 DEF UndoDone, ReReload, Reload
<1>3. SyncerInv(s)
  BY DEF PlanInv
<1>4. Planned(s) /\ version[s] \in 0..MaxVersion /\ Explained(s)
  BY <1>2, <1>3 DEF SyncerInv, Back, Explained
<1>5. Planned(s)' /\ Goal(s)' = Goal(s)
  BY <1>2, <1>4 DEF Planned, Goal
<1>6. PICK pc \in {"rereload", "fail"} : Goto(s, pc)
  BY DEF UndoDone, ReReload
<1>7. spc'[s] = pc
  BY <1>1, <1>6 DEF Goto, EngineTypeOK
<1>8. Alone(s)
  BY <1>1, <1>2, <1>6, MovesAlone
<1>9. TidyDisk'
  BY <1>2 DEF PlanInv, TidyDisk
<1>10. Explained(s)'
  BY <1>2, <1>4, <1>5 DEF Explained
<1>11. SyncerInv(s)'
  BY <1>2, <1>4, <1>5, <1>6, <1>7, <1>10 DEF SyncerInv, NotBegun, Forward, Back, Explained
<1>12. QED
  BY <1>6, <1>7, <1>8, <1>9, <1>11, BusyApplied, OthersKept

\* The goroutine returns: its version is applied, or the state is an error.
LEMMA LeavePlans ==
    ASSUME Documents, EngineInv, PlanInv, Serial, NEW s \in Syncers, Succeed(s) \/ Fail(s)
    PROVE  PlanInv'
<1>1. EngineTypeOK
  BY DEF EngineInv, EngineCore
<1>2. spc[s] \in {"done", "fail"} /\ UNCHANGED disk /\ Leave(s)
  BY DEF Succeed, Fail, Leave
<1>3. SyncerInv(s)
  BY DEF PlanInv
<1>4. spc'[s] = "idle" /\ pos'[s] = 0 /\ before'[s] = None /\ Goto(s, "idle")
      /\ \A t \in Syncers \ {s} : pos'[t] = pos[t] /\ before'[t] = before[t]
  BY <1>1, <1>2 DEF Leave, Goto, EngineTypeOK
<1>5. Alone(s)
  BY <1>1, <1>2, <1>4, MovesAlone
<1>6. TidyDisk'
  BY <1>2 DEF PlanInv, TidyDisk
<1>7. SyncerInv(s)'
  BY <1>4 DEF SyncerInv, NotBegun, Forward, Back
<1>8. CASE Succeed(s)
  <2>1. status'.version = version[s]
    BY <1>8 DEF Succeed, UpdateSync
  <2>2. Planned(s) /\ OnTheWay(s, pos[s], disk) /\ version[s] \in 0..MaxVersion
        /\ pos[s] = Len(plan[s])
    BY <1>3, <1>8 DEF Succeed, SyncerInv, Forward
  <2>3. disk \in Config /\ Says(disk, DesiredFacts(Goal(s)))
    BY <2>2, RefusedDesired
  <2>4. AppliedInv'
    BY <1>2, <2>1, <2>2, <2>3 DEF AppliedInv, Goal
  <2>5. QED
    BY <1>5, <1>6, <1>7, <2>4, OthersKept
<1>9. CASE Fail(s)
  <2>1. status'.state = "error"
    BY <1>1, <1>9 DEF Fail, UpdateError, EngineTypeOK
  <2>2. AppliedInv'
    BY <2>1 DEF AppliedInv
  <2>3. QED
    BY <1>5, <1>6, <1>7, <2>2, OthersKept
<1>10. QED
  BY <1>8, <1>9
-----------------------------------------------------------------------------
(* The rollback of a plan that drops no users. *)

\* The file says what it said when the syncer began to execute its plan.
Restored(s) == disk \in Document /\ before[s] \in Document /\ Says(disk, Facts(before[s]))

RestoreInv(s) ==
    DropsNoUsers(s) /\ ioFaults = 0 =>
        /\ spc[s] = "undo" => OnTheWay(s, pos[s], disk)
        /\ spc[s] = "refill" => OnTheWay(s, pos[s] - 1, buf[s])
        /\ spc[s] = "rereload" => OnTheWay(s, 0, disk)
        /\ spc[s] = "fail" /\ before[s] # None => Restored(s)

\* Back at the beginning of the plan.
LEMMA RestoredAtStart ==
    ASSUME NEW s \in Syncers, Planned(s), OnTheWay(s, 0, disk)
    PROVE  Restored(s)
<1>1. Setting(Homes, Goal(s), seen[s]) /\ plan[s] \in Reconcile(Goal(s), seen[s], seen[s])
      /\ before[s] = seen[s]
  BY DEF Planned
<1>2. Upto(plan[s], 0) = {}
  BY DEF Upto
<1>3. Reached(Homes, Goal(s), seen[s], {}, disk)
  BY <1>2 DEF OnTheWay
<1>4. Says(disk, Facts(seen[s]))
  BY <1>3, NoneSays
<1>5. disk \in Document /\ seen[s] \in Document
  BY <1>1, <1>3 DEF Reached, Tidy, Setting
<1>6. QED
  BY <1>1, <1>4, <1>5 DEF Restored

\* The last step of a plan is undone and leads one step back.
LEMMA LastStep ==
    ASSUME NEW H, NEW d, NEW D, Setting(H, d, D), NEW p \in Reconcile(d, D, D), NEW n \in Nat,
           n < Len(p), NEW doc, Reached(H, d, D, Upto(p, n + 1), doc),
           p[n + 1].kind = "inbound" /\ p[n + 1].type = "delete" =>
               p[n + 1].prev.users \in {Absent, <<>>}
    PROVE  /\ RollbackStep(doc, p[n + 1]) \in Document
           /\ Reached(H, d, D, Upto(p, n), RollbackStep(doc, p[n + 1]))
<1> DEFINE c == p[n + 1]
           X == Upto(p, n)
<1>1. InRankOrder(p, ChangesTo(d, D))
  BY ReconcileInOrder
<1>2. /\ c \in ChangesTo(d, D) /\ c \notin X
      /\ X \in SUBSET ChangesTo(d, D)
      /\ Upto(p, n + 1) = X \cup {c}
      /\ \A b \in X : Rank(b) <= Rank(c)
  BY <1>1, NextInOrder
<1>3. c.kind = "inbound" /\ c.type = "delete" => c.prev.users \in {Absent, <<>>}
  OBVIOUS
<1> HIDE DEF c, X
<1>4. Reached(H, d, D, X \cup {c}, doc)
  BY <1>2
<1>5. Reached(H, d, D, X, RollbackStep(doc, c))
  BY <1>2, <1>3, <1>4, Undoes
<1>6. RollbackStep(doc, c) \in Document
  BY <1>5 DEF Reached, Tidy
<1>7. QED
  BY <1>5, <1>6 DEF c, X

\* The engine's next rollback step succeeds.
LEMMA UndoResult ==
    ASSUME Documents, EngineTypeOK, NEW s \in Syncers, DropsNoUsers(s), Planned(s),
           OnTheWay(s, pos[s], disk), pos[s] > 0
    PROVE  /\ Undo(disk, plan[s][pos[s]]) \in Config
           /\ OnTheWay(s, pos[s] - 1, Undo(disk, plan[s][pos[s]]))
<1> DEFINE result == RollbackStep(disk, plan[s][pos[s]])
<1>1. Setting(Homes, Goal(s), seen[s]) /\ plan[s] \in Reconcile(Goal(s), seen[s], seen[s])
      /\ pos[s] \in Nat /\ pos[s] <= Len(plan[s])
  BY DEF Planned, EngineTypeOK
<1>2. Len(plan[s]) \in Nat /\ DOMAIN plan[s] = 1..Len(plan[s])
  BY <1>1, PlanOfChanges
<1>3. PICK n \in Nat : pos[s] = n + 1 /\ n = pos[s] - 1 /\ n < Len(plan[s])
  <2>1. pos[s] - 1 \in Nat /\ pos[s] = (pos[s] - 1) + 1 /\ pos[s] - 1 < Len(plan[s])
    BY <1>1, <1>2
  <2>2. QED
    BY <2>1
<1>4. Reached(Homes, Goal(s), seen[s], Upto(plan[s], n + 1), disk)
  BY <1>3 DEF OnTheWay
<1>5. n + 1 \in DOMAIN plan[s]
  BY <1>2, <1>3
<1>6. plan[s][n + 1].kind = "inbound" /\ plan[s][n + 1].type = "delete" =>
          plan[s][n + 1].prev.users \in {Absent, <<>>}
  BY <1>5 DEF DropsNoUsers
<1>7. result = RollbackStep(disk, plan[s][n + 1])
  BY <1>3
<1>8. result \in Document /\ Reached(Homes, Goal(s), seen[s], Upto(plan[s], n), result)
  BY <1>1, <1>3, <1>4, <1>6, <1>7, LastStep
<1>9. result = Undo(disk, plan[s][pos[s]]) /\ result \in Config
  BY <1>8 DEF Documents
<1> HIDE DEF result
<1>10. OnTheWay(s, pos[s] - 1, result)
  BY <1>3, <1>8 DEF OnTheWay
<1>11. QED
  BY <1>9, <1>10

\* While the plan is on its way there is nothing to restore.
LEMMA NothingToRestore ==
    ASSUME NEW s, \/ spc'[s] \notin {"undo", "refill", "rereload", "fail"}
                  \/ ioFaults' # 0
                  \/ ~DropsNoUsers(s)'
    PROVE  RestoreInv(s)'
BY DEF RestoreInv

\* The steps of the way forward.
LEMMA ForwardRestores ==
    ASSUME Documents, EngineInv, PlanInv, NEW s \in Syncers,
           \/ BeginReconcile(s) \/ GetInboundsStep(s) \/ GetUsersStep(s) \/ BeginApply(s)
           \/ ExecStep(s) \/ Fill(s) \/ ExecDone(s) \/ Succeed(s) \/ Fail(s)
    PROVE  RestoreInv(s)'
<1>1. EngineTypeOK
  BY DEF EngineInv, EngineCore
<1>2. CASE BeginReconcile(s) \/ BeginApply(s) \/ ExecDone(s)
  <2>1. PICK pc \in {"getInbounds", "exec", "reload", "done"} : Goto(s, pc)
    BY <1>2 DEF BeginReconcile, BeginApply, ExecDone
  <2>2. QED
    BY <1>1, <2>1, NothingToRestore DEF Goto, EngineTypeOK
<1>3. CASE Succeed(s) \/ Fail(s)
  BY <1>1, <1>3, NothingToRestore DEF Succeed, Fail, Leave, Goto, EngineTypeOK
<1>4. CASE GetInboundsStep(s) \/ GetUsersStep(s)
  <2>1. Goto(s, "getUsers") \/ Goto(s, "apply") \/ ReadFails
    BY <1>4 DEF GetInboundsStep, GetUsersStep
  <2>2. QED
    BY <1>1, <2>1, ReadFailsByFault, NothingToRestore DEF Goto, EngineTypeOK
<1>5. CASE ExecStep(s)
  <2>1. Planned(s) /\ OnTheWay(s, pos[s], disk) /\ pos[s] < Len(plan[s])
    BY <1>5 DEF ExecStep, PlanInv, SyncerInv, Forward
  <2>2. Execute(disk, plan[s][pos[s] + 1]) \in Config
    BY <1>1, <2>1, ExecResult
  <2>3. Goto(s, "fill") \/ ReadFails
    BY <1>5, <2>2 DEF ExecStep, Open, StepFails
  <2>4. QED
    BY <1>1, <2>3, ReadFailsByFault, NothingToRestore DEF Goto, EngineTypeOK
<1>6. CASE Fill(s)
  <2>1. Goto(s, "exec") \/ ioFaults' # 0
    BY <1>1, <1>6 DEF Fill, FillFails, EngineTypeOK
  <2>2. QED
    BY <1>1, <2>1, NothingToRestore DEF Goto, EngineTypeOK
<1>7. QED
  BY <1>2, <1>3, <1>4, <1>5, <1>6

\* A reload that fails begins the rollback at the end of the plan.
LEMMA ReloadRestores ==
    ASSUME EngineInv, PlanInv, NEW s \in Syncers, ReloadStep(s)
    PROVE  RestoreInv(s)'
<1>1. EngineTypeOK
  BY DEF EngineInv, EngineCore
<1>2. OnTheWay(s, pos[s], disk)
  BY DEF ReloadStep, PlanInv, SyncerInv
<1>3. UNCHANGED <<seen, plan, pos, version, disk>>
  BY DEF ReloadStep, Reload
<1>4. OnTheWay(s, pos[s], disk)'
  BY <1>2, <1>3 DEF OnTheWay, Goal
<1>5. spc'[s] \in {"done", "undo"}
  BY <1>1 DEF ReloadStep, Goto, EngineTypeOK
<1>6. QED
  BY <1>4, <1>5 DEF RestoreInv

\* The steps of the way back.
LEMMA BackRestores ==
    ASSUME Documents, EngineInv, PlanInv, NEW s \in Syncers, RestoreInv(s),
           UndoStep(s) \/ Refill(s) \/ UndoDone(s) \/ ReReload(s)
    PROVE  RestoreInv(s)'
<1>1. EngineTypeOK
  BY DEF EngineInv, EngineCore
<1>2. SUFFICES ASSUME ioFaults' = 0, DropsNoUsers(s)'
               PROVE  RestoreInv(s)'
  BY NothingToRestore
<1>3. ioFaults = 0 /\ ~ReadFails /\ ~FillFails
  <2>1. ~ReadFails
    BY <1>2, ReadFailsByFault
  <2>2. ~FillFails
    BY <1>1, <1>2 DEF FillFails, EngineTypeOK
  <2>3. UNCHANGED ioFaults
    BY <2>1, <2>2 DEF UndoStep, StepFails, Open, Refill, FillOK, UndoDone, ReReload
  <2>4. QED
    BY <1>2, <2>1, <2>2, <2>3
<1>4. UNCHANGED version /\ UNCHANGED seen /\ UNCHANGED plan /\ UNCHANGED before
  BY DEF UndoStep, Refill, UndoDone, ReReload
<1>5. DropsNoUsers(s)
  BY <1>2, <1>4 DEF DropsNoUsers
<1>6. Planned(s)
  BY DEF PlanInv, SyncerInv, Back, UndoStep, Refill, UndoDone, ReReload
<1>7. CASE UndoStep(s)
  <2>1. OnTheWay(s, pos[s], disk) /\ pos[s] > 0 /\ UNCHANGED pos
    BY <1>3, <1>5, <1>7 DEF RestoreInv, UndoStep
  <2>2. Undo(disk, plan[s][pos[s]]) \in Config
        /\ OnTheWay(s, pos[s] - 1, Undo(disk, plan[s][pos[s]]))
    BY <1>1, <1>5, <1>6, <2>1, UndoResult
  <2>3. Open(s, Undo(disk, plan[s][pos[s]]), "refill")
    BY <1>3, <1>7, <2>2 DEF UndoStep, StepFails
  <2>4. spc'[s] = "refill" /\ buf'[s] = Undo(disk, plan[s][pos[s]])
    BY <1>1, <2>3 DEF Open, Goto, EngineTypeOK
  <2>5. OnTheWay(s, pos[s] - 1, buf[s])'
    BY <1>4, <2>1, <2>2, <2>4 DEF OnTheWay, Goal
  <2>6. QED
    BY <2>4, <2>5 DEF RestoreInv
<1>8. CASE Refill(s)
  <2>1. OnTheWay(s, pos[s] - 1, buf[s])
    BY <1>3, <1>5, <1>8 DEF RestoreInv, Refill
  <2>2. spc'[s] = "undo" /\ disk' = buf[s] /\ pos'[s] = pos[s] - 1
    BY <1>1, <1>3, <1>8 DEF Refill, FillOK, Goto, EngineTypeOK
  <2>3. OnTheWay(s, pos[s], disk)'
    BY <1>4, <2>1, <2>2 DEF OnTheWay, Goal
  <2>4. QED
    BY <2>2, <2>3 DEF RestoreInv
<1>9. CASE UndoDone(s) \/ ReReload(s)
  <2>1. OnTheWay(s, 0, disk) /\ UNCHANGED disk
    BY <1>3, <1>5, <1>9 DEF RestoreInv, UndoDone, ReReload, Reload
  <2>2. Restored(s)
    BY <1>6, <2>1, RestoredAtStart
  <2>3. Restored(s)' /\ OnTheWay(s, 0, disk)'
    BY <1>4, <2>1, <2>2 DEF Restored, OnTheWay, Goal
  <2>4. spc'[s] \in {"rereload", "fail"}
    BY <1>1, <1>9 DEF UndoDone, ReReload, Goto, EngineTypeOK
  <2>5. QED
    BY <2>3, <2>4 DEF RestoreInv
<1>10. QED
  BY <1>7, <1>8, <1>9
-----------------------------------------------------------------------------
\* Every step keeps the plans.
LEMMA PlanKept ==
    ASSUME Documents, Trusted, EngineInv, PlanInv, Serial, Serial', [EngineNext]_allVars
    PROVE  PlanInv'
<1>1. CASE Publish \/ UNCHANGED allVars
  BY <1>1, StillPlans
<1>2. ASSUME NEW s \in Syncers, Push(s) \/ Pull(s) \/ Sync(s)
      PROVE  PlanInv'
  <2>1. CASE Push(s) \/ Pull(s)
    BY <1>2, <2>1, TakenPlans
  <2>2. CASE BeginReconcile(s) \/ GetInboundsStep(s) \/ GetUsersStep(s) \/ BeginApply(s)
    BY <1>2, <2>2, BeginReconcilePlans, GetInboundsPlans, GetUsersPlans, BeginApplyPlans
  <2>3. CASE ExecStep(s) \/ Fill(s) \/ ExecDone(s) \/ ReloadStep(s)
    BY <1>2, <2>3, ExecPlans, FillPlans, ExecDonePlans, ReloadPlans
  <2>4. CASE UndoStep(s) \/ Refill(s) \/ UndoDone(s) \/ ReReload(s)
    BY <1>2, <2>4, UndoPlans, RefillPlans, EndOfUndoPlans
  <2>5. CASE Succeed(s) \/ Fail(s)
    BY <1>2, <2>5, LeavePlans
  <2>6. QED
    BY <1>2, <2>1, <2>2, <2>3, <2>4, <2>5 DEF Sync
<1>3. QED
  BY <1>1, <1>2 DEF EngineNext

\* The file the agent finds is tidy, and nobody has a plan.
LEMMA PlanStart ==
    ASSUME Trusted, EngineStart
    PROVE  PlanInv
<1>1. TidyDisk
  BY DEF EngineStart, FileInit, Trusted, TidyDisk
<1>2. AppliedInv
  BY DEF EngineStart, EngineInit, NewSyncStatus, AppliedInv
<1>3. ASSUME NEW s \in Syncers PROVE SyncerInv(s)
  BY DEF EngineStart, EngineInit, SyncerInv, NotBegun, Forward, Back
<1>4. QED
  BY <1>1, <1>2, <1>3 DEF PlanInv

\* As long as no two synchronisations overlap, a syncer's plan is one for the file
\* it saw, and the file is on the way from there to the desired state.
THEOREM PlansHold ==
    ASSUME Documents, Trusted
    PROVE  EngineSpec /\ []Serial => []PlanInv
<1>1. EngineStart => PlanInv
  BY PlanStart
<1>2. EngineInv /\ PlanInv /\ Serial /\ Serial' /\ [EngineNext]_allVars => PlanInv'
  BY PlanKept
<1>3. QED
  BY <1>1, <1>2, EngineInvariant, PTL DEF EngineSpec

\* Every syncer restores.
Restoring == \A s \in Syncers : RestoreInv(s)

\* Every step keeps what a rollback has reached.
LEMMA RestoringKept ==
    ASSUME Documents, EngineInv, PlanInv, Restoring, Serial, Serial',
           [EngineNext]_allVars
    PROVE  Restoring'
<1>1. EngineTypeOK
  BY DEF EngineInv, EngineCore
<1>2. CASE Publish \/ UNCHANGED allVars
  <2>1. UNCHANGED spc /\ UNCHANGED version /\ UNCHANGED seen /\ UNCHANGED plan /\ UNCHANGED pos
        /\ UNCHANGED buf /\ UNCHANGED ioFaults /\ UNCHANGED before /\ UNCHANGED disk
    BY <1>2 DEF Publish, allVars, engineVars
  <2>2. ASSUME NEW s \in Syncers PROVE RestoreInv(s)'
    <3>1. RestoreInv(s)
      BY DEF Restoring
    <3>2. QED
      BY <2>1, <3>1 DEF RestoreInv, DropsNoUsers, OnTheWay, Goal, Restored
  <2>3. QED
    BY <2>2 DEF Restoring
<1>3. ASSUME NEW s \in Syncers, Push(s) \/ Pull(s)
      PROVE  Restoring'
  <2>1. Goto(s, "reconcile")
    BY <1>3 DEF Push, Pull, Start
  <2>2. \A t \in Syncers : spc'[t] \in {"idle", "reconcile"}
    BY <1>1, <2>1 DEF Goto, EngineTypeOK, Serial
  <2>3. QED
    BY <2>2, NothingToRestore DEF Restoring
<1>4. ASSUME NEW s \in Syncers, Sync(s)
      PROVE  Restoring'
  <2>1. RestoreInv(s)'
    <3>1. RestoreInv(s)
      BY DEF Restoring
    <3>2. QED
      BY <1>4, <3>1, ForwardRestores, ReloadRestores, BackRestores DEF Sync
  <2>2. spc[s] # "idle"
    BY <1>4 DEF Sync, BeginReconcile, GetInboundsStep, GetUsersStep, BeginApply, ExecStep, Fill,
                ExecDone, ReloadStep, UndoStep, Refill, UndoDone, ReReload, Succeed, Fail
  <2>3. \E pc : Goto(s, pc)
    BY <1>4 DEF Sync, BeginReconcile, GetInboundsStep, GetUsersStep, BeginApply, ExecStep, Fill,
                ExecDone, ReloadStep, UndoStep, Refill, UndoDone, ReReload, Succeed, Fail,
                Open, StepFails, Leave
  <2>4. \A t \in Syncers \ {s} : spc'[t] = "idle"
    BY <1>1, <2>2, <2>3 DEF Goto, EngineTypeOK, Serial
  <2>5. ASSUME NEW t \in Syncers, t # s PROVE RestoreInv(t)'
    BY <2>4, <2>5, NothingToRestore
  <2>6. QED
    BY <2>1, <2>5 DEF Restoring
<1>5. QED
  BY <1>2, <1>3, <1>4 DEF EngineNext

\* A plan finds the inbounds and users it is about: with no two synchronisations
\* at once, one that ends with an error met a failing read, write or reload, or
\* sing-box refuses an inbound the control plane desires.
THEOREM PlansAreExecutable ==
    ASSUME Documents, Trusted
    PROVE  EngineSpec /\ []Serial => []PlanIsExecutable
<1>1. PlanInv => PlanIsExecutable
  BY DEF PlanInv, SyncerInv, PlanIsExecutable, Goal
<1>2. QED
  BY <1>1, PlansHold, PTL

\* When a version is reported as applied the file serves exactly the users and
\* inbounds of that desired state.
THEOREM SyncedMeansServed ==
    ASSUME Documents, Trusted
    PROVE  EngineSpec /\ []Serial => []SyncedServesDesired
<1>1. ASSUME PlanInv, Idle, status.state = "synced", status.version >= 0
      PROVE  /\ Served(disk) = Wanted(Desired[status.version])
             /\ Tags(disk) = {m.tag : m \in Desired[status.version].inbounds}
  <2>1. disk \in Document /\ Says(disk, DesiredFacts(Desired[status.version]))
    BY <1>1 DEF PlanInv, AppliedInv, Documents
  <2>2. QED
    BY <2>1, DesiredService
<1>2. PlanInv => SyncedServesDesired
  BY <1>1 DEF SyncedServesDesired
<1>3. QED
  BY <1>2, PlansHold, PTL

\* A drift check that pulls the applied version again disturbs nobody, whatever
\* order its plan takes within a group.
THEOREM DriftCheckIsHarmless ==
    ASSUME Documents, Trusted
    PROVE  EngineSpec /\ []Serial => []DriftCheckKeepsService
<1>1. ASSUME PlanInv, Idle, status.state = "synced", status.version >= 0,
             NEW p \in Reconcile(Desired[status.version], disk, disk), NEW n \in 1..Len(p)
      PROVE  /\ Stages(disk, p)[n] \in Config
             /\ Served(Stages(disk, p)[n]) = Served(disk)
             /\ Tags(Stages(disk, p)[n]) = Tags(disk)
  <2>1. status.version \in 0..MaxVersion /\ disk \in Config
        /\ Says(disk, DesiredFacts(Desired[status.version]))
    BY <1>1 DEF PlanInv, AppliedInv
  <2>2. Setting(Homes, Desired[status.version], disk)
    BY <1>1, <2>1 DEF PlanInv, TidyDisk, Trusted, Setting
  <2>3. QED
    BY <2>1, <2>2, DriftDisturbsNobody DEF Documents
<1>2. PlanInv => DriftCheckKeepsService
  BY <1>1 DEF DriftCheckKeepsService
<1>3. QED
  BY <1>2, PlansHold, PTL

\* A plan that fails, and drops no inbound with users, leaves the users and
\* inbounds that were there before it, when no synchronisation overlaps another.
THEOREM RollbackRestores ==
    ASSUME Documents, Trusted
    PROVE  EngineSpec /\ []Serial => []FailedPlanRestores
<1>1. EngineStart => Restoring
  BY DEF EngineStart, EngineInit, Restoring, RestoreInv
<1>2. EngineInv /\ PlanInv /\ Restoring /\ Serial /\ Serial'
        /\ [EngineNext]_allVars => Restoring'
  BY RestoringKept
<1>3. Restoring => FailedPlanRestores
  <2>1. SUFFICES ASSUME Restoring, NEW s \in Syncers, DropsNoUsers(s), spc[s] = "fail",
                        before[s] \in Config, ioFaults = 0
                 PROVE  Served(disk) = Served(before[s]) /\ Tags(disk) = Tags(before[s])
    BY DEF FailedPlanRestores, PlanFailed, AsBefore
  <2>2. before[s] # None
    BY <2>1
  <2>3. Restored(s)
    BY <2>1, <2>2 DEF Restoring, RestoreInv
  <2>4. QED
    BY <2>3, SameService DEF Restored
<1>4. QED
  BY <1>1, <1>2, <1>3, EngineInvariant, PlansHold, PTL DEF EngineSpec
=============================================================================
