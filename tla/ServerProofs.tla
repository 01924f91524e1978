---------------------------- MODULE ServerProofs ----------------------------
(***************************************************************************)
(* Proofs about ConfigClient and about Server: the REST client alone, then *)
(* with the desired-state engine on one file, in a process that may end at *)
(* any moment, for any number of requests, goroutines, timers, syncers and *)
(* restarts, any documents and any bounds.                                 *)
(*                                                                         *)
(* None of the client's properties is inductive.  NoLostUpdate needs to    *)
(* know who holds the mutex at each point of the code (LockInv) and what a *)
(* local variable holds there (LocalInv); NoForgottenReload needs to know  *)
(* that the three fields of the debounce window are set and cleared        *)
(* together and that a set timer is running or has fired (WindowInv).      *)
(* These facts (ClientCore) speak of the client's own state and hold       *)
(* beside another writer too.  RunsWhatIsOnDisk needs to know that only a  *)
(* write nobody has reloaded after may separate sing-box from the file     *)
(* (FreshInv).  The refinement of ConfigStore and                          *)
(* RollbackSparesNewerWrites come last.                                    *)
(*                                                                         *)
(* What each writer knows of itself (ClientCore, EngineCore) survives the  *)
(* other's steps because the other takes and releases the mutex for itself *)
(* only and writes only when it holds it.  What they share needs facts of  *)
(* both: the file is whole unless a syncer has the mutex (WholeInv), and   *)
(* sing-box runs it unless somebody still has a reload to make             *)
(* (FreshServer).                                                          *)
(***************************************************************************)
EXTENDS Server, SyncEngineProofs

(***************************************************************************)
(* The REST client.                                                        *)
(***************************************************************************)
LockInv ==
    /\ \A w \in Writers : wpc[w] # "idle" <=> mu = w
    /\ \A w \in Writers : wpc[w] \in {"loaded", "saved"} <=> lock = w
    /\ \A c \in Callbacks : cpc[c] = "restore" <=> lock = c

LocalInv ==
    /\ \A w \in Writers : wpc[w] = "loaded" => root[w] \in Config /\ base[w] \in Config
    /\ \A w \in Writers : wpc[w] = "saved" => root[w] \in Config /\ previous[w] \in Config
    /\ original # Nil => original \in Config
    /\ \A c \in Callbacks :
         cpc[c] \in {"reload", "rollback", "restore", "retry"} => corig[c] \in Config

WindowInv ==
    /\ (timer = Nil) <=> (original = Nil)
    /\ timer # Nil => timer \in armed \/ \E c \in Callbacks : cpc[c] = "start"

ClientCore == ClientTypeOK /\ LockInv /\ LocalInv /\ WindowInv /\ NoLostUpdate

FreshInv == flakes = 0 /\ disk \in Runnable => loaded = disk \/ unseen

ClientInv == TypeOK /\ ClientCore /\ NoForgottenReload /\ FreshInv
-----------------------------------------------------------------------------
USE ConfigFileAssumption, ConfigClientAssumption
USE DEF Content, fileVars, writerVars, windowVars, callbackVars, historyVars

\* c.mu.Lock() in a CRUD method: the request holds c.mu and nothing else moved.
LEMMA BeginKeeps ==
    ASSUME FileTypeOK, ClientCore, NEW w \in Writers, Begin(w)
    PROVE  ClientCore'
<1>1. ClientTypeOK'
  BY DEF Begin, ClientTypeOK, WriterPC, ClientCore
<1>2. LockInv'
  BY DEF ClientCore, LockInv, Begin, ClientTypeOK
<1>3. LocalInv'
  BY DEF ClientCore, LocalInv, Begin
<1>4. WindowInv'
  BY DEF ClientCore, WindowInv, Begin
<1>5. NoLostUpdate'
  BY DEF ClientCore, NoLostUpdate, Begin
<1>6. QED
  BY <1>1, <1>2, <1>3, <1>4, <1>5 DEF ClientCore

\* A request that is refused returns with both mutexes free and the file as it was.
LEMMA RefuseKeeps ==
    ASSUME FileTypeOK, ClientCore, NEW w \in Writers, Refuse(w)
    PROVE  ClientCore'
<1>1. ClientTypeOK'
  BY DEF Refuse, Fault, Return, ClientTypeOK, WriterPC, ClientCore
<1>2. LockInv'
  BY DEF ClientCore, LockInv, Refuse, Return, ClientTypeOK
<1>3. LocalInv'
  BY DEF ClientCore, LocalInv, Refuse, Return
<1>4. WindowInv'
  BY DEF ClientCore, WindowInv, Refuse
<1>5. NoLostUpdate'
  BY DEF ClientCore, NoLostUpdate, Refuse, Return
<1>6. QED
  BY <1>1, <1>2, <1>3, <1>4, <1>5 DEF ClientCore

\* A request takes cfglock before it reads, so what it loads is what is on disk.
LEMMA LoadKeeps ==
    ASSUME FileTypeOK, ClientCore, NEW w \in Writers, Load(w)
    PROVE  ClientCore'
<1>1. ClientTypeOK'
  BY DEF Load, ClientTypeOK, WriterPC, ClientCore
<1>2. LockInv'
  BY DEF ClientCore, LockInv, Load, ClientTypeOK
<1>3. LocalInv'
  BY DEF ClientCore, LocalInv, Load, ClientTypeOK
<1>4. WindowInv'
  BY DEF ClientCore, WindowInv, Load
<1>5. NoLostUpdate'
  BY DEF ClientCore, NoLostUpdate, Load, ClientTypeOK
<1>6. QED
  BY <1>1, <1>2, <1>3, <1>4, <1>5 DEF ClientCore

\* The rename makes the write unseen while its request still has to schedule.
LEMMA SaveKeeps ==
    ASSUME FileTypeOK, ClientCore, NEW w \in Writers, Save(w)
    PROVE  ClientCore'
<1>1. ClientTypeOK'
  BY DEF Save, FileTypeOK, ClientTypeOK, WriterPC, ClientCore
<1>2. LockInv'
  BY DEF ClientCore, LockInv, Save
<1>3. LocalInv'
  BY DEF ClientCore, LocalInv, Save, NoLostUpdate, ClientTypeOK
<1>4. WindowInv'
  BY DEF ClientCore, WindowInv, Save
<1>5. NoLostUpdate'
  BY DEF ClientCore, NoLostUpdate, Save, LockInv, ClientTypeOK
<1>6. QED
  BY <1>1, <1>2, <1>3, <1>4, <1>5 DEF ClientCore

\* A failed save releases both mutexes and leaves the file as it was.
LEMMA SaveFailsKeeps ==
    ASSUME FileTypeOK, ClientCore, NEW w \in Writers, SaveFails(w)
    PROVE  ClientCore'
<1>1. ClientTypeOK'
  BY DEF SaveFails, Fault, Return, ClientTypeOK, WriterPC, ClientCore
<1>2. LockInv'
  BY DEF ClientCore, LockInv, SaveFails, Return, ClientTypeOK
<1>3. LocalInv'
  BY DEF ClientCore, LocalInv, SaveFails, Return, ClientTypeOK
<1>4. WindowInv'
  BY DEF ClientCore, WindowInv, SaveFails
<1>5. NoLostUpdate'
  BY DEF ClientCore, NoLostUpdate, SaveFails, Return, ClientTypeOK
<1>6. QED
  BY <1>1, <1>2, <1>3, <1>4, <1>5 DEF ClientCore

\* saveAndReload opens the window with a running timer, or re-arms the open one's.
LEMMA ScheduleKeeps ==
    ASSUME FileTypeOK, ClientCore, NEW w \in Writers, Schedule(w)
    PROVE  ClientCore'
<1>1. ClientTypeOK'
  BY DEF Schedule, NoLostUpdate, Return, ClientTypeOK, WriterPC, ClientCore
<1>2. LockInv'
  BY DEF ClientCore, LockInv, Schedule, Return, ClientTypeOK
<1>3. LocalInv'
  BY DEF ClientCore, LocalInv, Schedule, Return, ClientTypeOK
<1>4. WindowInv'
  BY DEF ClientCore, WindowInv, Schedule, LocalInv
<1>5. NoLostUpdate'
  BY DEF ClientCore, NoLostUpdate, Schedule, Return
<1>6. QED
  BY <1>1, <1>2, <1>3, <1>4, <1>5 DEF ClientCore

\* A timer that fires leaves a started goroutine in its place.
LEMMA TimerFireKeeps ==
    ASSUME FileTypeOK, ClientCore, NEW t \in Timers, NEW c \in Callbacks, TimerFire(t, c)
    PROVE  ClientCore'
<1>1. ClientTypeOK'
  BY DEF TimerFire, ClientTypeOK, CallbackPC, ClientCore
<1>2. LockInv'
  BY DEF ClientCore, LockInv, TimerFire
<1>3. LocalInv'
  BY DEF ClientCore, LocalInv, TimerFire
<1>4. WindowInv'
  BY DEF ClientCore, WindowInv, TimerFire, ClientTypeOK
<1>5. NoLostUpdate'
  BY DEF ClientCore, NoLostUpdate, TimerFire
<1>6. QED
  BY <1>1, <1>2, <1>3, <1>4, <1>5 DEF ClientCore

\* The goroutine that closes the window takes over the reload it owed.
LEMMA TakeWindowKeeps ==
    ASSUME FileTypeOK, ClientCore, NEW c \in Callbacks, TakeWindow(c)
    PROVE  ClientCore'
<1>1. ClientTypeOK'
  <2>1. cpc' \in [Callbacks -> CallbackPC]
    BY DEF TakeWindow, Finish, ClientTypeOK, CallbackPC, ClientCore
  <2>2. /\ corig' \in [Callbacks -> Content \cup {Nil}]
        /\ cwrit' \in [Callbacks -> Config \cup {Nil}]
    BY DEF TakeWindow, Finish, ClientTypeOK, ClientCore
  <2>3. cown' \in [Callbacks -> SUBSET Nat] /\ ckept' \in [Callbacks -> SUBSET Nat]
    BY DEF TakeWindow, Finish, ClientTypeOK, ClientCore
  <2>4. QED
    BY <2>1, <2>2, <2>3 DEF TakeWindow, ClientTypeOK, ClientCore
<1>2. LockInv'
  BY DEF ClientCore, LockInv, TakeWindow, Finish, ClientTypeOK
<1>3. LocalInv'
  <2>1. CASE original = Nil
    BY <2>1 DEF ClientCore, LocalInv, TakeWindow, Finish, ClientTypeOK
  <2>2. CASE original # Nil
    BY <2>2 DEF ClientCore, LocalInv, TakeWindow, ClientTypeOK
  <2>3. QED
    BY <2>1, <2>2
<1>4. WindowInv'
  BY DEF ClientCore, WindowInv, TakeWindow
<1>5. NoLostUpdate'
  BY DEF ClientCore, NoLostUpdate, TakeWindow
<1>6. QED
  BY <1>1, <1>2, <1>3, <1>4, <1>5 DEF ClientCore

\* A reload leaves nothing unseen, whatever it reports.
LEMMA FirstReloadKeeps ==
    ASSUME FileTypeOK, ClientCore, NEW c \in Callbacks, FirstReload(c)
    PROVE  ClientCore'
<1>1. ClientTypeOK'
  BY DEF FirstReload, Finish, ClientTypeOK, CallbackPC, ClientCore
<1>2. LockInv'
  BY DEF ClientCore, LockInv, FirstReload, Finish, Reload, ClientTypeOK
<1>3. LocalInv'
  BY DEF ClientCore, LocalInv, FirstReload, Finish, ClientTypeOK
<1>4. WindowInv'
  BY DEF ClientCore, WindowInv, FirstReload, Finish, ClientTypeOK
<1>5. NoLostUpdate'
  BY DEF ClientCore, NoLostUpdate, FirstReload, Reload
<1>6. QED
  BY <1>1, <1>2, <1>3, <1>4, <1>5 DEF ClientCore

\* The goroutine decides under cfglock and keeps it only to restore.
LEMMA RollbackCheckKeeps ==
    ASSUME FileTypeOK, ClientCore, NEW c \in Callbacks, RollbackCheck(c)
    PROVE  ClientCore'
<1>1. ClientTypeOK'
  BY DEF RollbackCheck, Fault, ClientTypeOK, CallbackPC, ClientCore
<1>2. LockInv'
  BY DEF ClientCore, LockInv, RollbackCheck, ClientTypeOK
<1>3. LocalInv'
  BY DEF ClientCore, LocalInv, RollbackCheck, ClientTypeOK
<1>4. WindowInv'
  BY DEF ClientCore, WindowInv, RollbackCheck, ClientTypeOK
<1>5. NoLostUpdate'
  BY DEF ClientCore, NoLostUpdate, RollbackCheck
<1>6. QED
  BY <1>1, <1>2, <1>3, <1>4, <1>5 DEF ClientCore

\* The rollback's write is unseen, and its goroutine goes on to a second reload.
LEMMA RestoreKeeps ==
    ASSUME FileTypeOK, ClientCore, NEW c \in Callbacks, Restore(c)
    PROVE  ClientCore'
<1>1. ClientTypeOK'
  BY DEF Restore, ClientTypeOK, CallbackPC, ClientCore
<1>2. LockInv'
  BY DEF ClientCore, LockInv, Restore, ClientTypeOK
<1>3. LocalInv'
  BY DEF ClientCore, LocalInv, Restore
<1>4. WindowInv'
  BY DEF ClientCore, WindowInv, Restore
<1>5. NoLostUpdate'
  BY DEF ClientCore, NoLostUpdate, Restore, LockInv
<1>6. QED
  BY <1>1, <1>2, <1>3, <1>4, <1>5 DEF ClientCore

\* A failed rollback releases cfglock and leaves the file as it was.
LEMMA RestoreFailsKeeps ==
    ASSUME FileTypeOK, ClientCore, NEW c \in Callbacks, RestoreFails(c)
    PROVE  ClientCore'
<1>1. ClientTypeOK'
  BY DEF RestoreFails, Fault, Finish, ClientTypeOK, CallbackPC, ClientCore
<1>2. LockInv'
  BY DEF ClientCore, LockInv, RestoreFails, Finish, ClientTypeOK
<1>3. LocalInv'
  BY DEF ClientCore, LocalInv, RestoreFails, Finish, ClientTypeOK
<1>4. WindowInv'
  BY DEF ClientCore, WindowInv, RestoreFails, Finish
<1>5. NoLostUpdate'
  BY DEF ClientCore, NoLostUpdate, RestoreFails
<1>6. QED
  BY <1>1, <1>2, <1>3, <1>4, <1>5 DEF ClientCore

\* The second reload leaves nothing unseen, and the goroutine is gone.
LEMMA RetryReloadKeeps ==
    ASSUME FileTypeOK, ClientCore, NEW c \in Callbacks, RetryReload(c)
    PROVE  ClientCore'
<1>1. ClientTypeOK'
  BY DEF RetryReload, Finish, ClientTypeOK, CallbackPC, ClientCore
<1>2. LockInv'
  BY DEF ClientCore, LockInv, RetryReload, Finish, Reload
<1>3. LocalInv'
  BY DEF ClientCore, LocalInv, RetryReload, Finish, ClientTypeOK
<1>4. WindowInv'
  BY DEF ClientCore, WindowInv, RetryReload, Finish
<1>5. NoLostUpdate'
  BY DEF ClientCore, NoLostUpdate, RetryReload, Reload
<1>6. QED
  BY <1>1, <1>2, <1>3, <1>4, <1>5 DEF ClientCore
-----------------------------------------------------------------------------
\* Every method of client.go and every section of performDebouncedReload keeps
\* what the client knows of its own state.
LEMMA ClientCoreKept ==
    ASSUME FileTypeOK, ClientCore, ClientNext
    PROVE  ClientCore'
<1>1. ASSUME NEW w \in Writers, Begin(w) \/ Request(w)
      PROVE  ClientCore'
  BY <1>1, BeginKeeps, RefuseKeeps, LoadKeeps, SaveKeeps, SaveFailsKeeps, ScheduleKeeps
     DEF Request
<1>2. ASSUME NEW t \in Timers, NEW c \in Callbacks, TimerFire(t, c)
      PROVE  ClientCore'
  BY <1>2, TimerFireKeeps
<1>3. ASSUME NEW c \in Callbacks, Goroutine(c)
      PROVE  ClientCore'
  BY <1>3, TakeWindowKeeps, FirstReloadKeeps, RollbackCheckKeeps, RestoreKeeps,
     RestoreFailsKeeps, RetryReloadKeeps DEF Goroutine
<1>4. QED
  BY <1>1, <1>2, <1>3 DEF ClientNext

\* Somebody else's step, which leaves the client's state and its hold on the mutex
\* alone and writes only while no request has the mutex, keeps it too.
LEMMA ClientUntouched ==
    ASSUME ClientCore,
           UNCHANGED <<writerVars, windowVars, callbackVars, faults, own, kept, cown, ckept>>,
           live' \in SUBSET Nat,
           \A x \in Writers \cup Callbacks : lock' = x <=> lock = x,
           disk' = disk \/ lock \notin Writers
    PROVE  ClientCore'
<1> USE DEF ClientCore
<1>1. ClientTypeOK'
  BY DEF ClientTypeOK
<1>2. LockInv'
  BY DEF LockInv
<1>3. LocalInv' /\ WindowInv'
  BY DEF LocalInv, WindowInv
<1>4. NoLostUpdate'
  BY DEF NoLostUpdate, LockInv
<1>5. QED
  BY <1>1, <1>2, <1>3, <1>4

\* What a step of the client may do to the mutex: take it when it is free, or
\* release it when the client has it.
ClientLocks ==
    \/ lock' = lock
    \/ lock = Free /\ lock' \in Writers \cup Callbacks
    \/ lock \in Writers \cup Callbacks /\ lock' = Free

\* What it may do to the file and to sing-box: nothing, a write under the mutex
\* that is unseen, or a reload.
ClientMoves ==
    \/ UNCHANGED <<disk, loaded, unseen, flakes>>
    \/ /\ lock \in Writers \cup Callbacks
       /\ disk' \in Config
       /\ unseen' = TRUE
       /\ UNCHANGED <<loaded, flakes>>
    \/ \E ok \in BOOLEAN : Reload(ok)

\* The methods of client.go lock and unlock in pairs, and write a document, under
\* the mutex, or leave the file alone.
LEMMA ClientStepMoves ==
    ASSUME ClientCore, ClientNext
    PROVE  ClientLocks /\ ClientMoves
<1>1. ASSUME NEW w \in Writers, Begin(w) \/ Refuse(w) \/ Load(w) \/ SaveFails(w) \/ Schedule(w)
      PROVE  ClientLocks /\ UNCHANGED <<disk, loaded, unseen, flakes>>
  BY <1>1 DEF Begin, Refuse, Load, SaveFails, Schedule, ClientLocks, ClientCore, LockInv
<1>2. ASSUME NEW w \in Writers, Save(w)
      PROVE  ClientLocks /\ ClientMoves
  BY <1>2 DEF Save, ClientLocks, ClientMoves, ClientCore, LockInv, LocalInv
<1>3. ASSUME NEW t \in Timers, NEW c \in Callbacks, TimerFire(t, c)
      PROVE  ClientLocks /\ ClientMoves
  BY <1>3 DEF TimerFire, ClientLocks, ClientMoves
<1>4. ASSUME NEW c \in Callbacks, TakeWindow(c) \/ RollbackCheck(c) \/ RestoreFails(c)
      PROVE  ClientLocks /\ UNCHANGED <<disk, loaded, unseen, flakes>>
  BY <1>4 DEF TakeWindow, RollbackCheck, RestoreFails, ClientLocks, ClientCore, LockInv
<1>5. ASSUME NEW c \in Callbacks, Restore(c)
      PROVE  ClientLocks /\ ClientMoves
  BY <1>5 DEF Restore, ClientLocks, ClientMoves, ClientCore, LockInv, LocalInv
<1>6. ASSUME NEW c \in Callbacks, FirstReload(c) \/ RetryReload(c)
      PROVE  ClientLocks /\ ClientMoves
  <2>1. \E ok \in BOOLEAN : Reload(ok)
    BY <1>6 DEF FirstReload, RetryReload
  <2>2. QED
    BY <2>1 DEF ClientLocks, ClientMoves, Reload
<1>7. QED
  BY <1>1, <1>2, <1>3, <1>4, <1>5, <1>6 DEF ClientNext, Request, Goroutine, ClientMoves

\* A reload, whatever it reports, keeps the types of the file and of sing-box.
LEMMA ReloadTyped ==
    ASSUME FileTypeOK, NEW ok \in BOOLEAN, Reload(ok)
    PROVE  FileTypeOK'
<1>1. disk' \in Content
  BY DEF FileTypeOK, Reload
<1>2. loaded' \in Config \cup {Down}
  BY DEF FileTypeOK, Reload, Runnable
<1>3. unseen' \in BOOLEAN
  BY DEF Reload
<1>4. flakes' \in Nat
  BY DEF FileTypeOK, Reload
<1>5. QED
  BY <1>1, <1>2, <1>3, <1>4 DEF FileTypeOK

\* Whatever the client does, the file holds a document or is torn as before.
LEMMA ClientFileTyped ==
    ASSUME FileTypeOK, ClientMoves
    PROVE  FileTypeOK'
BY ReloadTyped DEF ClientMoves, FileTypeOK

\* A write that has a reload coming keeps it until the reload is tried: Schedule
\* opens a window with a running timer or re-arms the open one's, a timer that
\* fires leaves a goroutine, and that goroutine takes over what its window owed.
LEMMA ReloadStaysDue ==
    ASSUME ClientCore, ClientNext, NoForgottenReload
    PROVE  NoForgottenReload'
<1> USE DEF NoForgottenReload, ReloadIsDue, ClientCore, ClientTypeOK
<1>1. ASSUME NEW w \in Writers, Begin(w) \/ Request(w)
      PROVE  NoForgottenReload'
  <2>1. CASE Begin(w)
    BY <2>1 DEF Begin
  <2>2. CASE Refuse(w)
    BY <2>2 DEF Refuse, Return
  <2>3. CASE Load(w)
    BY <2>3 DEF Load
  <2>4. CASE Save(w)
    BY <2>4 DEF Save
  <2>5. CASE SaveFails(w)
    BY <2>5 DEF SaveFails, Return
  <2>6. CASE Schedule(w)
    BY <2>6 DEF Schedule, WindowInv, LocalInv
  <2>7. QED
    BY <1>1, <2>1, <2>2, <2>3, <2>4, <2>5, <2>6 DEF Request
<1>2. ASSUME NEW t \in Timers, NEW c \in Callbacks, TimerFire(t, c)
      PROVE  NoForgottenReload'
  BY <1>2 DEF TimerFire
<1>3. ASSUME NEW c \in Callbacks, Goroutine(c)
      PROVE  NoForgottenReload'
  <2>1. CASE TakeWindow(c)
    BY <2>1 DEF TakeWindow, Finish
  <2>2. CASE FirstReload(c) \/ RetryReload(c)
    BY <2>2 DEF FirstReload, RetryReload, Reload
  <2>3. CASE RollbackCheck(c)
    BY <2>3 DEF RollbackCheck
  <2>4. CASE Restore(c)
    BY <2>4 DEF Restore
  <2>5. CASE RestoreFails(c)
    BY <2>5 DEF RestoreFails, Finish
  <2>6. QED
    BY <1>3, <2>1, <2>2, <2>3, <2>4, <2>5 DEF Goroutine
<1>4. QED
  BY <1>1, <1>2, <1>3 DEF ClientNext

\* After a reload that did not fail by itself sing-box runs what is on disk, if it
\* accepts it.
LEMMA ReloadFreshens ==
    ASSUME FileTypeOK, NEW ok \in BOOLEAN, Reload(ok), flakes' = 0, disk' \in Runnable
    PROVE  flakes = 0 /\ loaded' = disk'
BY DEF Reload, FileTypeOK, Runnable
-----------------------------------------------------------------------------
\* ConfigClient starts with no request, no window and a file sing-box runs.
LEMMA InitInv == Init => ClientInv
<1> SUFFICES ASSUME Init PROVE ClientInv
  OBVIOUS
<1> USE DEF Init, FileInit, ClientInit
<1>1. TypeOK
  BY DEF TypeOK, FileTypeOK, ClientTypeOK, WriterPC, CallbackPC, Runnable
<1>2. LockInv
  BY DEF LockInv
<1>3. LocalInv /\ WindowInv /\ NoLostUpdate
  BY DEF LocalInv, WindowInv, NoLostUpdate
<1>4. NoForgottenReload /\ FreshInv
  BY DEF NoForgottenReload, FreshInv
<1>5. QED
  BY <1>1, <1>2, <1>3, <1>4 DEF ClientInv, ClientCore, TypeOK

\* A step that leaves every variable of the client alone keeps the invariant.
LEMMA StutterKeeps ==
    ASSUME ClientInv, UNCHANGED vars
    PROVE  ClientInv'
<1> USE DEF vars, clientVars, ClientInv
<1>1. TypeOK'
  BY DEF TypeOK, FileTypeOK, ClientTypeOK
<1>2. ClientCore'
  BY ClientUntouched DEF ClientCore, ClientTypeOK
<1>3. NoForgottenReload' /\ FreshInv'
  BY DEF NoForgottenReload, ReloadIsDue, FreshInv, Runnable
<1>4. QED
  BY <1>1, <1>2, <1>3

\* The invariant holds of every behaviour of the client.
THEOREM ClientInvariant == Spec => []ClientInv
<1>1. ASSUME ClientInv, [ClientNext]_vars
      PROVE  ClientInv'
  <2>1. CASE ClientNext
    <3>1. FileTypeOK /\ ClientCore /\ NoForgottenReload
      BY <1>1 DEF ClientInv, TypeOK
    <3>2. ClientCore' /\ ClientLocks /\ ClientMoves /\ NoForgottenReload'
      BY <2>1, <3>1, ClientCoreKept, ClientStepMoves, ReloadStaysDue
    <3>3. FileTypeOK'
      BY <3>1, <3>2, ClientFileTyped
    <3>4. TypeOK'
      BY <1>1, <3>2, <3>3 DEF TypeOK, ClientInv, ClientCore, ClientLocks
    <3>5. FreshInv'
      <4>1. CASE \E ok \in BOOLEAN : Reload(ok)
        <5>1. PICK ok \in BOOLEAN : Reload(ok)
          BY <4>1
        <5>2. ASSUME flakes' = 0, disk' \in Runnable
              PROVE  loaded' = disk'
          BY <3>1, <5>1, <5>2, ReloadFreshens
        <5>3. QED
          BY <5>2 DEF FreshInv, Runnable
      <4>2. CASE UNCHANGED <<disk, loaded, unseen, flakes>> \/ unseen'
        BY <1>1, <4>2 DEF FreshInv, ClientInv, Runnable
      <4>3. QED
        BY <3>2, <4>1, <4>2 DEF ClientMoves
    <3>6. QED
      BY <3>2, <3>4, <3>5 DEF ClientInv
  <2>2. CASE UNCHANGED vars
    BY <1>1, <2>2, StutterKeeps
  <2>3. QED
    BY <1>1, <2>1, <2>2
<1>2. QED
  BY <1>1, InitInv, PTL DEF Spec

\* Every variable of the client keeps its type.
THEOREM ClientTypeCorrect == Spec => []TypeOK
<1>1. ClientInv => TypeOK
  BY DEF ClientInv
<1>2. QED
  BY <1>1, ClientInvariant, PTL

\* However many requests and rollbacks run, none writes over a document a
\* request has loaded and not yet saved.
THEOREM ClientNoLostUpdate == Spec => []NoLostUpdate
<1>1. ClientInv => NoLostUpdate
  BY DEF ClientInv, ClientCore
<1>2. QED
  BY <1>1, ClientInvariant, PTL

\* However many timers and goroutines race, a write that sing-box has not been
\* asked to read is still owed a reload.
THEOREM ClientNoForgottenReload == Spec => []NoForgottenReload
<1>1. ClientInv => NoForgottenReload
  BY DEF ClientInv
<1>2. QED
  BY <1>1, ClientInvariant, PTL

\* When the client has nothing left to do sing-box runs what is on disk: in a
\* quiet state no reload is due, so no write is unseen.
THEOREM ClientRunsWhatIsOnDisk == Spec => []RunsWhatIsOnDisk
<1>1. ASSUME ClientInv
      PROVE  RunsWhatIsOnDisk
  <2> SUFFICES ASSUME Quiet, flakes = 0, disk \in Runnable
               PROVE  loaded = disk
    BY DEF RunsWhatIsOnDisk
  <2>1. ~ReloadIsDue
    BY DEF Quiet, ReloadIsDue
  <2>2. ~unseen
    BY <1>1, <2>1 DEF ClientInv, NoForgottenReload
  <2>3. QED
    BY <1>1, <2>2 DEF ClientInv, FreshInv
<1>2. QED
  BY <1>1, ClientInvariant, PTL
-----------------------------------------------------------------------------
(***************************************************************************)
(* ConfigClient implements ConfigStore.  The rename of a request is the    *)
(* store's Change, the write of a rollback its Revert; every other step    *)
(* only drops copies.  That a rename is an edit of the document on disk    *)
(* needs NoLostUpdate and that what a request is about to save is an edit  *)
(* of what it loaded (EditInv); that a rollback brings back a document the *)
(* store has been needs that its copy is one of the bytes somebody saved   *)
(* (LocalInv).                                                             *)
(***************************************************************************)
EditInv ==
    \A w \in Writers :
        wpc[w] = "loaded" => \E op \in Op : root[w] = ClientEdit(base[w], op)

StoreVars == <<disk, Held>>

\* The copies a request makes are the bytes it is about to replace
\* (saveAndReload): Save adds the document on disk and nothing else.
LEMMA SaveHolds ==
    ASSUME ClientInv, NEW w \in Writers, Save(w)
    PROVE  Held' \subseteq Held \cup {disk}
BY DEF Held, Save, ClientInv, ClientCore, ClientTypeOK

\* A request's saveAndReload, up to its rename, is one change of the store.
LEMMA SaveChanges ==
    ASSUME ClientInv, EditInv, NEW w \in Writers, Save(w)
    PROVE  Store!StoreNext
<1>1. PICK op \in Op : root[w] = ClientEdit(base[w], op)
  BY DEF EditInv, Save
<1>2. base[w] = disk /\ root[w] \in Config
  BY DEF ClientInv, ClientCore, NoLostUpdate, LocalInv, Save
<1>3. disk' = ClientEdit(disk, op) /\ ClientEdit(disk, op) \in Config
  BY <1>1, <1>2 DEF Save
<1>4. Store!Change(op)
  BY <1>3, SaveHolds DEF Store!Change
<1>5. QED
  BY <1>4 DEF Store!StoreNext

\* The write of performDebouncedReload's rollback is a revert of the store.
LEMMA RestoreReverts ==
    ASSUME ClientInv, NEW c \in Callbacks, Restore(c)
    PROVE  Store!StoreNext
<1>1. corig[c] \in Content /\ corig[c] # Nil
  BY DEF ClientInv, ClientCore, LocalInv, Restore
<1>2. disk' \in Held
  BY <1>1 DEF Held, Restore
<1>3. Held' = Held
  BY DEF Held, Restore
<1>4. QED
  BY <1>2, <1>3 DEF Store!StoreNext, Store!Revert

\* Every other step of a request leaves the file alone and copies nothing that is
\* not held already: Schedule moves its copy into debounceOriginal.
LEMMA RequestForgets ==
    ASSUME ClientInv, NEW w \in Writers,
           Begin(w) \/ Refuse(w) \/ Load(w) \/ SaveFails(w) \/ Schedule(w)
    PROVE  Store!StoreNext
<1>1. disk' = disk
  BY DEF Begin, Refuse, Load, SaveFails, Schedule
<1>2. corig' = corig
  BY DEF Begin, Refuse, Load, SaveFails, Schedule
<1>3. \A v \in Writers : previous'[v] \in {previous[v], Nil}
  BY DEF Begin, Refuse, Load, SaveFails, Schedule, Return, ClientInv, ClientCore, ClientTypeOK
<1>4. original' \in {original, previous[w]}
  BY DEF Begin, Refuse, Load, SaveFails, Schedule
<1>5. Held' \subseteq Held
  BY <1>2, <1>3, <1>4 DEF Held
<1>6. QED
  BY <1>1, <1>5 DEF Store!StoreNext, Store!Forget

\* So does every other step of a timer goroutine: TakeWindow moves
\* debounceOriginal into its own copy.
LEMMA GoroutineForgets ==
    ASSUME ClientInv, NEW c \in Callbacks,
           \/ TakeWindow(c) \/ FirstReload(c) \/ RollbackCheck(c)
           \/ RestoreFails(c) \/ RetryReload(c)
    PROVE  Store!StoreNext
<1> USE DEF TakeWindow, FirstReload, RollbackCheck, RestoreFails, RetryReload
<1>1. disk' = disk
  BY DEF Reload
<1>2. previous' = previous
  OBVIOUS
<1>3. original' \in {original, Nil}
  OBVIOUS
<1>4. \A b \in Callbacks : corig'[b] \in {corig[b], original, Nil}
  BY DEF Finish, ClientInv, ClientCore, ClientTypeOK
<1>5. Held' \subseteq Held
  BY <1>2, <1>3, <1>4 DEF Held
<1>6. QED
  BY <1>1, <1>5 DEF Store!StoreNext, Store!Forget

\* A timer that expires (time.AfterFunc) touches neither the file nor a copy.
LEMMA TimerFireForgets ==
    ASSUME NEW t \in Timers, NEW c \in Callbacks, TimerFire(t, c)
    PROVE  Store!StoreNext
<1>1. disk' = disk /\ Held' = Held
  BY DEF TimerFire, Held
<1>2. QED
  BY <1>1 DEF Store!StoreNext, Store!Forget

\* What a request is about to save stays an edit of what it loaded: only Load
\* gives a request its two documents.
LEMMA EditKept ==
    ASSUME ClientInv, EditInv, [ClientNext]_vars
    PROVE  EditInv'
<1>1. ASSUME NEW w \in Writers, Load(w)
      PROVE  EditInv'
  <2>1. PICK op \in Op : root' = [root EXCEPT ![w] = ClientEdit(disk, op)]
    BY <1>1 DEF Load
  <2>2. root'[w] = ClientEdit(base'[w], op)
    BY <1>1, <2>1 DEF Load, ClientInv, ClientCore, ClientTypeOK
  <2>3. \A v \in Writers \ {w} :
           wpc'[v] = wpc[v] /\ root'[v] = root[v] /\ base'[v] = base[v]
    BY <1>1, <2>1 DEF Load, ClientInv, ClientCore, ClientTypeOK
  <2>4. QED
    BY <2>2, <2>3 DEF EditInv
<1>2. ASSUME NEW w \in Writers,
             Begin(w) \/ Refuse(w) \/ Save(w) \/ SaveFails(w) \/ Schedule(w)
      PROVE  EditInv'
  <2>1. wpc'[w] # "loaded"
    BY <1>2 DEF Begin, Refuse, Save, SaveFails, Schedule, Return, ClientInv, ClientCore, ClientTypeOK
  <2>2. \A v \in Writers \ {w} :
           wpc'[v] = wpc[v] /\ root'[v] = root[v] /\ base'[v] = base[v]
    BY <1>2 DEF Begin, Refuse, Save, SaveFails, Schedule, Return, ClientInv, ClientCore, ClientTypeOK
  <2>3. QED
    BY <2>1, <2>2 DEF EditInv
<1>3. CASE UNCHANGED writerVars
  BY <1>3 DEF EditInv
<1>4. ASSUME NEW t \in Timers, NEW c \in Callbacks, TimerFire(t, c)
      PROVE  EditInv'
  BY <1>3, <1>4 DEF TimerFire
<1>5. ASSUME NEW c \in Callbacks, Goroutine(c)
      PROVE  EditInv'
  BY <1>3, <1>5 DEF Goroutine, TakeWindow, FirstReload, RollbackCheck, Restore,
                    RestoreFails, RetryReload
<1>6. CASE UNCHANGED vars
  BY <1>3, <1>6 DEF vars, clientVars
<1>7. QED
  BY <1>1, <1>2, <1>4, <1>5, <1>6 DEF ClientNext, Request

\* Every step of the client is a step of the store or leaves it alone.
LEMMA StepRefines ==
    ASSUME ClientInv, EditInv, [ClientNext]_vars
    PROVE  [Store!StoreNext]_StoreVars
<1>1. ASSUME NEW w \in Writers, Begin(w) \/ Request(w)
      PROVE  Store!StoreNext
  BY <1>1, SaveChanges, RequestForgets DEF Request
<1>2. ASSUME NEW t \in Timers, NEW c \in Callbacks, TimerFire(t, c)
      PROVE  Store!StoreNext
  BY <1>2, TimerFireForgets
<1>3. ASSUME NEW c \in Callbacks, Goroutine(c)
      PROVE  Store!StoreNext
  BY <1>3, RestoreReverts, GoroutineForgets DEF Goroutine
<1>4. CASE UNCHANGED vars
  BY <1>4 DEF vars, clientVars, StoreVars, Held
<1>5. QED
  BY <1>1, <1>2, <1>3, <1>4 DEF ClientNext

\* The initial states of the client are initial states of the store.
LEMMA InitRefines == Init => Store!StoreInit /\ EditInv
<1> SUFFICES ASSUME Init
             PROVE  Store!StoreInit /\ EditInv
  OBVIOUS
<1>1. Held = {}
  BY DEF Init, ClientInit, Held
<1>2. EditInv
  BY DEF Init, ClientInit, EditInv
<1>3. QED
  BY <1>1, <1>2 DEF Store!StoreInit, Init, FileInit

\* The REST client implements the store that its callers rely on: whatever
\* requests, debounce windows and rollbacks do together, the file changes only by
\* one edit of the document it holds, or back to a document it has held.
THEOREM ClientImplementsStore == Spec => ImplementsStore
<1>1. ClientInv /\ EditInv /\ [ClientNext]_vars => EditInv'
  BY EditKept
<1>2. ClientInv /\ EditInv /\ [ClientNext]_vars => [Store!StoreNext]_StoreVars
  BY StepRefines
<1>3. QED
  BY <1>1, <1>2, InitRefines, ClientInvariant, PTL
     DEF Spec, ImplementsStore, Store!StoreSpec, StoreVars
-----------------------------------------------------------------------------
(***************************************************************************)
(* A rollback spares newer writes, as long as no request writes bytes that *)
(* a window on its way to a reload wrote before (NewBytes): needRollback   *)
(* compares bytes and cannot tell such a write from the window's own.      *)
(*                                                                         *)
(* Taken are the goroutines that may still roll back.  Their windows are   *)
(* ordered by the numbers of their writes (Before).  A document that was   *)
(* on disk with the writes S in it fits the windows W before it when, if   *)
(* it has the bytes of one of them, that window is the last of W and       *)
(* accounts for all of S.  The file fits all windows taken (TakenInv), the *)
(* bytes a window would bring back fit the earlier ones; a rollback then   *)
(* leaves a file that fits.                                                *)
(***************************************************************************)
\* A request under way never has the bytes that a window still on its way to a
\* reload or a rollback has written.
NewBytes ==
    \A w \in Writers, c \in Callbacks :
        wpc[w] \in {"loaded", "saved"} /\ cpc[c] \in {"reload", "rollback"} => root[w] # cwrit[c]

Taken == {c \in Callbacks : cpc[c] \in {"reload", "rollback", "restore"}}

Before(a, b) == \A i \in cown[a], j \in cown[b] : i < j

Earlier(c) == {a \in Taken : a # c /\ Before(a, c)}

Fits(doc, S, W) ==
    \A a \in W :
        doc = cwrit[a] => S \subseteq ckept[a] \cup cown[a] /\ \A b \in W : ~Before(a, b)

Numbered(S) == \A i \in S : i <= writes /\ (mu # Free => i # writes)

OwnInv ==
    /\ Numbered(own)
    /\ \A c \in Taken : Numbered(cown[c]) /\ cown[c] # {}
    /\ original # Nil => own # {} /\ \A c \in Taken : \A i \in cown[c], j \in own : i < j
    /\ \A a, b \in Taken : a # b => Before(a, b) \/ Before(b, a)

TakenInv ==
    /\ Fits(disk, live, Taken)
    /\ \A c \in Taken : Fits(corig[c], ckept[c], Earlier(c))
    /\ \A c \in Callbacks : cpc[c] = "restore" => disk = cwrit[c]

OpenInv ==
    original # Nil =>
        /\ Fits(original, kept, Taken)
        /\ \A c \in Taken : written # cwrit[c]
        /\ (\A w \in Writers : wpc[w] # "saved") => disk = written /\ live \subseteq kept \cup own

SavedInv ==
    \A w \in Writers :
        wpc[w] = "saved" =>
            /\ disk = root[w]
            /\ Fits(previous[w], live \ {writes}, Taken)
            /\ original # Nil => previous[w] = written /\ live \ {writes} \subseteq kept \cup own

RollbackInv == OwnInv /\ TakenInv /\ OpenInv /\ SavedInv

\* The windows on their way to a rollback are as they were, or some are gone.
Fewer ==
    /\ Taken' \subseteq Taken
    /\ \A c \in Taken' : /\ corig'[c] = corig[c]
                         /\ cwrit'[c] = cwrit[c]
                         /\ cown'[c] = cown[c]
                         /\ ckept'[c] = ckept[c]

\* Dropping windows cannot make a document stop fitting the others.
LEMMA FewerFit ==
    ASSUME Fewer, NEW d, NEW S
    PROVE  Fits(d, S, Taken) =>
             \A a \in Taken' :
               d = cwrit'[a] => /\ S \subseteq ckept'[a] \cup cown'[a]
                                /\ \A b \in Taken' : ~(\A i \in cown'[a], j \in cown'[b] : i < j)
BY DEF Fewer, Fits, Before

\* So the bytes of the windows that remain still fit the earlier ones.
LEMMA FewerEarlier ==
    ASSUME Fewer, \A c \in Taken : Fits(corig[c], ckept[c], Earlier(c))
    PROVE  (\A c \in Taken : Fits(corig[c], ckept[c], Earlier(c)))'
<1> SUFFICES ASSUME NEW c \in Taken'
             PROVE  Fits(corig[c], ckept[c], Earlier(c))'
  OBVIOUS
<1>1. c \in Taken /\ corig'[c] = corig[c] /\ ckept'[c] = ckept[c]
  BY DEF Fewer
<1>2. \A a, b \in Taken' : Before(a, b)' <=> Before(a, b)
  BY DEF Fewer, Before
<1>3. Earlier(c)' \subseteq Earlier(c) /\ Earlier(c)' \subseteq Taken'
  BY <1>1, <1>2 DEF Fewer, Earlier
<1>4. \A a \in Earlier(c)' : /\ cwrit'[a] = cwrit[a]
                             /\ cown'[a] = cown[a]
                             /\ ckept'[a] = ckept[a]
  BY <1>3 DEF Fewer
<1>5. QED
  BY <1>1, <1>2, <1>3, <1>4 DEF Fits

\* They stay apart and in order.
LEMMA FewerOwn ==
    ASSUME OwnInv, Fewer, UNCHANGED <<mu, writes>>, own' \subseteq own,
           original' # Nil => original # Nil /\ own' = own
    PROVE  OwnInv'
<1>1. Numbered(own)' /\ (\A c \in Taken : Numbered(cown[c]) /\ cown[c] # {})'
  BY DEF OwnInv, Fewer, Numbered
<1>2. (original # Nil => own # {} /\ \A c \in Taken : \A i \in cown[c], j \in own : i < j)'
  BY DEF OwnInv, Fewer
<1>3. \A a, b \in Taken' : Before(a, b)' <=> Before(a, b)
  BY DEF Fewer, Before
<1>4. (\A a, b \in Taken : a # b => Before(a, b) \/ Before(b, a))'
  BY <1>3 DEF OwnInv, Fewer
<1>5. QED
  BY <1>1, <1>2, <1>4 DEF OwnInv

\* A step that at most ends windows, and leaves the file, the requests and the
\* open window alone, keeps the invariant.
LEMMA FewerKeeps ==
    ASSUME RollbackInv, Fewer, UNCHANGED <<disk, live, wpc, root, previous, writes, mu>>,
           \/ UNCHANGED <<original, written, own, kept>>
           \/ original = Nil /\ original' = Nil /\ own' \subseteq own,
           \A c \in Callbacks : cpc'[c] = "restore" => disk = cwrit'[c]
    PROVE  RollbackInv'
<1> USE DEF RollbackInv
<1>1. OwnInv'
  BY FewerOwn
<1>2. TakenInv'
  <2>1. Fits(disk, live, Taken)'
    BY FewerFit DEF TakenInv, Fits, Before
  <2>2. (\A c \in Taken : Fits(corig[c], ckept[c], Earlier(c)))'
    BY FewerEarlier DEF TakenInv
  <2>3. QED
    BY <2>1, <2>2 DEF TakenInv
<1>3. OpenInv'
  <2> SUFFICES ASSUME original' # Nil
               PROVE  /\ Fits(original, kept, Taken)'
                      /\ \A c \in Taken' : written' # cwrit'[c]
                      /\ (\A w \in Writers : wpc'[w] # "saved") =>
                           disk' = written' /\ live' \subseteq kept' \cup own'
    BY DEF OpenInv
  <2>1. UNCHANGED <<original, written, own, kept>> /\ original # Nil
    OBVIOUS
  <2>2. Fits(original, kept, Taken)'
    <3>1. Fits(original, kept, Taken)
      BY <2>1 DEF OpenInv
    <3>2. QED
      BY <2>1, <3>1, FewerFit DEF Fits, Before
  <2>3. \A c \in Taken' : written' # cwrit'[c]
    BY <2>1 DEF OpenInv, Fewer
  <2>4. QED
    BY <2>1, <2>2, <2>3 DEF OpenInv
<1>4. SavedInv'
  <2> SUFFICES ASSUME NEW w \in Writers, wpc'[w] = "saved"
               PROVE  /\ disk' = root'[w]
                      /\ Fits(previous[w], live \ {writes}, Taken)'
                      /\ original' # Nil => /\ previous'[w] = written'
                                            /\ live' \ {writes'} \subseteq kept' \cup own'
    BY DEF SavedInv
  <2>1. Fits(previous[w], live \ {writes}, Taken)
    BY DEF SavedInv
  <2> DEFINE d == previous[w]
             S == live \ {writes}
  <2>2. \A a \in Taken' :
           d = cwrit'[a] => /\ S \subseteq ckept'[a] \cup cown'[a]
                            /\ \A b \in Taken' : ~(\A i \in cown'[a], j \in cown'[b] : i < j)
    <3> HIDE DEF d, S
    <3>1. Fits(d, S, Taken)
      BY <2>1 DEF d, S
    <3>2. QED
      BY <3>1, FewerFit
  <2>3. Fits(previous[w], live \ {writes}, Taken)'
    BY <2>2 DEF Fits, Before
  <2>4. QED
    BY <2>3 DEF SavedInv
<1>5. QED
  BY <1>1, <1>2, <1>3, <1>4

\* The steps of a request that write nothing (c.mu.Lock(), the load, the returns
\* with an error) keep it as well.
LEMMA RequestSpares ==
    ASSUME ClientCore, RollbackInv, NEW w \in Writers,
           Begin(w) \/ Refuse(w) \/ Load(w) \/ SaveFails(w)
    PROVE  RollbackInv'
<1> USE DEF RollbackInv, ClientCore
<1>1. UNCHANGED <<disk, windowVars, callbackVars, historyVars>>
  BY DEF Begin, Refuse, Load, SaveFails
<1>2. wpc[w] # "saved" /\ wpc'[w] # "saved"
  BY DEF Begin, Refuse, Load, SaveFails, Return, ClientTypeOK
<1>3. \A v \in Writers : v # w => /\ wpc'[v] = wpc[v]
                                  /\ root'[v] = root[v]
                                  /\ previous'[v] = previous[v]
  BY DEF Begin, Refuse, Load, SaveFails, Return, ClientTypeOK
<1>4. \/ mu = Free /\ mu' = w /\ writes' = writes + 1
      \/ UNCHANGED writes /\ (mu' = mu \/ mu' = Free)
  BY DEF Begin, Refuse, Load, SaveFails, Return
<1>5. \A a, b \in Callbacks : Before(a, b)' <=> Before(a, b)
  BY <1>1 DEF Before
<1>6. Taken' = Taken /\ \A c \in Callbacks : Earlier(c)' = Earlier(c)
  BY <1>1, <1>5 DEF Taken, Earlier
<1>7. OwnInv'
  <2>1. \A S \in SUBSET Nat : Numbered(S) => Numbered(S)'
    BY <1>4 DEF Numbered, ClientTypeOK
  <2>2. own \in SUBSET Nat /\ \A c \in Taken : c \in Callbacks /\ cown[c] \in SUBSET Nat
    BY DEF ClientTypeOK, Taken
  <2>3. Numbered(own)' /\ \A c \in Taken : Numbered(cown[c])' /\ cown[c] # {}
    BY <1>1, <2>1, <2>2 DEF OwnInv, Numbered
  <2>4. QED
    BY <1>1, <1>5, <1>6, <2>2, <2>3 DEF OwnInv
<1>8. TakenInv'
  <2>1. Fits(disk, live, Taken)'
    BY <1>1, <1>5, <1>6 DEF TakenInv, Fits, Taken
  <2>2. (\A c \in Taken : Fits(corig[c], ckept[c], Earlier(c)))'
    BY <1>1, <1>5, <1>6 DEF TakenInv, Fits, Taken, Earlier
  <2>3. QED
    BY <1>1, <2>1, <2>2 DEF TakenInv
<1>9. OpenInv'
  BY <1>1, <1>2, <1>3, <1>5, <1>6 DEF OpenInv, Fits, Taken
<1>10. SavedInv'
  <2>1. mu = Free \/ mu = w
    BY DEF Begin, Refuse, Load, SaveFails, LockInv
  <2>2. \A v \in Writers : wpc'[v] # "saved"
    BY <1>2, <1>3, <2>1 DEF LockInv
  <2>3. QED
    BY <2>2 DEF SavedInv
<1>11. QED
  BY <1>7, <1>8, <1>9, <1>10

\* The rename gives the file bytes that no window under way has, and the request
\* keeps the bytes it replaced.
LEMMA SaveSpares ==
    ASSUME ClientCore, RollbackInv, NewBytes, NewBytes', NEW w \in Writers, Save(w)
    PROVE  RollbackInv'
<1> USE DEF RollbackInv, ClientCore
<1>1. UNCHANGED <<mu, writes, root, windowVars, callbackVars, own, kept, cown, ckept>>
  BY DEF Save
<1>2. /\ disk' = root[w] /\ live' = live \cup {writes}
      /\ wpc[w] = "loaded" /\ wpc'[w] = "saved" /\ previous'[w] = disk
  BY DEF Save, ClientTypeOK
<1>3. \A v \in Writers : v # w => wpc[v] # "saved" /\ wpc'[v] # "saved"
  BY <1>2 DEF Save, LockInv, ClientTypeOK
<1>4. \A a, b \in Callbacks : Before(a, b)' <=> Before(a, b)
  BY <1>1 DEF Before
<1>5. /\ Taken' = Taken /\ Taken \subseteq Callbacks
      /\ \A c \in Callbacks : Earlier(c)' = Earlier(c) /\ cpc[c] # "restore"
  BY <1>1, <1>2, <1>4 DEF Taken, Earlier, LockInv
<1>6. \A c \in Taken : root[w] # cwrit[c]
  BY <1>2, <1>5 DEF NewBytes, Taken
<1>7. OwnInv'
  BY <1>1, <1>4, <1>5 DEF OwnInv, Numbered
<1>8. TakenInv'
  BY <1>1, <1>2, <1>4, <1>5, <1>6 DEF TakenInv, Fits, Earlier
<1>9. OpenInv'
  BY <1>1, <1>2, <1>4, <1>5 DEF OpenInv, Fits
<1>10. SavedInv'
  <2>1. Fits(disk, live, Taken)
    BY DEF TakenInv
  <2>2. Fits(previous[w], live \ {writes}, Taken)'
    BY <1>1, <1>2, <1>4, <1>5, <2>1 DEF Fits
  <2>3. original' # Nil => previous'[w] = written' /\ live' \ {writes'} \subseteq kept' \cup own'
    BY <1>1, <1>2, <1>3 DEF OpenInv
  <2>4. QED
    BY <1>1, <1>2, <1>3, <2>2, <2>3 DEF SavedInv
<1>11. QED
  BY <1>7, <1>8, <1>9, <1>10

\* A request that opens a window records bytes that fit the windows under way, and
\* one that extends it has made the only write since.
LEMMA ScheduleSpares ==
    ASSUME ClientCore, RollbackInv, NewBytes, NEW w \in Writers, Schedule(w)
    PROVE  RollbackInv'
<1> USE DEF RollbackInv, ClientCore
<1>1. /\ UNCHANGED <<writes, disk, live, callbackVars, cown, ckept>>
      /\ wpc[w] = "saved" /\ mu' = Free /\ written' = root[w]
  BY DEF Schedule, Return
<1>2. mu = w /\ lock = w /\ mu # Free
  BY <1>1 DEF LockInv
<1>3. \A v \in Writers : wpc'[v] # "saved"
  BY <1>1, <1>2 DEF Schedule, Return, LockInv, ClientTypeOK
<1>4. \A a, b \in Callbacks : Before(a, b)' <=> Before(a, b)
  BY <1>1 DEF Before
<1>5. /\ Taken' = Taken /\ Taken \subseteq Callbacks
      /\ \A c \in Callbacks : Earlier(c)' = Earlier(c) /\ cpc[c] # "restore"
  BY <1>1, <1>2, <1>4 DEF Taken, Earlier, LockInv
<1>6. /\ disk = root[w]
      /\ Fits(previous[w], live \ {writes}, Taken)
      /\ original # Nil => previous[w] = written /\ live \ {writes} \subseteq kept \cup own
  BY <1>1 DEF SavedInv
<1>7. \/ original' = previous[w] /\ own' = {writes} /\ kept' = live \ {writes}
      \/ original # Nil /\ own' = own \cup {writes} /\ UNCHANGED <<original, kept>>
  BY DEF Schedule, WindowInv
<1>8. \A c \in Taken : root[w] # cwrit[c]
  BY <1>1, <1>5 DEF NewBytes, Taken
<1>9. OwnInv'
  <2>1. \A c \in Taken : cown[c] \in SUBSET Nat
    BY <1>5 DEF ClientTypeOK
  <2>2. \A c \in Taken : \A i \in cown[c] : i < writes
    BY <1>2, <2>1 DEF OwnInv, Numbered, ClientTypeOK
  <2>3. \A i \in own : i <= writes
    BY DEF OwnInv, Numbered
  <2>4. Numbered(own)'
    <3>1. writes \in Nat /\ own' \subseteq own \cup {writes}
      BY <1>7 DEF ClientTypeOK
    <3>2. \A i \in own' : i <= writes
      BY <2>3, <3>1
    <3>3. QED
      BY <1>1, <3>2 DEF Numbered
  <2>5. (\A c \in Taken : Numbered(cown[c]) /\ cown[c] # {})'
    BY <1>1, <1>5 DEF OwnInv, Numbered
  <2>6. (original # Nil => own # {} /\ \A c \in Taken : \A i \in cown[c], j \in own : i < j)'
    BY <1>1, <1>5, <1>7, <2>2 DEF OwnInv
  <2>7. (\A a, b \in Taken : a # b => Before(a, b) \/ Before(b, a))'
    BY <1>4, <1>5 DEF OwnInv
  <2>8. QED
    BY <2>4, <2>5, <2>6, <2>7 DEF OwnInv
<1>10. TakenInv'
  <2>1. Fits(disk, live, Taken)'
    BY <1>1, <1>4, <1>5 DEF TakenInv, Fits
  <2>2. (\A c \in Taken : Fits(corig[c], ckept[c], Earlier(c)))'
    BY <1>1, <1>4, <1>5 DEF TakenInv, Fits, Earlier
  <2>3. QED
    BY <1>1, <1>5, <2>1, <2>2 DEF TakenInv
<1>11. OpenInv'
  <2>1. Fits(original, kept, Taken)'
    BY <1>1, <1>4, <1>5, <1>6, <1>7 DEF OpenInv, Fits
  <2>2. disk' = written' /\ live' \subseteq kept' \cup own'
    BY <1>1, <1>6, <1>7
  <2>3. QED
    BY <1>1, <1>5, <1>8, <2>1, <2>2 DEF OpenInv
<1>12. SavedInv'
  BY <1>3 DEF SavedInv
<1>13. QED
  BY <1>9, <1>10, <1>11, <1>12

\* The window a goroutine takes becomes the last of the windows under way: the file
\* has its bytes and its writes, unless a request has just replaced them.
LEMMA TakeWindowSpares ==
    ASSUME ClientCore, RollbackInv, NewBytes, NewBytes', NEW c \in Callbacks, TakeWindow(c)
    PROVE  RollbackInv'
<1> USE DEF RollbackInv, ClientCore
<1>1. UNCHANGED <<disk, live, wpc, root, previous, writes, mu>> /\ cpc[c] = "start"
  BY DEF TakeWindow
<1>2. original' = Nil /\ own' = {} /\ c \notin Taken
  BY DEF TakeWindow, Taken
<1>3. CASE original = Nil
  <2>1. Fewer
    BY <1>3 DEF Fewer, Taken, TakeWindow, Finish, ClientTypeOK
  <2>2. \A b \in Callbacks : cpc'[b] = "restore" => disk = cwrit'[b]
    BY <1>3 DEF TakeWindow, Finish, TakenInv, ClientTypeOK
  <2>3. QED
    BY <1>1, <1>2, <1>3, <2>1, <2>2, FewerKeeps
<1>4. CASE original # Nil
  <2>1. /\ cpc'[c] = "reload" /\ corig'[c] = original /\ cwrit'[c] = written
        /\ cown'[c] = own /\ ckept'[c] = kept
    BY <1>4 DEF TakeWindow, ClientTypeOK
  <2>2. \A b \in Callbacks : b # c =>
           /\ cpc'[b] = cpc[b] /\ corig'[b] = corig[b] /\ cwrit'[b] = cwrit[b]
           /\ cown'[b] = cown[b] /\ ckept'[b] = ckept[b]
    BY <1>4 DEF TakeWindow, ClientTypeOK
  <2>3. Taken' = Taken \cup {c} /\ Taken \subseteq Callbacks
    BY <2>1, <2>2 DEF Taken
  <2>4. \A a, b \in Taken : Before(a, b)' <=> Before(a, b)
    BY <1>2, <2>2, <2>3 DEF Before
  <2>5. \A a \in Taken : \A i \in cown[a], j \in own : i < j
    BY <1>4 DEF OwnInv
  <2>6. \A a \in Taken : Before(a, c)'
    BY <1>2, <2>1, <2>2, <2>3, <2>5 DEF Before
  <2>7. \A a \in Taken : ~Before(c, a)'
    <3> SUFFICES ASSUME NEW a \in Taken, Before(c, a)'
                 PROVE  FALSE
      OBVIOUS
    <3>1. own # {} /\ cown[a] # {} /\ own \in SUBSET Nat /\ cown[a] \in SUBSET Nat
      BY <1>4, <2>3 DEF OwnInv, ClientTypeOK
    <3>2. PICK i \in own, j \in cown[a] : TRUE
      BY <3>1
    <3>3. cown'[c] = own /\ cown'[a] = cown[a]
      BY <1>2, <2>1, <2>2, <2>3
    <3>4. i < j
      BY <3>2, <3>3 DEF Before
    <3>5. j < i
      BY <2>5, <3>2
    <3>6. i \in Nat /\ j \in Nat
      BY <3>1, <3>2
    <3>7. QED
      BY <3>4, <3>5, <3>6
  <2>8. ~Before(c, c)'
    <3>1. PICK i \in own : i \in Nat
      BY <1>4 DEF OwnInv, ClientTypeOK
    <3>2. QED
      BY <2>1, <3>1 DEF Before
  <2>9. \A a \in Taken : written # cwrit[a]
    BY <1>4 DEF OpenInv
  <2>10. /\ \A a \in Taken : disk # cwrit[a]
         /\ disk = written => live \subseteq kept \cup own
    <3>1. CASE \A w \in Writers : wpc[w] # "saved"
      BY <1>4, <2>9, <3>1 DEF OpenInv
    <3>2. ASSUME NEW w \in Writers, wpc[w] = "saved"
          PROVE  disk # written /\ \A a \in Taken : disk # cwrit[a]
      <4>1. disk = root[w] /\ root'[w] = root[w] /\ wpc'[w] = "saved" /\ lock = w
        BY <1>1, <3>2 DEF SavedInv, LockInv
      <4>2. root[w] # written
        BY <2>1, <4>1 DEF NewBytes
      <4>3. \A a \in Taken : root[w] # cwrit[a]
        BY <3>2, <4>1 DEF NewBytes, Taken, LockInv
      <4>4. QED
        BY <4>1, <4>2, <4>3
    <3>3. QED
      BY <3>1, <3>2
  <2>11. OwnInv'
    <3>1. Numbered(own)'
      BY <1>2 DEF Numbered
    <3>2. (\A a \in Taken : Numbered(cown[a]) /\ cown[a] # {})'
      BY <1>1, <1>2, <1>4, <2>1, <2>2, <2>3 DEF OwnInv, Numbered
    <3>3. (\A a, b \in Taken : a # b => Before(a, b) \/ Before(b, a))'
      BY <2>3, <2>4, <2>6 DEF OwnInv
    <3>4. QED
      BY <1>2, <3>1, <3>2, <3>3 DEF OwnInv
  <2>12. TakenInv'
    <3>1. Fits(disk, live, Taken)'
      BY <1>1, <1>2, <2>1, <2>2, <2>3, <2>7, <2>8, <2>10 DEF Fits
    <3>2. Earlier(c)' = Taken
      BY <1>2, <2>3, <2>6 DEF Earlier
    <3>3. Fits(corig[c], ckept[c], Earlier(c))'
      BY <1>2, <1>4, <2>1, <2>2, <2>3, <2>4, <3>2 DEF OpenInv, Fits
    <3>4. ASSUME NEW a \in Taken
          PROVE  Fits(corig[a], ckept[a], Earlier(a))'
      <4>1. Earlier(a)' = Earlier(a) /\ Earlier(a) \subseteq Taken
        BY <2>3, <2>4, <2>7 DEF Earlier
      <4>2. corig'[a] = corig[a] /\ ckept'[a] = ckept[a] /\ Fits(corig[a], ckept[a], Earlier(a))
        BY <1>2, <2>2, <2>3 DEF TakenInv
      <4>3. QED
        BY <1>2, <2>2, <2>3, <2>4, <4>1, <4>2 DEF Fits
    <3>5. \A b \in Callbacks : cpc'[b] = "restore" => disk' = cwrit'[b]
      BY <1>1, <2>1, <2>2 DEF TakenInv
    <3>6. QED
      BY <2>3, <3>1, <3>3, <3>4, <3>5 DEF TakenInv
  <2>13. OpenInv'
    BY <1>2 DEF OpenInv
  <2>14. SavedInv'
    <3> SUFFICES ASSUME NEW w \in Writers, wpc[w] = "saved"
                 PROVE  disk = root[w] /\ Fits(previous[w], live \ {writes}, Taken)'
      BY <1>1, <1>2 DEF SavedInv
    <3>1. /\ disk = root[w] /\ previous[w] = written
          /\ live \ {writes} \subseteq kept \cup own
      BY <1>4 DEF SavedInv
    <3>2. QED
      BY <1>1, <1>2, <2>1, <2>2, <2>3, <2>7, <2>8, <2>9, <3>1 DEF Fits
  <2>15. QED
    BY <2>11, <2>12, <2>13, <2>14
<1>5. QED
  BY <1>3, <1>4

\* A rollback happens only when its window is the last one and no other is open;
\* the file then holds bytes that fit the windows that remain.
LEMMA RestoreSpares ==
    ASSUME ClientCore, RollbackInv, NEW c \in Callbacks, Restore(c)
    PROVE  RollbackInv'
<1> USE DEF RollbackInv, ClientCore
<1>1. /\ UNCHANGED <<corig, cwrit, writerVars, windowVars, own, kept, cown, ckept>>
      /\ cpc[c] = "restore" /\ disk' = corig[c] /\ live' = ckept[c]
  BY DEF Restore
<1>2. lock = c /\ disk = cwrit[c] /\ c \in Taken /\ Taken \subseteq Callbacks
  BY <1>1 DEF LockInv, TakenInv, Taken
<1>3. Taken' = Taken \ {c} /\ \A b \in Callbacks : cpc'[b] # "restore"
  BY <1>1, <1>2 DEF Restore, Taken, LockInv, ClientTypeOK
<1>4. \A w \in Writers : wpc[w] # "saved"
  BY <1>2 DEF LockInv
<1>5. original = Nil
  BY <1>2, <1>4 DEF OpenInv
<1>6. Fewer
  BY <1>1, <1>3 DEF Fewer
<1>7. OwnInv'
  BY <1>1, <1>6, FewerOwn
<1>8. Taken \ {c} \subseteq Earlier(c)
  BY <1>2 DEF TakenInv, Fits, OwnInv, Earlier
<1>9. Fits(corig[c], ckept[c], Earlier(c))
  BY <1>2 DEF TakenInv
<1>10. \A a, b \in Taken : Before(a, b)' <=> Before(a, b)
  BY <1>1 DEF Before
<1>11. Fits(disk, live, Taken)'
  BY <1>1, <1>3, <1>8, <1>9, <1>10 DEF Fits, Earlier
<1>12. (\A a \in Taken : Fits(corig[a], ckept[a], Earlier(a)))'
  BY <1>6, FewerEarlier DEF TakenInv
<1>13. TakenInv'
  BY <1>3, <1>11, <1>12 DEF TakenInv
<1>14. OpenInv' /\ SavedInv'
  BY <1>1, <1>4, <1>5 DEF OpenInv, SavedInv
<1>15. QED
  BY <1>7, <1>13, <1>14

\* Every other step of a timer goroutine at most ends its window; needRollback
\* sends it on to the rollback only when the file has the window's bytes.
LEMMA GoroutineSpares ==
    ASSUME ClientCore, RollbackInv, NEW c \in Callbacks,
           FirstReload(c) \/ RollbackCheck(c) \/ RestoreFails(c) \/ RetryReload(c)
    PROVE  RollbackInv'
<1> USE DEF FirstReload, RollbackCheck, RestoreFails, RetryReload, ClientCore
<1>1. UNCHANGED <<disk, live, writerVars, windowVars, own, kept>>
  BY DEF Reload
<1>2. \A b \in Callbacks : b # c =>
         /\ cpc'[b] = cpc[b] /\ corig'[b] = corig[b] /\ cwrit'[b] = cwrit[b]
         /\ cown'[b] = cown[b] /\ ckept'[b] = ckept[b]
  BY DEF Finish, ClientTypeOK
<1>3. \/ cpc'[c] \notin {"reload", "rollback", "restore"}
      \/ /\ c \in Taken
         /\ cpc'[c] = "restore" => disk = cwrit[c]
         /\ UNCHANGED <<corig, cwrit, cown, ckept>>
  BY DEF Finish, ClientTypeOK, Taken, NeedRollback
<1>4. Fewer
  BY <1>2, <1>3 DEF Fewer, Taken
<1>5. \A b \in Callbacks : cpc'[b] = "restore" => disk = cwrit'[b]
  BY <1>2, <1>3 DEF RollbackInv, TakenInv
<1>6. QED
  BY <1>1, <1>4, <1>5, FewerKeeps

\* time.AfterFunc starts a goroutine that has no window yet.
LEMMA TimerFireSpares ==
    ASSUME ClientCore, RollbackInv, NEW t \in Timers, NEW c \in Callbacks, TimerFire(t, c)
    PROVE  RollbackInv'
<1>1. Fewer
  BY DEF Fewer, Taken, TimerFire, ClientCore, ClientTypeOK
<1>2. \A b \in Callbacks : cpc'[b] = "restore" => disk = cwrit'[b]
  BY DEF TimerFire, RollbackInv, TakenInv, ClientCore, ClientTypeOK
<1>3. QED
  BY <1>1, <1>2, FewerKeeps DEF TimerFire

\* A rollback takes away only the writes of its own debounce window, for any number
\* of requests, windows and timer goroutines, whatever the requests do (delete what
\* another created, write the same again), as long as none of them writes the bytes
\* of a window that is still on its way to a rollback.
THEOREM ClientRollbackSparesNewerWrites ==
    Spec /\ []NewBytes => []RollbackSparesNewerWrites
<1>1. Init => RollbackInv
  <2> SUFFICES ASSUME Init
               PROVE  RollbackInv
    OBVIOUS
  <2>1. Taken = {} /\ original = Nil /\ own = {} /\ \A w \in Writers : wpc[w] = "idle"
    BY DEF Init, ClientInit, Taken
  <2>2. \A c \in Callbacks : cpc[c] = "none"
    BY DEF Init, ClientInit
  <2>3. QED
    BY <2>1, <2>2 DEF RollbackInv, OwnInv, Numbered, TakenInv, OpenInv, SavedInv, Fits
<1>2. ASSUME ClientInv, RollbackInv, NewBytes, NewBytes', [ClientNext]_vars
      PROVE  RollbackInv'
  <2>1. ClientCore
    BY <1>2 DEF ClientInv
  <2>2. ASSUME NEW w \in Writers, Begin(w) \/ Request(w)
        PROVE  RollbackInv'
    BY <1>2, <2>1, <2>2, RequestSpares, SaveSpares, ScheduleSpares DEF Request
  <2>3. ASSUME NEW t \in Timers, NEW c \in Callbacks, TimerFire(t, c)
        PROVE  RollbackInv'
    BY <1>2, <2>1, <2>3, TimerFireSpares
  <2>4. ASSUME NEW c \in Callbacks, Goroutine(c)
        PROVE  RollbackInv'
    BY <1>2, <2>1, <2>4, TakeWindowSpares, RestoreSpares, GoroutineSpares DEF Goroutine
  <2>5. CASE UNCHANGED vars
    <3>1. Fewer /\ \A c \in Callbacks : cpc'[c] = "restore" => disk = cwrit'[c]
      BY <1>2, <2>5 DEF vars, clientVars, Fewer, Taken, RollbackInv, TakenInv
    <3>2. QED
      BY <1>2, <2>5, <3>1, FewerKeeps DEF vars, clientVars
  <2>6. QED
    BY <1>2, <2>2, <2>3, <2>4, <2>5 DEF ClientNext
<1>3. ASSUME RollbackInv
      PROVE  RollbackSparesNewerWrites
  BY <1>3 DEF RollbackInv, TakenInv, Fits, Taken, RollbackSparesNewerWrites
<1>4. QED
  BY <1>1, <1>2, <1>3, ClientInvariant, PTL DEF Spec
-----------------------------------------------------------------------------
(***************************************************************************)
(* Both writers in one process.                                            *)
(***************************************************************************)
WholeInv == ioFaults = 0 /\ lock \notin Syncers => disk \in Config

\* The syncer has executed, or tried, a step of its plan and has neither seen a
\* reload succeed nor given up.
HalfDone(s) ==
    \/ spc[s] \in {"fill", "reload", "undo", "refill", "rereload", "fail"}
    \/ spc[s] = "exec" /\ pos[s] > 0

FreshServer ==
    flakes = 0 /\ disk \in Runnable =>
        \/ loaded = disk
        \/ unseen \/ orphan \/ spoiled
        \/ \E s \in Syncers : HalfDone(s)

ServerInv ==
    /\ FileTypeOK
    /\ ClientCore
    /\ EngineCore
    /\ managerWrites \in Nat
    /\ orphan \in BOOLEAN
    /\ spoiled \in BOOLEAN
    /\ WholeInv
    /\ OnlyARestartForgets
    /\ FreshServer
-----------------------------------------------------------------------------
USE ConfigFileAssumption, ConfigClientAssumption, SyncEngineAssumption, AgentAssumption
USE DEF Content, fileVars, writerVars, windowVars, callbackVars, historyVars, syncerVars,
        boundVars

\* The two writers are different goroutines: what one does with the mutex leaves the
\* other's hold on it alone.
LEMMA HoldersApart ==
    ASSUME NEW s \in Syncers, NEW x \in Writers \cup Callbacks
    PROVE  s # x /\ s # Free /\ x # Free
OBVIOUS

\* A request or a goroutine of the client keeps what the engine knows.
LEMMA ClientSparesEngine ==
    ASSUME ServerInv, ClientStep
    PROVE  /\ FileTypeOK' /\ ClientCore' /\ EngineCore' /\ WholeInv'
           /\ ClientMoves
<1>1. FileTypeOK /\ ClientCore /\ EngineCore /\ WholeInv
  BY DEF ServerInv
<1>2. ClientNext /\ UNCHANGED engineVars
  BY DEF ClientStep
<1>3. ClientCore' /\ ClientLocks /\ ClientMoves
  BY <1>1, <1>2, ClientCoreKept, ClientStepMoves
<1>4. FileTypeOK'
  BY <1>1, <1>3, ClientFileTyped
<1>5. \A s \in Syncers : lock' = s <=> lock = s
  BY <1>3, HoldersApart DEF ClientLocks
<1>6. EngineCore'
  BY <1>1, <1>2, <1>5, EngineUntouched
<1>7. WholeInv'
  <2>1. ioFaults' = ioFaults
    BY <1>2 DEF engineVars
  <2>2. disk' = disk \/ disk' \in Config
    BY <1>3 DEF ClientMoves, Reload
  <2>3. lock' \notin Syncers => lock \notin Syncers
    BY <1>5
  <2>4. QED
    BY <1>1, <2>1, <2>2, <2>3 DEF WholeInv
<1>8. QED
  BY <1>3, <1>4, <1>6, <1>7

\* A synchronisation keeps what the client knows: it writes only while it holds the
\* mutex, so no request has loaded a document that it replaces.
LEMMA EngineSparesClient ==
    ASSUME ServerInv, EngineStep
    PROVE  /\ FileTypeOK' /\ ClientCore' /\ EngineCore' /\ WholeInv'
           /\ EngineMoves
<1>1. FileTypeOK /\ ClientCore /\ EngineCore /\ WholeInv /\ managerWrites \in Nat
  BY DEF ServerInv
<1>2. EngineNext
  BY DEF EngineStep
<1>3. EngineCore' /\ EngineMoves
  BY <1>1, <1>2, EngineCoreKept, EngineStepMoves
<1>4. FileTypeOK'
  BY <1>1, <1>3, EngineFileTyped
<1>5. \A x \in Writers \cup Callbacks : lock' = x <=> lock = x
  BY <1>3, HoldersApart DEF EngineMoves, Opens, Closes, LeavesFile, Reload
<1>6. disk' = disk \/ lock \notin Writers
  BY <1>3, HoldersApart DEF EngineMoves, Opens, Closes, LeavesFile, Reload
<1>7. ClientCore'
  <2>1. live' \in SUBSET Nat
    <3>1. live \in SUBSET Nat
      BY <1>1 DEF ClientCore, ClientTypeOK
    <3>2. managerWrites' \in Nat
      <4>1. managerWrites' = managerWrites + (IF ManagerWrote THEN 1 ELSE 0)
        BY DEF EngineStep
      <4>2. QED
        BY <1>1, <4>1
    <3>3. MaxWrites + managerWrites' \in Nat
      <4>1. MaxWrites \in Nat
        OBVIOUS
      <4>2. ASSUME NEW n \in Nat
            PROVE  MaxWrites + n \in Nat
        BY <4>1
      <4>3. QED
        BY <3>2, <4>2
    <3>4. live' = live \/ live' = live \cup {MaxWrites + managerWrites'}
      BY DEF EngineStep
    <3>5. QED
      BY <3>1, <3>3, <3>4
  <2>2. QED
    BY <1>1, <1>5, <1>6, <2>1, ClientUntouched DEF EngineStep
<1>8. WholeInv'
  <2>1. ioFaults \in Nat
    BY <1>1 DEF EngineCore, EngineTypeOK
  <2>2. ASSUME NEW s \in Syncers, Opens(s) \/ Closes(s)
        PROVE  WholeInv'
    BY <2>1, <2>2 DEF Opens, Closes, WholeInv
  <2>3. ASSUME UNCHANGED <<lock, disk>>, ioFaults' \in {ioFaults, ioFaults + 1}
        PROVE  WholeInv'
    BY <1>1, <2>1, <2>3 DEF WholeInv
  <2>4. QED
    BY <1>3, <2>2, <2>3 DEF EngineMoves, LeavesFile, Reload
<1>9. QED
  BY <1>3, <1>4, <1>7, <1>8

\* POST /core/reload and /core/restart take no lock and write nothing.
LEMMA CoreReloadSpares ==
    ASSUME ServerInv, CoreReload
    PROVE  FileTypeOK' /\ ClientCore' /\ EngineCore' /\ WholeInv'
<1>1. FileTypeOK /\ ClientCore /\ EngineCore /\ WholeInv
  BY DEF ServerInv
<1>2. PICK ok \in BOOLEAN : Reload(ok)
  BY DEF CoreReload
<1>3. FileTypeOK'
  BY <1>1, <1>2, ReloadTyped
<1>4. UNCHANGED <<disk, lock>>
  BY <1>2 DEF Reload
<1>5. ClientCore'
  BY <1>1, <1>4, ClientUntouched DEF CoreReload, clientVars, ClientCore, ClientTypeOK
<1>6. EngineCore' /\ WholeInv'
  BY <1>1, <1>4, EngineUntouched DEF CoreReload, engineVars, WholeInv
<1>7. QED
  BY <1>3, <1>5, <1>6
-----------------------------------------------------------------------------
\* A synchronisation that has touched the file and given neither up nor back stays
\* half-done until a reload of sing-box, or until it gives up.
LEMMA HalfDoneStays ==
    ASSUME FileTypeOK, EngineCore, EngineNext
    PROVE  \/ \E s \in Syncers : HalfDone(s)'
           \/ \E ok \in BOOLEAN : Reload(ok)
           \/ /\ UNCHANGED <<disk, loaded, unseen, flakes>>
              /\ GaveUp \/ \A s \in Syncers : ~HalfDone(s)
<1> USE DEF EngineCore, EngineTypeOK
<1> DEFINE Calm == /\ UNCHANGED <<disk, loaded, unseen, flakes>>
                   /\ \/ GaveUp
                      \/ \A s \in Syncers : HalfDone(s) => HalfDone(s)'
<1>1. CASE Publish
  BY <1>1 DEF Publish, HalfDone
<1>2. ASSUME NEW s \in Syncers, Push(s) \/ Pull(s)
      PROVE  Calm
  BY <1>2 DEF Push, Pull, Start, Goto, HalfDone
<1>3. ASSUME NEW s \in Syncers, Sync(s)
      PROVE  Calm \/ HalfDone(s)' \/ \E ok \in BOOLEAN : Reload(ok)
  <2>1. CASE BeginReconcile(s) \/ BeginApply(s)
    BY <2>1 DEF BeginReconcile, BeginApply, Goto, HalfDone
  <2>2. CASE GetInboundsStep(s) \/ GetUsersStep(s)
    BY <2>2 DEF GetInboundsStep, GetUsersStep, Goto, HalfDone
  <2>3. CASE ExecStep(s) \/ UndoStep(s)
    BY <2>3 DEF ExecStep, UndoStep, Open, StepFails, Goto, HalfDone
  <2>4. CASE Fill(s) \/ Refill(s)
    BY <2>4 DEF Fill, Refill, Goto, HalfDone, HoldInv
  <2>5. CASE ReloadStep(s) \/ ReReload(s)
    BY <2>5 DEF ReloadStep, ReReload
  <2>6. CASE ExecDone(s)
    BY <2>6 DEF ExecDone, Goto, HalfDone
  <2>7. CASE UndoDone(s)
    BY <2>7 DEF UndoDone, Goto, HalfDone
  <2>8. CASE Succeed(s)
    BY <2>8 DEF Succeed, Leave, Goto, HalfDone
  <2>9. CASE Fail(s)
    BY <2>9 DEF Fail, Leave, Goto, GaveUp
  <2>10. QED
    BY <1>3, <2>1, <2>2, <2>3, <2>4, <2>5, <2>6, <2>7, <2>8, <2>9 DEF Sync
<1>4. QED
  BY <1>1, <1>2, <1>3 DEF EngineNext

\* What a reload leaves behind: no unseen write, and sing-box on what is on disk.
LEMMA ReloadSettles ==
    ASSUME FileTypeOK, NEW ok \in BOOLEAN, Reload(ok)
    PROVE  ~unseen' /\ (flakes' = 0 /\ disk' \in Runnable' => loaded' = disk')
<1>1. ~unseen'
  BY DEF Reload
<1>2. ASSUME flakes' = 0, disk' \in Runnable
      PROVE  loaded' = disk'
  BY <1>2, ReloadFreshens
<1>3. QED
  BY <1>1, <1>2 DEF Runnable

\* Every step of the running agent keeps the books on who owes sing-box a reload.
LEMMA StepKeepsFresh ==
    ASSUME ServerInv, ServerStep
    PROVE  OnlyARestartForgets' /\ FreshServer'
<1> USE DEF ServerInv
<1>1. ASSUME NEW ok \in BOOLEAN, Reload(ok)
      PROVE  OnlyARestartForgets' /\ FreshServer'
  BY <1>1, ReloadSettles DEF OnlyARestartForgets, FreshServer
<1>2. orphan /\ unseen' => orphan'
  BY DEF ServerStep
<1>3. orphan \/ spoiled \/ GaveUp => orphan' \/ spoiled' \/ loaded' = disk'
  BY DEF ServerStep
<1>4. CASE ClientStep
  <2>1. ClientMoves /\ ClientNext /\ UNCHANGED engineVars
    BY <1>4, ClientSparesEngine DEF ClientStep
  <2>2. OnlyARestartForgets'
    <3>1. CASE orphan
      BY <1>2, <3>1 DEF OnlyARestartForgets
    <3>2. CASE ~orphan
      BY <3>2, <2>1, ReloadStaysDue DEF OnlyARestartForgets, NoForgottenReload
    <3>3. QED
      BY <3>1, <3>2
  <2>3. CASE UNCHANGED <<disk, loaded, unseen, flakes>>
    <3>1. (\E s \in Syncers : HalfDone(s)) => \E s \in Syncers : HalfDone(s)'
      BY <2>1 DEF HalfDone, engineVars
    <3>2. FreshServer'
      BY <1>3, <2>3, <3>1 DEF FreshServer, Runnable
    <3>3. QED
      BY <2>2, <3>2
  <2>4. CASE unseen'
    BY <2>2, <2>4 DEF FreshServer
  <2>5. QED
    BY <1>1, <2>1, <2>3, <2>4 DEF ClientMoves
<1>5. CASE EngineStep
  <2>1. EngineMoves /\ EngineNext
    BY <1>5, EngineSparesClient DEF EngineStep
  <2>2. CASE unseen' = unseen
    <3>1. ReloadIsDue' <=> ReloadIsDue
      BY <1>5 DEF EngineStep, ReloadIsDue
    <3>2. OnlyARestartForgets'
      BY <1>2, <2>2, <3>1 DEF OnlyARestartForgets
    <3>3. FreshServer' \/ \E ok \in BOOLEAN : Reload(ok)
      BY <1>3, <2>1, HalfDoneStays DEF FreshServer, Runnable
    <3>4. QED
      BY <1>1, <3>2, <3>3
  <2>3. QED
    BY <1>1, <2>1, <2>2 DEF EngineMoves, Opens, Closes, LeavesFile
<1>6. CASE CoreReload
  BY <1>1, <1>6 DEF CoreReload
<1>7. QED
  BY <1>4, <1>5, <1>6 DEF ServerStep, AgentNext
-----------------------------------------------------------------------------
\* A process that ends, at any point of any of its goroutines, leaves the next one
\* with free mutexes, empty memory and a file that is whole unless a write was cut
\* short; what sing-box has not read is from then on an orphan.
LEMMA RestartKeeps ==
    ASSUME ServerInv, Restart
    PROVE  ServerInv'
<1> USE DEF ServerInv
<1>1. FileTypeOK'
  BY DEF Restart, FileTypeOK
<1>2. ClientCore'
  <2>1. ClientTypeOK'
    BY DEF Restart, ClientCore, ClientTypeOK, WriterPC, CallbackPC
  <2>2. LockInv'
    BY DEF Restart, LockInv
  <2>3. LocalInv' /\ WindowInv' /\ NoLostUpdate'
    BY DEF Restart, LocalInv, WindowInv, NoLostUpdate
  <2>4. QED
    BY <2>1, <2>2, <2>3 DEF ClientCore
<1>3. ioFaults \in Nat
  BY DEF EngineCore, EngineTypeOK
<1>4. ioFaults' \in Nat /\ (disk = Torn => ioFaults' # 0)
  BY <1>3 DEF Restart
<1>5. EngineCore'
  <2>1. EngineTypeOK'
    BY <1>4 DEF Restart, EngineCore, EngineTypeOK, SyncerPC, NewSyncStatus, SyncState
  <2>2. HoldInv'
    BY DEF Restart, HoldInv
  <2>3. SyncingMeansActive'
    BY DEF Restart, SyncingMeansActive, NewSyncStatus
  <2>4. QED
    BY <2>1, <2>2, <2>3 DEF EngineCore
<1>6. WholeInv'
  BY <1>4 DEF Restart, WholeInv, FileTypeOK
<1>7. OnlyARestartForgets' /\ FreshServer'
  BY DEF Restart, OnlyARestartForgets, FreshServer
<1>8. managerWrites' \in Nat /\ orphan' \in BOOLEAN /\ spoiled' \in BOOLEAN
  BY DEF Restart
<1>9. QED
  BY <1>1, <1>2, <1>5, <1>6, <1>7, <1>8

\* The first process starts with a file that sing-box runs and nothing under way.
LEMMA ServerInitInv == ServerInit => ServerInv
<1> SUFFICES ASSUME ServerInit PROVE ServerInv
  OBVIOUS
<1> USE DEF ServerInit, AgentInit, FileInit
<1>1. FileTypeOK
  BY DEF FileTypeOK
<1>2. ClientCore
  <2> USE DEF ClientInit
  <2>1. ClientTypeOK
    BY DEF ClientTypeOK, WriterPC, CallbackPC
  <2>2. LockInv /\ LocalInv /\ WindowInv /\ NoLostUpdate
    BY DEF LockInv, LocalInv, WindowInv, NoLostUpdate
  <2>3. QED
    BY <2>1, <2>2 DEF ClientCore
<1>3. EngineCore
  <2> USE DEF EngineInit
  <2>1. EngineTypeOK
    BY DEF EngineTypeOK, SyncerPC, NewSyncStatus, SyncState
  <2>2. HoldInv /\ SyncingMeansActive
    BY DEF HoldInv, SyncingMeansActive, NewSyncStatus
  <2>3. QED
    BY <2>1, <2>2 DEF EngineCore
<1>4. WholeInv /\ OnlyARestartForgets /\ FreshServer
  BY DEF WholeInv, OnlyARestartForgets, FreshServer
<1>5. QED
  BY <1>1, <1>2, <1>3, <1>4 DEF ServerInv

\* The invariant holds of every behaviour of the agent, restarts included.
THEOREM ServerInvariant == ServerSpec => []ServerInv
<1>1. ASSUME ServerInv, ServerStep
      PROVE  ServerInv'
  <2>1. FileTypeOK' /\ ClientCore' /\ EngineCore' /\ WholeInv'
    BY <1>1, ClientSparesEngine, EngineSparesClient, CoreReloadSpares
       DEF ServerStep, AgentNext
  <2>2. OnlyARestartForgets' /\ FreshServer'
    BY <1>1, StepKeepsFresh
  <2>3. managerWrites' \in Nat
    <3>1. \/ UNCHANGED managerWrites
          \/ managerWrites' = managerWrites + (IF ManagerWrote THEN 1 ELSE 0)
      BY <1>1 DEF ServerStep, AgentNext, ClientStep, EngineStep, CoreReload
    <3>2. QED
      BY <1>1, <3>1 DEF ServerInv
  <2>4. orphan' \in BOOLEAN /\ spoiled' \in BOOLEAN
    BY <1>1 DEF ServerStep
  <2>5. QED
    BY <2>1, <2>2, <2>3, <2>4 DEF ServerInv
<1>2. ASSUME ServerInv, UNCHANGED serverVars
      PROVE  ServerInv'
  <2> USE <1>2 DEF ServerInv, serverVars, agentVars
  <2>1. FileTypeOK' /\ WholeInv' /\ managerWrites' \in Nat
    BY DEF FileTypeOK, WholeInv, engineVars
  <2>2. ClientCore'
    BY ClientUntouched DEF clientVars, ClientCore, ClientTypeOK
  <2>3. EngineCore'
    BY EngineUntouched
  <2>4. OnlyARestartForgets'
    BY DEF OnlyARestartForgets, ReloadIsDue, clientVars
  <2>5. FreshServer'
    BY DEF FreshServer, HalfDone, Runnable, engineVars
  <2>6. QED
    BY <2>1, <2>2, <2>3, <2>4, <2>5
<1>3. ServerInv /\ [ServerNext]_serverVars => ServerInv'
  BY <1>1, <1>2, RestartKeeps DEF ServerNext
<1>4. QED
  BY <1>3, ServerInitInv, PTL DEF ServerSpec

\* Neither a synchronisation, nor a rollback, nor another request writes over a
\* document that a request has loaded and not yet saved.
THEOREM ServerNoLostUpdate == ServerSpec => []NoLostUpdate
<1>1. ServerInv => NoLostUpdate
  BY DEF ServerInv, ClientCore
<1>2. QED
  BY <1>1, ServerInvariant, PTL

\* Between the two writers, whoever takes the mutex finds a whole document as long
\* as no write failed or was cut short by the end of the process.
THEOREM ServerWholeWhenUnlocked == ServerSpec => []WholeWhenUnlocked
<1>1. ServerInv => WholeWhenUnlocked
  BY DEF ServerInv, WholeInv, WholeWhenUnlocked
<1>2. QED
  BY <1>1, ServerInvariant, PTL

\* The status does not stay at "syncing" when no syncer is on its way, whatever the
\* REST client does and however often the agent is restarted.
THEOREM ServerSyncingMeansActive == ServerSpec => []SyncingMeansActive
<1>1. ServerInv => SyncingMeansActive
  BY DEF ServerInv, EngineCore
<1>2. QED
  BY <1>1, ServerInvariant, PTL

\* A request's write is never forgotten, unless the process ends within its debounce
\* window.
THEOREM ServerOnlyARestartForgets == ServerSpec => []OnlyARestartForgets
<1>1. ServerInv => OnlyARestartForgets
  BY DEF ServerInv
<1>2. QED
  BY <1>1, ServerInvariant, PTL

\* When every request, goroutine and synchronisation has ended, nobody owes sing-box
\* a reload, so it runs what is on disk.
THEOREM ServerQuietRunsDisk == ServerSpec => []QuietAgentRunsDisk
<1>1. ASSUME ServerInv
      PROVE  QuietAgentRunsDisk
  <2> SUFFICES ASSUME AgentQuiet, flakes = 0, ~orphan, ~spoiled, disk \in Runnable
               PROVE  loaded = disk
    BY DEF QuietAgentRunsDisk
  <2>1. ~ReloadIsDue
    BY DEF AgentQuiet, Quiet, ReloadIsDue
  <2>2. ~unseen
    BY <1>1, <2>1 DEF ServerInv, OnlyARestartForgets
  <2>3. \A s \in Syncers : ~HalfDone(s)
    BY DEF AgentQuiet, HalfDone
  <2>4. QED
    BY <1>1, <2>2, <2>3 DEF ServerInv, FreshServer
<1>2. QED
  BY <1>1, ServerInvariant, PTL
-----------------------------------------------------------------------------
\* A client that has the mutex found a whole document under it.
HeldWhole == lock \in Writers \cup Callbacks => disk \in Config

\* Load parses the file before it keeps the mutex, and the rollback finds the bytes
\* its window wrote.
LEMMA ClientTakesWhole ==
    ASSUME FileTypeOK, ClientCore, ClientNext, lock = Free, lock' # Free
    PROVE  disk \in Config /\ disk' = disk
<1>1. ASSUME NEW w \in Writers, Load(w)
      PROVE  disk \in Config /\ disk' = disk
  BY <1>1 DEF Load
<1>2. ASSUME NEW c \in Callbacks, RollbackCheck(c)
      PROVE  disk \in Config /\ disk' = disk
  BY <1>2 DEF RollbackCheck, NeedRollback, ClientCore, ClientTypeOK, FileTypeOK
<1>3. ASSUME NEW w \in Writers, Begin(w) \/ Refuse(w) \/ Save(w) \/ SaveFails(w) \/ Schedule(w)
      PROVE  FALSE
  BY <1>3 DEF Begin, Refuse, Save, SaveFails, Schedule
<1>4. ASSUME NEW t \in Timers, NEW c \in Callbacks, TimerFire(t, c)
      PROVE  FALSE
  BY <1>4 DEF TimerFire
<1>5. ASSUME NEW c \in Callbacks,
             TakeWindow(c) \/ FirstReload(c) \/ Restore(c) \/ RestoreFails(c) \/ RetryReload(c)
      PROVE  FALSE
  BY <1>5 DEF TakeWindow, FirstReload, Restore, RestoreFails, RetryReload, Reload
<1>6. QED
  BY <1>1, <1>2, <1>3, <1>4, <1>5 DEF ClientNext, Request, Goroutine

\* While the client has the mutex nobody else truncates the file.
LEMMA HeldWholeKept ==
    ASSUME ServerInv, HeldWhole, [ServerNext]_serverVars
    PROVE  HeldWhole'
<1>1. FileTypeOK /\ ClientCore /\ EngineCore
  BY DEF ServerInv
<1>2. CASE ClientStep
  <2>1. ClientNext
    BY <1>2 DEF ClientStep
  <2>2. ClientLocks /\ ClientMoves
    BY <1>1, <2>1, ClientStepMoves
  <2>3. CASE lock' = lock
    BY <2>2, <2>3 DEF ClientMoves, Reload, HeldWhole
  <2>4. CASE lock = Free /\ lock' # Free
    BY <1>1, <2>1, <2>4, ClientTakesWhole DEF HeldWhole
  <2>5. QED
    BY <2>2, <2>3, <2>4 DEF ClientLocks, HeldWhole
<1>3. CASE EngineStep
  <2>1. EngineMoves
    BY <1>3, EngineSparesClient
  <2>2. ASSUME NEW s \in Syncers, Opens(s) \/ Closes(s)
        PROVE  HeldWhole'
    BY <2>2, HoldersApart DEF Opens, Closes, HeldWhole
  <2>3. CASE UNCHANGED <<lock, disk>>
    BY <2>3 DEF HeldWhole
  <2>4. QED
    BY <2>1, <2>2, <2>3 DEF EngineMoves, LeavesFile, Reload
<1>4. CASE CoreReload \/ UNCHANGED serverVars
  BY <1>4 DEF CoreReload, Reload, serverVars, agentVars, HeldWhole
<1>5. CASE Restart
  BY <1>5 DEF Restart, HeldWhole
<1>6. QED
  BY <1>2, <1>3, <1>4, <1>5 DEF ServerNext, ServerStep, AgentNext

\* A step replaces a damaged file only as the write that began with its truncation.
LEMMA DamageStays ==
    ASSUME ServerInv, HeldWhole, [ServerNext]_serverVars,
           disk = Torn, \A s \in Syncers : spc[s] \notin {"fill", "refill"}
    PROVE  disk' = Torn
<1>1. FileTypeOK /\ ClientCore /\ EngineCore
  BY DEF ServerInv
<1>2. CASE ClientStep
  <2>1. ClientMoves
    BY <1>2, ClientSparesEngine
  <2>2. lock \notin Writers \cup Callbacks
    BY DEF HeldWhole
  <2>3. QED
    BY <2>1, <2>2 DEF ClientMoves, Reload
<1>3. CASE EngineStep
  <2>1. EngineMoves
    BY <1>3, EngineSparesClient
  <2>2. ASSUME NEW s \in Syncers, Closes(s)
        PROVE  FALSE
    BY <1>1, <2>2 DEF Closes, EngineCore, HoldInv
  <2>3. ASSUME NEW s \in Syncers, Opens(s)
        PROVE  disk' = Torn
    BY <2>3 DEF Opens
  <2>4. QED
    BY <2>1, <2>2, <2>3 DEF EngineMoves, LeavesFile, Reload
<1>4. CASE CoreReload \/ UNCHANGED serverVars \/ Restart
  BY <1>4 DEF CoreReload, Reload, serverVars, agentVars, Restart
<1>5. QED
  BY <1>2, <1>3, <1>4 DEF ServerNext, ServerStep, AgentNext

\* Requests, synchronisations, rollbacks, explicit reloads and the next process all
\* leave a truncated file as it is.
THEOREM ServerDamageIsKept == ServerSpec => DamageIsKept
<1>1. ServerInit => HeldWhole
  BY DEF ServerInit, AgentInit, FileInit, HeldWhole
<1>2. ServerInv /\ HeldWhole /\ [ServerNext]_serverVars => HeldWhole'
  BY HeldWholeKept
<1>3. ServerInv /\ HeldWhole /\ [ServerNext]_serverVars =>
        (disk = Torn /\ (\A s \in Syncers : spc[s] \notin {"fill", "refill"}) => disk' = Torn)
  BY DamageStays
<1>4. QED
  BY <1>1, <1>2, <1>3, ServerInvariant, PTL DEF ServerSpec, DamageIsKept
=============================================================================
