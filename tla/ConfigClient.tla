---------------------------- MODULE ConfigClient ----------------------------
(***************************************************************************)
(* internal/singbox/client.go: the REST side's writer of the configuration *)
(* file.  Every create, update or delete of an inbound or a user           *)
(*   - takes c.mu, then cfglock, and loads the file            (Load)      *)
(*   - edits the document and renames it over the file         (Save)      *)
(*   - opens or extends the debounce window, releases both     (Schedule)  *)
(* and a goroutine of the window's timer later reloads sing-box and, if    *)
(* that fails, puts the pre-window bytes back (performDebouncedReload).    *)
(*                                                                         *)
(* Writers are the handler goroutines, Callbacks the goroutines time.After-*)
(* Func starts, Timers the timer objects: c.debounceTimer.Reset may re-arm *)
(* a timer that has fired but whose goroutine has not yet taken the window.*)
(* A section under debounceMu only assigns and never blocks: one step.     *)
(***************************************************************************)
EXTENDS ConfigFile

CONSTANTS
    Op,               \* what a REST request may ask for
    ClientEdit(_, _), \* the document an operation makes of a document, or no
                      \* document when it fails: not found, already exists
    Writers,          \* request goroutines
    Callbacks,        \* goroutines started by timers
    Timers,           \* timer objects
    Nil,              \* Go's nil
    MaxWrites,        \* bound on the number of requests
    MaxFaults         \* bound on failing reads and writes of the file

ASSUME ConfigClientAssumption ==
    /\ Writers \cap Callbacks = {}
    /\ Free \notin Writers \cup Callbacks
    /\ Nil \notin Content
    /\ Nil \notin Timers
    /\ MaxWrites \in Nat
    /\ MaxFaults \in Nat

VARIABLES
    mu,         \* holder of ConfigClient.mu
    wpc,        \* where each request is
    base,       \* the document a request loaded
    root,       \* the document a request is about to save, or saved
    previous,   \* saveAndReload: the bytes before the request's own write
    timer,      \* c.debounceTimer
    armed,      \* the timers that will fire
    original,   \* c.debounceOriginal
    written,    \* c.debounceWritten
    cpc,        \* where each timer goroutine is
    corig,      \* its copy of debounceOriginal
    cwrit,      \* its copy of debounceWritten
    writes,     \* requests so far
    faults,     \* failing reads and writes so far
    live,       \* history: the writes whose effect is in the file
    own,        \* history: the writes of the open window
    kept,       \* history: the writes that debounceOriginal holds
    cown,       \* history: a goroutine's copy of own
    ckept       \* history: a goroutine's copy of kept

writerVars == <<mu, wpc, base, root, previous, writes>>
windowVars == <<timer, armed, original, written>>
callbackVars == <<cpc, corig, cwrit>>
historyVars == <<live, own, kept, cown, ckept>>
clientVars == <<writerVars, windowVars, callbackVars, faults, historyVars>>

WriterPC == {"idle", "locked", "loaded", "saved"}
CallbackPC == {"none", "start", "reload", "rollback", "restore", "retry"}

(***************************************************************************)
(* History.  A write is named by its number: writes counts the requests,   *)
(* and only one request is past Begin at a time.  A window owns the writes *)
(* its Schedule steps recorded and keeps, for a rollback, the ones made    *)
(* before its first.                                                       *)
(***************************************************************************)
-----------------------------------------------------------------------------
ClientInit ==
    /\ mu = Free
    /\ wpc = [w \in Writers |-> "idle"]
    /\ base = [w \in Writers |-> Nil]
    /\ root = [w \in Writers |-> Nil]
    /\ previous = [w \in Writers |-> Nil]
    /\ timer = Nil
    /\ armed = {}
    /\ original = Nil
    /\ written = Nil
    /\ cpc = [c \in Callbacks |-> "none"]
    /\ corig = [c \in Callbacks |-> Nil]
    /\ cwrit = [c \in Callbacks |-> Nil]
    /\ writes = 0
    /\ faults = 0
    /\ live = {}
    /\ own = {}
    /\ kept = {}
    /\ cown = [c \in Callbacks |-> {}]
    /\ ckept = [c \in Callbacks |-> {}]

\* A request returns: the deferred unlocks, its locals are gone.
Return(w) ==
    /\ wpc' = [wpc EXCEPT ![w] = "idle"]
    /\ base' = [base EXCEPT ![w] = Nil]
    /\ root' = [root EXCEPT ![w] = Nil]
    /\ previous' = [previous EXCEPT ![w] = Nil]
    /\ mu' = Free

\* A CRUD method starts: c.mu.Lock().
Begin(w) ==
    /\ wpc[w] = "idle"
    /\ mu = Free
    /\ writes < MaxWrites
    /\ mu' = w
    /\ writes' = writes + 1
    /\ wpc' = [wpc EXCEPT ![w] = "locked"]
    /\ UNCHANGED <<base, root, previous, windowVars, callbackVars, faults,
                   historyVars, fileVars>>

\* A read or a write of the file fails.
Fault ==
    /\ faults < MaxFaults
    /\ faults' = faults + 1

\* cfglock.Lock(), loadRootConfig and the edit: the request is refused ...
Refuse(w) ==
    /\ wpc[w] = "locked"
    /\ lock = Free
    /\ \/ disk = Torn /\ UNCHANGED faults
       \/ /\ disk \in Config
          /\ \E op \in Op : ClientEdit(disk, op) \notin Config
          /\ UNCHANGED faults
       \/ Fault
    /\ Return(w)
    /\ UNCHANGED <<writes, windowVars, callbackVars, historyVars, fileVars>>

\* Mutant of Load: the error of the edit is dropped.
LoadUnchecked(w) ==
    /\ wpc[w] = "locked"
    /\ lock = Free
    /\ disk \in Config
    /\ \E op \in Op : root' = [root EXCEPT ![w] = ClientEdit(disk, op)]
    /\ base' = [base EXCEPT ![w] = disk]
    /\ lock' = w
    /\ wpc' = [wpc EXCEPT ![w] = "loaded"]
    /\ UNCHANGED <<mu, previous, writes, windowVars, callbackVars, faults,
                   historyVars, disk, loaded, unseen, flakes>>

\* Mutant of Load: cfglock is not taken, only c.mu is held.
LoadUnlocked(w) ==
    /\ wpc[w] = "locked"
    /\ disk \in Config
    /\ \E op \in Op :
         /\ ClientEdit(disk, op) \in Config
         /\ root' = [root EXCEPT ![w] = ClientEdit(disk, op)]
    /\ base' = [base EXCEPT ![w] = disk]
    /\ wpc' = [wpc EXCEPT ![w] = "loaded"]
    /\ UNCHANGED <<mu, previous, writes, windowVars, callbackVars, faults,
                   historyVars, fileVars>>

\* Mutant of Load: the error of json.Unmarshal is dropped, and a file that does
\* not parse is edited as a new one.
LoadDamaged(w) ==
    /\ wpc[w] = "locked"
    /\ lock = Free
    /\ \E op \in Op, doc \in Installed :
         /\ disk \in {Torn, doc}
         /\ ClientEdit(doc, op) \in Config
         /\ root' = [root EXCEPT ![w] = ClientEdit(doc, op)]
    /\ base' = [base EXCEPT ![w] = disk]
    /\ lock' = w
    /\ wpc' = [wpc EXCEPT ![w] = "loaded"]
    /\ UNCHANGED <<mu, previous, writes, windowVars, callbackVars, faults,
                   historyVars, disk, loaded, unseen, flakes>>

\* Mutant of Load: while a window is open the bytes it began with are edited,
\* not the file.
LoadFromWindow(w) ==
    /\ wpc[w] = "locked"
    /\ lock = Free
    /\ disk \in Config
    /\ LET doc == IF original \in Config THEN original ELSE disk
       IN  \E op \in Op :
             /\ ClientEdit(doc, op) \in Config
             /\ root' = [root EXCEPT ![w] = ClientEdit(doc, op)]
    /\ base' = [base EXCEPT ![w] = disk]
    /\ lock' = w
    /\ wpc' = [wpc EXCEPT ![w] = "loaded"]
    /\ UNCHANGED <<mu, previous, writes, windowVars, callbackVars, faults,
                   historyVars, disk, loaded, unseen, flakes>>

\* ... or goes on, holding the mutex.
Load(w) ==
    /\ wpc[w] = "locked"
    /\ lock = Free
    /\ disk \in Config
    /\ \E op \in Op :
         /\ ClientEdit(disk, op) \in Config
         /\ root' = [root EXCEPT ![w] = ClientEdit(disk, op)]
    /\ base' = [base EXCEPT ![w] = disk]
    /\ lock' = w
    /\ wpc' = [wpc EXCEPT ![w] = "loaded"]
    /\ UNCHANGED <<mu, previous, writes, windowVars, callbackVars, faults,
                   historyVars, disk, loaded, unseen, flakes>>

\* saveAndReload up to the rename of writeFileAtomic.
Save(w) ==
    /\ wpc[w] = "loaded"
    /\ previous' = [previous EXCEPT ![w] = disk]
    /\ disk' = root[w]
    /\ unseen' = TRUE
    /\ live' = live \cup {writes}
    /\ wpc' = [wpc EXCEPT ![w] = "saved"]
    /\ UNCHANGED <<mu, base, root, writes, windowVars, callbackVars, faults,
                   own, kept, cown, ckept, lock, loaded, flakes>>

\* Mutant of SaveFails: an early return without the unlock.
SaveFailsLocked(w) ==
    /\ wpc[w] = "loaded"
    /\ Fault
    /\ Return(w)
    /\ UNCHANGED <<writes, windowVars, callbackVars, historyVars, fileVars>>

\* The read of the old bytes fails, or writeFileAtomic does: the temporary file
\* is removed and the file is intact.
SaveFails(w) ==
    /\ wpc[w] = "loaded"
    /\ Fault
    /\ Return(w)
    /\ lock' = Free
    /\ UNCHANGED <<writes, windowVars, callbackVars, historyVars,
                   disk, loaded, unseen, flakes>>

\* The debounceMu section of saveAndReload, and the return to the caller.
Schedule(w) ==
    /\ wpc[w] = "saved"
    /\ \/ /\ timer = Nil
          /\ \E t \in Timers \ armed :
               /\ timer' = t
               /\ armed' = armed \cup {t}
          /\ original' = previous[w]
          /\ own' = {writes}
          /\ kept' = live \ {writes}
       \/ /\ timer # Nil
          /\ armed' = armed \cup {timer}
          /\ own' = own \cup {writes}
          /\ UNCHANGED <<timer, original, kept>>
    /\ written' = root[w]
    /\ Return(w)
    /\ lock' = Free
    /\ UNCHANGED <<writes, callbackVars, faults, live, cown, ckept,
                   disk, loaded, unseen, flakes>>
-----------------------------------------------------------------------------
\* A timer expires and starts a goroutine.
TimerFire(t, c) ==
    /\ t \in armed
    /\ cpc[c] = "none"
    /\ armed' = armed \ {t}
    /\ cpc' = [cpc EXCEPT ![c] = "start"]
    /\ UNCHANGED <<timer, original, written, corig, cwrit, writerVars, faults,
                   historyVars, fileVars>>

\* The goroutine ends.
Finish(c) ==
    /\ cpc' = [cpc EXCEPT ![c] = "none"]
    /\ corig' = [corig EXCEPT ![c] = Nil]
    /\ cwrit' = [cwrit EXCEPT ![c] = Nil]
    /\ cown' = [cown EXCEPT ![c] = {}]
    /\ ckept' = [ckept EXCEPT ![c] = {}]

\* Mutant of TakeWindow: debounceTimer is not cleared.
TakeWindowKeepsTimer(c) ==
    /\ cpc[c] = "start"
    /\ original' = Nil
    /\ written' = Nil
    /\ \/ /\ original = Nil
          /\ Finish(c)
       \/ /\ original # Nil
          /\ cpc' = [cpc EXCEPT ![c] = "reload"]
          /\ corig' = [corig EXCEPT ![c] = original]
          /\ cwrit' = [cwrit EXCEPT ![c] = written]
          /\ cown' = [cown EXCEPT ![c] = own]
          /\ ckept' = [ckept EXCEPT ![c] = kept]
    /\ own' = {}
    /\ kept' = {}
    /\ UNCHANGED <<timer, live, armed, writerVars, faults, fileVars>>

\* performDebouncedReload, debounceMu section: take the window and close it.
TakeWindow(c) ==
    /\ cpc[c] = "start"
    /\ timer' = Nil
    /\ original' = Nil
    /\ written' = Nil
    /\ \/ /\ original = Nil
          /\ Finish(c)
       \/ /\ original # Nil
          /\ cpc' = [cpc EXCEPT ![c] = "reload"]
          /\ corig' = [corig EXCEPT ![c] = original]
          /\ cwrit' = [cwrit EXCEPT ![c] = written]
          /\ cown' = [cown EXCEPT ![c] = own]
          /\ ckept' = [ckept EXCEPT ![c] = kept]
    /\ own' = {}
    /\ kept' = {}
    /\ UNCHANGED <<live, armed, writerVars, faults, fileVars>>

\* Mutant of FirstReload: a goroutine waits until no other has a reload to do.
FirstReloadAlone(c) ==
    /\ cpc[c] = "reload"
    /\ \A b \in Callbacks \ {c} : cpc[b] \in {"none", "start"}
    /\ \/ /\ Reload(TRUE)
          /\ Finish(c)
       \/ /\ Reload(FALSE)
          /\ cpc' = [cpc EXCEPT ![c] = "rollback"]
          /\ UNCHANGED <<corig, cwrit, cown, ckept>>
    /\ UNCHANGED <<writerVars, windowVars, faults, live, own, kept>>

\* The first doReload of the window.
FirstReload(c) ==
    /\ cpc[c] = "reload"
    /\ \/ /\ Reload(TRUE)
          /\ Finish(c)
       \/ /\ Reload(FALSE)
          /\ cpc' = [cpc EXCEPT ![c] = "rollback"]
          /\ UNCHANGED <<corig, cwrit, cown, ckept>>
    /\ UNCHANGED <<writerVars, windowVars, faults, live, own, kept>>

\* Mutant of NeedRollback: the comparison with debounceWritten is missing.
NeedRollbackAlways(c) == disk # corig[c]

\* needRollback: the file still holds this window's bytes.
NeedRollback(c) == disk = cwrit[c] /\ disk # corig[c]

\* Mutant of RollbackCheck: the old bytes are put back at once, without cfglock.
RollbackUnlocked(c) ==
    /\ cpc[c] = "rollback"
    /\ \/ /\ NeedRollback(c)
          /\ disk' = corig[c]
          /\ live' = ckept[c]
          /\ unseen' = TRUE
       \/ /\ ~NeedRollback(c)
          /\ UNCHANGED <<disk, live, unseen>>
    /\ cpc' = [cpc EXCEPT ![c] = "retry"]
    /\ UNCHANGED <<corig, cwrit, writerVars, windowVars, faults, own, kept, cown,
                   ckept, lock, loaded, flakes>>

\* lock.Lock(), the read and the comparison; without a rollback, or when the read
\* fails, the mutex is released.
RollbackCheck(c) ==
    /\ cpc[c] = "rollback"
    /\ lock = Free
    /\ \/ /\ NeedRollback(c)
          /\ cpc' = [cpc EXCEPT ![c] = "restore"]
          /\ lock' = c
          /\ UNCHANGED faults
       \/ /\ (~NeedRollback(c) /\ UNCHANGED faults) \/ Fault
          /\ cpc' = [cpc EXCEPT ![c] = "retry"]
          /\ UNCHANGED lock
    /\ UNCHANGED <<corig, cwrit, writerVars, windowVars, historyVars,
                   disk, loaded, unseen, flakes>>

\* The pre-window bytes are written back.
Restore(c) ==
    /\ cpc[c] = "restore"
    /\ disk' = corig[c]
    /\ live' = ckept[c]
    /\ unseen' = TRUE
    /\ lock' = Free
    /\ cpc' = [cpc EXCEPT ![c] = "retry"]
    /\ UNCHANGED <<corig, cwrit, writerVars, windowVars, faults, own, kept,
                   cown, ckept, loaded, flakes>>

\* The rollback write fails: unlock and return, without a second reload.
RestoreFails(c) ==
    /\ cpc[c] = "restore"
    /\ Fault
    /\ lock' = Free
    /\ Finish(c)
    /\ UNCHANGED <<writerVars, windowVars, live, own, kept, disk, loaded, unseen, flakes>>

\* The second doReload; its error is dropped.
RetryReload(c) ==
    /\ cpc[c] = "retry"
    /\ \E ok \in BOOLEAN : Reload(ok)
    /\ Finish(c)
    /\ UNCHANGED <<writerVars, windowVars, faults, live, own, kept>>
-----------------------------------------------------------------------------
Request(w) == Refuse(w) \/ Load(w) \/ Save(w) \/ SaveFails(w) \/ Schedule(w)

Goroutine(c) ==
    \/ TakeWindow(c) \/ FirstReload(c) \/ RollbackCheck(c)
    \/ Restore(c) \/ RestoreFails(c) \/ RetryReload(c)

ClientNext ==
    \/ \E w \in Writers : Begin(w) \/ Request(w)
    \/ \E t \in Timers, c \in Callbacks : TimerFire(t, c)
    \/ \E c \in Callbacks : Goroutine(c)

Init == FileInit /\ ClientInit
vars == <<fileVars, clientVars>>
Spec == Init /\ [][ClientNext]_vars

(***************************************************************************)
(* Fairness.  A request that has begun and a goroutine that has started    *)
(* keep running (the Go scheduler runs every runnable goroutine, and no    *)
(* lock is held across an unbounded wait), and an armed timer expires.     *)
(* Nothing makes a client send a request: Begin has no fairness.           *)
(***************************************************************************)
ClientFairness ==
    /\ \A w \in Writers : WF_vars(Request(w))
    /\ \A c \in Callbacks : WF_vars(Goroutine(c))
    /\ \A t \in Timers : WF_vars(\E c \in Callbacks : TimerFire(t, c))

FairSpec == Spec /\ ClientFairness
-----------------------------------------------------------------------------
ClientTypeOK ==
    /\ mu \in Writers \cup {Free}
    /\ wpc \in [Writers -> WriterPC]
    /\ base \in [Writers -> Config \cup {Nil}]
    /\ root \in [Writers -> Config \cup {Nil}]
    /\ previous \in [Writers -> Content \cup {Nil}]
    /\ timer \in Timers \cup {Nil}
    /\ armed \in SUBSET Timers
    /\ original \in Content \cup {Nil}
    /\ written \in Config \cup {Nil}
    /\ cpc \in [Callbacks -> CallbackPC]
    /\ corig \in [Callbacks -> Content \cup {Nil}]
    /\ cwrit \in [Callbacks -> Config \cup {Nil}]
    /\ writes \in Nat
    /\ faults \in Nat
    /\ live \in SUBSET Nat
    /\ own \in SUBSET Nat
    /\ kept \in SUBSET Nat
    /\ cown \in [Callbacks -> SUBSET Nat]
    /\ ckept \in [Callbacks -> SUBSET Nat]

TypeOK == FileTypeOK /\ lock \in Writers \cup Callbacks \cup {Free} /\ ClientTypeOK

\* What a request is about to overwrite is exactly what it loaded and edited:
\* between loadRootConfig and the rename no other writer of the file (another
\* request, a rollback) changes it, so no update is lost.
NoLostUpdate == \A w \in Writers : wpc[w] = "loaded" => disk = base[w]

\* The documents a rollback may still bring back.
Held ==
    ({original} \cup {previous[w] : w \in Writers} \cup {corig[c] : c \in Callbacks}) \ {Nil}

Store == INSTANCE ConfigStore WITH doc <- disk, snapshots <- Held

\* The client implements the store its callers rely on: whatever requests, windows
\* and rollbacks do together, the file only ever changes by one edit of the very
\* document it holds, or back to a document it has held.
ImplementsStore == Store!StoreSpec

\* Somebody is still going to try a reload: a request that saved and is about
\* to schedule, an open window with its timer running or its goroutine started,
\* or a goroutine on its way to doReload.
ReloadIsDue ==
    \/ \E w \in Writers : wpc[w] = "saved"
    \/ /\ original # Nil
       /\ \/ timer \in armed
          \/ \E c \in Callbacks : cpc[c] = "start"
    \/ \E c \in Callbacks : cpc[c] \in {"reload", "retry"}

\* A write of the client (or of its rollback) that sing-box has not been asked
\* to read is never forgotten: the debounce window, its timer and its goroutines
\* still owe it a reload, whatever Reset and expiry race.
NoForgottenReload == unseen => ReloadIsDue

\* A rollback takes away only the writes of its own window: performDebounced-
\* Reload restores nothing when somebody wrote after the window was taken ("a
\* concurrent writer must never have its newer config clobbered by the rollback").
RollbackSparesNewerWrites ==
    \A c \in Callbacks : cpc[c] = "restore" => live \ ckept[c] \subseteq cown[c]

Quiet ==
    /\ \A w \in Writers : wpc[w] \in {"idle", "locked"}
    /\ \A c \in Callbacks : cpc[c] = "none"
    /\ armed = {}

\* When the client has nothing left to do, sing-box runs the document on disk,
\* provided it accepts it and no reload failed for a reason of its own.
RunsWhatIsOnDisk == Quiet /\ flakes = 0 /\ disk \in Runnable => loaded = disk

\* Every client write is eventually followed by a reload.
EventuallyReloaded == unseen ~> ~unseen

\* Every request is answered, and neither its path nor a goroutine's, errors
\* included, keeps c.mu or the mutex of the file for ever.
RequestsAnswered ==
    /\ \A w \in Writers : (wpc[w] # "idle" \/ mu = w) ~> (wpc[w] = "idle" /\ mu # w)
    /\ lock # Free ~> lock = Free
=============================================================================
