----------------------------- MODULE ConfigFile -----------------------------
(***************************************************************************)
(* The state every other component shares: the sing-box configuration file *)
(* on disk, the process-wide mutex that guards it (internal/cfglock), and  *)
(* the sing-box service that reads the file when it is told to reload      *)
(* (internal/sync/reloader.go, an external process).                       *)
(*                                                                         *)
(* What a configuration says is left to the constants: Config is the set   *)
(* of well-formed documents, Accepts tells the ones sing-box starts with.  *)
(* Torn is a file that was truncated and not yet completely written again. *)
(***************************************************************************)
EXTENDS Naturals

CONSTANTS
    Config,          \* the well-formed documents
    Torn,            \* a truncated or partly written file
    Accepts(_),      \* sing-box starts with this document
    Installed,       \* the documents the agent may find when it starts
    Down,            \* what sing-box runs when it is not running
    Free,            \* nobody holds the mutex
    ReportsFailure,  \* TRUE: systemctl or command reloader; FALSE: signal
    MaxFlakes        \* bound on reloads that fail for a reason of their own

ASSUME ConfigFileAssumption ==
    /\ Torn \notin Config
    /\ Down \notin Config
    /\ \A c \in Installed : c \in Config /\ Accepts(c)
    /\ ReportsFailure \in BOOLEAN
    /\ MaxFlakes \in Nat

VARIABLES
    disk,    \* bytes of the file at configPath
    lock,    \* holder of cfglock.For(configPath)
    loaded,  \* the document sing-box runs
    unseen,  \* history: a ConfigClient write no reload has been tried after
    flakes   \* number of reloads that failed for a reason of their own

fileVars == <<disk, lock, loaded, unseen, flakes>>

Content == Config \cup {Torn}
Runnable == {c \in Config : Accepts(c)}

FileInit ==
    /\ disk \in Installed
    /\ lock = Free
    /\ loaded = disk
    /\ unseen = FALSE
    /\ flakes = 0

\* Mutant of Reload: it reports success and sing-box has not read the file.
ReloadIgnored(ok) ==
    /\ ok
    /\ unseen' = FALSE
    /\ UNCHANGED <<disk, lock, loaded, flakes>>

(***************************************************************************)
(* One call of Reloader.Reload, as seen from the agent: sing-box reads the *)
(* file, without taking the mutex, and the call reports ok or an error.    *)
(*  - a document sing-box accepts is run;                                  *)
(*  - a document it refuses leaves the old instance or no instance; the    *)
(*    systemctl and command reloaders report it, a signal is delivered all *)
(*    the same and reports success;                                        *)
(*  - the call may fail whatever the file says (timeout, systemd refuses,  *)
(*    no PID file).                                                        *)
(* The reading is one step within the call; a signal's may come later.     *)
(***************************************************************************)
Reload(ok) ==
    /\ \/ /\ disk \in Runnable
          /\ ok
          /\ loaded' = disk
          /\ UNCHANGED flakes
       \/ /\ disk \notin Runnable
          /\ ok = ~ReportsFailure
          /\ loaded' \in {loaded, Down}
          /\ UNCHANGED flakes
       \/ /\ ~ok
          /\ flakes < MaxFlakes
          /\ flakes' = flakes + 1
          /\ loaded' \in {loaded, Down}
    /\ unseen' = FALSE
    /\ UNCHANGED <<disk, lock>>

FileTypeOK ==
    /\ disk \in Content
    /\ loaded \in Config \cup {Down}
    /\ unseen \in BOOLEAN
    /\ flakes \in Nat
=============================================================================
