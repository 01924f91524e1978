------------------------------- MODULE Server -------------------------------
(***************************************************************************)
(* The agent as a process (internal/server/server.go): it ends, by a crash *)
(* or by shutdownServer, and is started again.  What it keeps in memory is *)
(* gone with it: requests and synchronisations under way, the mutexes, the *)
(* debounce window with its timer, the applied version.  The file and      *)
(* sing-box stay as they are; neither shutdownServer, which waits for HTTP *)
(* handlers only, nor Start tells sing-box to read the file.               *)
(***************************************************************************)
EXTENDS Agent

CONSTANT MaxRestarts   \* bound on restarts of the agent

ASSUME ServerAssumption == MaxRestarts \in Nat

VARIABLES
    restarts,  \* restarts so far
    orphan,    \* history: a process ended before sing-box had read what was
               \* written, and sing-box has not read the file since
    spoiled    \* history: a synchronisation gave up and left a file on disk that
               \* sing-box does not run, and sing-box has not read the file since

serverVars == <<agentVars, restarts, orphan, spoiled>>

ServerInit == AgentInit /\ restarts = 0 /\ orphan = FALSE /\ spoiled = FALSE

GaveUp == \E s \in Syncers : spc[s] = "fail" /\ spc'[s] = "idle"

ServerStep ==
    /\ AgentNext
    /\ orphan' = (orphan /\ (unseen' \/ loaded' # disk'))
    /\ spoiled' = ((spoiled \/ GaveUp) /\ loaded' # disk')
    /\ UNCHANGED restarts

\* The process ends, whatever it is doing, and a new one is started.  A file that
\* was being written stays torn and counts as one whose write failed.
Restart ==
    /\ restarts < MaxRestarts
    /\ restarts' = restarts + 1
    /\ orphan' = (unseen \/ loaded # disk)
    /\ lock' = Free
    /\ mu' = Free
    /\ wpc' = [w \in Writers |-> "idle"]
    /\ base' = [w \in Writers |-> Nil]
    /\ root' = [w \in Writers |-> Nil]
    /\ previous' = [w \in Writers |-> Nil]
    /\ timer' = Nil
    /\ armed' = {}
    /\ original' = Nil
    /\ written' = Nil
    /\ cpc' = [c \in Callbacks |-> "none"]
    /\ corig' = [c \in Callbacks |-> Nil]
    /\ cwrit' = [c \in Callbacks |-> Nil]
    /\ own' = {}
    /\ kept' = {}
    /\ cown' = [c \in Callbacks |-> {}]
    /\ ckept' = [c \in Callbacks |-> {}]
    /\ spc' = [s \in Syncers |-> "idle"]
    /\ version' = [s \in Syncers |-> 0]
    /\ seen' = [s \in Syncers |-> None]
    /\ plan' = [s \in Syncers |-> <<>>]
    /\ pos' = [s \in Syncers |-> 0]
    /\ buf' = [s \in Syncers |-> None]
    /\ reloaded' = [s \in Syncers |-> FALSE]
    /\ before' = [s \in Syncers |-> None]
    /\ status' = NewSyncStatus
    /\ ioFaults' = ioFaults + (IF disk = Torn THEN 1 ELSE 0)
    /\ UNCHANGED <<disk, loaded, unseen, flakes, writes, faults, live,
                   plane, syncs, managerWrites, spoiled>>

ServerNext == ServerStep \/ Restart

ServerSpec == ServerInit /\ [][ServerNext]_serverVars
-----------------------------------------------------------------------------
\* A write that sing-box has not been asked to read still has a reload coming, or
\* a process ended within its debounce window; then the first reload of the new
\* process that succeeds brings the write with it.
OnlyARestartForgets == unseen => ReloadIsDue \/ orphan

\* saveConfigMap writes with os.WriteFile, so a process that ends, or a write that
\* fails, between the truncation and the data leaves a damaged file.  Nothing in
\* the agent replaces it: requests, steps of a plan, rollbacks and the next process
\* alike read before they write and give up, so that no edit of an empty document
\* takes the place of what was there, and nobody is served until an operator puts
\* the file right.
DamageIsKept ==
    [][ disk = Torn /\ (\A s \in Syncers : spc[s] \notin {"fill", "refill"}) => disk' = Torn
      ]_serverVars

AgentQuiet == Quiet /\ \A s \in Syncers : spc[s] = "idle"

\* When the agent has nothing left to do sing-box runs the document on disk,
\* provided it accepts it, no reload failed by itself, no restart cost a reload and
\* no synchronisation gave up half-way (rollbackExecuted reloads only after a failed
\* reload): requests and synchronisations that reload in the middle of each other's
\* work end with a reload of the result.
QuietAgentRunsDisk ==
    AgentQuiet /\ flakes = 0 /\ ~orphan /\ ~spoiled /\ disk \in Runnable => loaded = disk
=============================================================================
