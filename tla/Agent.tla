------------------------------- MODULE Agent --------------------------------
(***************************************************************************)
(* The agent's two writers of the configuration file together: the REST    *)
(* client with its debounced reloads (ConfigClient), the desired-state     *)
(* engine (SyncEngine), and the explicit reload and restart requests of    *)
(* internal/singbox/core_service.go.  They share the file, the mutex and   *)
(* sing-box (ConfigFile) and nothing else.                                 *)
(***************************************************************************)
EXTENDS ConfigClient, SyncEngine

ASSUME AgentAssumption == Syncers \cap (Writers \cup Callbacks) = {}

VARIABLE managerWrites  \* history: writes of the ConfigManager so far

agentVars == <<fileVars, clientVars, engineVars, managerWrites>>

AgentInit == FileInit /\ ClientInit /\ EngineInit /\ managerWrites = 0

ClientStep == ClientNext /\ UNCHANGED <<engineVars, managerWrites>>

(***************************************************************************)
(* A completed write of the manager gets a number of its own, above those  *)
(* of the requests.                                                        *)
(***************************************************************************)
ManagerWrote == disk = Torn /\ disk' \in Config

EngineStep ==
    /\ EngineNext
    /\ managerWrites' = managerWrites + (IF ManagerWrote THEN 1 ELSE 0)
    /\ live' = IF ManagerWrote THEN live \cup {MaxWrites + managerWrites'} ELSE live
    /\ UNCHANGED <<writerVars, windowVars, callbackVars, faults, own, kept, cown, ckept>>

\* POST /core/reload and POST /core/restart: no lock, no bookkeeping.
CoreReload ==
    /\ \E ok \in BOOLEAN : Reload(ok)
    /\ UNCHANGED <<clientVars, engineVars, managerWrites>>

AgentNext == ClientStep \/ EngineStep \/ CoreReload

AgentSpec == AgentInit /\ [][AgentNext]_agentVars
=============================================================================
