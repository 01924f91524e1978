----------------------------- MODULE SyncPlans ------------------------------
(***************************************************************************)
(* SyncEngine over the documents and plans of ConfigData: whom the file    *)
(* serves while desired states are carried into it.                        *)
(***************************************************************************)
EXTENDS SyncEngine, ConfigData

CONSTANT Refused  \* attributes of an inbound that sing-box does not start with

\* sing-box starts with a document whose inbounds it accepts (external).
AttrsAccepted(doc) == \A i \in DOMAIN doc.inbounds : doc.inbounds[i].attr \notin Refused

Idle == \A s \in Syncers : spc[s] = "idle"

\* No two synchronisations overlap.
Serial == \A s, t \in Syncers : spc[s] # "idle" /\ spc[t] # "idle" => s = t

\* The plan deletes no inbound that still has users in a list of its own.
DropsNoUsers(s) ==
    \A k \in DOMAIN plan[s] :
        plan[s][k].kind = "inbound" /\ plan[s][k].type = "delete" =>
            plan[s][k].prev.users \in {Absent, <<>>}

\* The homes of users that occur, in a file the agent may find and in the desired
\* states.
Homes ==
    {Home(u.sub, u.tag) : u \in UNION {ToSet(GetUsers(doc)) : doc \in Installed}} \cup
    {Home(u.sub, u.tag) : u \in UNION {ToSet(Desired[v].users) : v \in 0..MaxVersion}}

\* What the control plane is trusted with, and the state of the file at the start.
Trusted ==
    /\ OneHome(Homes)
    /\ \A doc \in Installed : Tidy(Homes, doc)
    /\ \A v \in 0..MaxVersion : WellFormed(Homes, Desired[v])
-----------------------------------------------------------------------------
\* When the engine reports version v as applied and nothing is under way, the
\* file serves exactly the users and inbounds of that desired state: nobody, when
\* the applied answer had no data.
SyncedServesDesired ==
    Idle /\ status.state = "synced" /\ status.version >= 0 =>
        /\ Served(disk) = Wanted(Desired[status.version])
        /\ Tags(disk) = {m.tag : m \in Desired[status.version].inbounds}

\* The drift check that pulls the applied version again takes nobody out of the
\* file.  Its plan is seldom empty, since inboundsDiffer does not recognise what
\* UpdateInbound wrote, so every check writes the file and reloads sing-box anew;
\* but after each of its steps the file serves what it served before.
DriftCheckKeepsService ==
    Idle /\ status.state = "synced" /\ status.version >= 0 =>
        \A p \in Reconcile(Desired[status.version], disk, disk) :
            \A n \in 1..Len(p) :
                /\ Stages(disk, p)[n] \in Config
                /\ Served(Stages(disk, p)[n]) = Served(disk)
                /\ Tags(Stages(disk, p)[n]) = Tags(disk)

\* A plan has given up, though no read and no write failed.
PlanFailed(s) == spc[s] = "fail" /\ before[s] \in Config /\ ioFaults = 0
AsBefore(s) == Served(disk) = Served(before[s]) /\ Tags(disk) = Tags(before[s])

\* A plan that fails leaves the users and inbounds that were there before it:
\* rollbackExecuted undoes the executed steps ("reconciles atomically with
\* rollback on failure").
FailedApplyRestores == \A s \in Syncers : PlanFailed(s) => AsBefore(s)

\* That is so unless the plan drops an inbound together with its users, whatever
\* else it creates, changes and deletes.
FailedPlanRestores == \A s \in Syncers : PlanFailed(s) /\ DropsNoUsers(s) => AsBefore(s)

\* A synchronisation meets an error only if a read, a write or a reload fails or
\* sing-box refuses the desired state: the steps of a plan find the inbounds and
\* users they are about, in the order buildSteps puts them, wherever the users of
\* an inbound lie.
PlanIsExecutable ==
    \A s \in Syncers :
        spc[s] = "fail" /\ ioFaults = 0 /\ flakes = 0 =>
            \E m \in Desired[version[s]].inbounds : m.attr \in Refused
=============================================================================
