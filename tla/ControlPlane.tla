---------------------------- MODULE ControlPlane ----------------------------
(***************************************************************************)
(* The agent's calls to the control plane: the background tasks of         *)
(* internal/server/lifecycle.go over the client of internal/client         *)
(* (fastify.go, retry.go).                                                 *)
(*                                                                         *)
(* Three goroutines: "initial" pulls the desired state once, "drift" pulls *)
(* it at every tick, "heartbeat" sends a heartbeat at every tick.  A pull  *)
(* is FetchConfig, Reconcile and Apply (one step here; SyncEngine has the  *)
(* detail) and ReportStatus.  Every call goes through Retry.  A request or *)
(* its answer may be lost.                                                 *)
(***************************************************************************)
EXTENDS Integers, FiniteSets

CONSTANTS
    MaxRetries, BaseDelay, MaxDelay,  \* RetryConfig as configured
    MaxVersion,                       \* bound on the versions published
    MaxFaults,                        \* bound on lost, refused and failing calls
    Nothing                           \* a local variable not set

ASSUME ControlPlaneAssumption ==
    /\ {MaxRetries, BaseDelay, MaxDelay} \subseteq Int
    /\ MaxVersion \in Nat \ {0}
    /\ MaxFaults \in Nat
    /\ Nothing \notin Int

VARIABLES
    pc,         \* select, send, wait, apply, done
    call,       \* the call under way: config, status, heartbeat
    attempt,    \* Retry's loop variable
    desired,    \* the version fetched; 0 is the zero Config
    cancelled,  \* the tasks' context
    current,    \* the version the engine has applied
    published,  \* control plane: the newest version
    heard,      \* control plane: the versions reported as synced
    faults,
    slept,      \* history: what Retry has waited in this call
    applied,    \* history: all versions ever applied
    empties     \* history: an answer without data was sent

taskVars == <<pc, call, attempt, desired, slept>>
planeVars == <<published, heard>>
vars == <<taskVars, planeVars, cancelled, current, applied, empties, faults>>

Task == {"initial", "drift", "heartbeat"}
Loop == {"drift", "heartbeat"}

\* withDefaults; the defaults are 3 retries, 1 s and 30 s.
withDefaults ==
    [MaxRetries |-> IF MaxRetries <= 0 THEN 3 ELSE MaxRetries,
     BaseDelay |-> IF BaseDelay <= 0 THEN 1 ELSE BaseDelay,
     MaxDelay |-> IF MaxDelay <= 0 THEN 30 ELSE MaxDelay]

\* Mutant of backoff: the doubled delay is capped one round late.
backoffLate(n) ==
    LET cfg == withDefaults
        delay[i \in 0..n] ==
          IF i = 0 THEN cfg.BaseDelay
          ELSE IF delay[i - 1] >= cfg.MaxDelay THEN cfg.MaxDelay ELSE 2 * delay[i - 1]
    IN  delay[n]

\* backoff: doubled n times, and no longer once MaxDelay is reached.
backoff(n) ==
    LET cfg == withDefaults
        capped(d) == IF d >= cfg.MaxDelay THEN cfg.MaxDelay ELSE d
        delay[i \in 0..n] == IF i = 0 THEN cfg.BaseDelay ELSE capped(2 * delay[i - 1])
    IN  capped(delay[n])
-----------------------------------------------------------------------------
\* Lifecycle.Start has started the goroutines; the engine has applied nothing.
Init ==
    /\ pc = [t \in Task |-> IF t \in Loop THEN "select" ELSE "send"]
    /\ call = [t \in Task |-> IF t = "heartbeat" THEN "heartbeat" ELSE "config"]
    /\ attempt = [t \in Task |-> 0]
    /\ desired = [t \in Task |-> Nothing]
    /\ cancelled = FALSE
    /\ current = Nothing
    /\ published = 1
    /\ heard = {}
    /\ faults = 0
    /\ slept = [t \in Task |-> 0]
    /\ applied = {}
    /\ empties = FALSE

\* The control plane has a newer desired state (external).
Publish ==
    /\ published < MaxVersion
    /\ published' = published + 1
    /\ UNCHANGED <<taskVars, heard, cancelled, current, applied, empties, faults>>

Fault ==
    /\ faults < MaxFaults
    /\ faults' = faults + 1

\* Lifecycle.Stop, or the signal that ends Start.
Stop ==
    /\ ~cancelled
    /\ cancelled' = TRUE
    /\ UNCHANGED <<taskVars, planeVars, current, applied, empties, faults>>

\* A ticker case of the loops; Go may choose it although the context is done.
Tick(t) ==
    /\ pc[t] = "select"
    /\ pc' = [pc EXCEPT ![t] = "send"]
    /\ UNCHANGED <<call, attempt, desired, slept, planeVars, cancelled, current,
                   applied, empties, faults>>

\* Mutant of LoopEnds: the heartbeat loop has no case for the context.
LoopEndsDrift(t) ==
    /\ t = "drift"
    /\ pc[t] = "select"
    /\ cancelled
    /\ pc' = [pc EXCEPT ![t] = "done"]
    /\ UNCHANGED <<call, attempt, desired, slept, planeVars, cancelled, current,
                   applied, empties, faults>>

\* The ctx.Done case of the loops.
LoopEnds(t) ==
    /\ pc[t] = "select"
    /\ cancelled
    /\ pc' = [pc EXCEPT ![t] = "done"]
    /\ UNCHANGED <<call, attempt, desired, slept, planeVars, cancelled, current,
                   applied, empties, faults>>

\* The task's function returns.
TaskReturns(t) ==
    /\ pc' = [pc EXCEPT ![t] = IF t \in Loop THEN "select" ELSE "done"]
    /\ call' = [call EXCEPT ![t] = IF t = "heartbeat" THEN "heartbeat" ELSE "config"]
    /\ attempt' = [attempt EXCEPT ![t] = 0]
    /\ slept' = [slept EXCEPT ![t] = 0]
    /\ desired' = [desired EXCEPT ![t] = Nothing]

\* Mutant of TaskFails: an error ends the loop.
TaskFailsForGood(t) ==
    /\ pc' = [pc EXCEPT ![t] = "done"]
    /\ UNCHANGED <<call, attempt, desired, slept>>

\* A call or the apply of a task fails: the error is only logged.
TaskFails(t) == TaskReturns(t)
-----------------------------------------------------------------------------
(* One attempt of doJSON.  Only a status report changes anything at the    *)
(* control plane.                                                          *)

\* The control plane receives the request of a task (external).
Receive(t) == heard' = IF call[t] = "status" THEN heard \cup {desired[t]} ELSE heard

\* The operation fails retryably: Retry gives up or waits.
AttemptFails(t) ==
    IF attempt[t] >= withDefaults.MaxRetries
    THEN TaskFails(t)
    ELSE /\ pc' = [pc EXCEPT ![t] = "wait"]
         /\ UNCHANGED <<call, attempt, desired, slept>>

\* No answer, or a 5xx: the request was lost, or received all the same.
SendFails(t) ==
    /\ pc[t] = "send"
    /\ ~cancelled
    /\ Fault
    /\ Receive(t) \/ UNCHANGED heard
    /\ AttemptFails(t)
    /\ UNCHANGED <<published, cancelled, current, applied, empties>>

\* With a cancelled context nothing is sent.
SendCancelled(t) ==
    /\ pc[t] = "send"
    /\ cancelled
    /\ AttemptFails(t)
    /\ UNCHANGED <<planeVars, cancelled, current, applied, empties, faults>>

\* Mutant of SendRefused: the error of FetchConfig is dropped.
SendRefusedUnchecked(t) ==
    /\ pc[t] = "send"
    /\ ~cancelled
    /\ Fault
    /\ IF call[t] = "config"
       THEN /\ desired' = [desired EXCEPT ![t] = 0]
            /\ pc' = [pc EXCEPT ![t] = "apply"]
            /\ UNCHANGED <<call, attempt, slept>>
       ELSE TaskReturns(t)
    /\ UNCHANGED <<planeVars, cancelled, current, applied, empties>>

\* An answer below 500 ends Retry; one that is not 2xx, or whose envelope has no
\* success, is an error of the call.
SendRefused(t) ==
    /\ pc[t] = "send"
    /\ ~cancelled
    /\ Fault
    /\ TaskFails(t)
    /\ UNCHANGED <<planeVars, cancelled, current, applied, empties>>

\* The call succeeds.  An envelope without data leaves the zero Config.
SendAnswered(t) ==
    /\ pc[t] = "send"
    /\ ~cancelled
    /\ Receive(t)
    /\ \/ /\ call[t] = "config"
          /\ \/ desired' = [desired EXCEPT ![t] = published] /\ UNCHANGED <<faults, empties>>
             \/ desired' = [desired EXCEPT ![t] = 0] /\ Fault /\ empties' = TRUE
          /\ pc' = [pc EXCEPT ![t] = "apply"]
          /\ UNCHANGED <<call, attempt, slept>>
       \/ /\ call[t] # "config"
          /\ TaskReturns(t)
          /\ UNCHANGED <<faults, empties>>
    /\ UNCHANGED <<published, cancelled, current, applied>>

\* Retry's select: the timer, or the context.
Wait(t) ==
    /\ pc[t] = "wait"
    /\ \/ /\ pc' = [pc EXCEPT ![t] = "send"]
          /\ attempt' = [attempt EXCEPT ![t] = @ + 1]
          /\ slept' = [slept EXCEPT ![t] = @ + backoff(attempt[t])]
          /\ UNCHANGED <<call, desired>>
       \/ /\ cancelled
          /\ TaskFails(t)
    /\ UNCHANGED <<planeVars, cancelled, current, applied, empties, faults>>

\* Mutant of ApplyFails: the return after the error is missing.
ApplyFailsReports(t) ==
    /\ pc[t] = "apply"
    /\ Fault
    /\ pc' = [pc EXCEPT ![t] = "send"]
    /\ call' = [call EXCEPT ![t] = "status"]
    /\ attempt' = [attempt EXCEPT ![t] = 0]
    /\ slept' = [slept EXCEPT ![t] = 0]
    /\ UNCHANGED <<desired, planeVars, cancelled, current, applied, empties>>

\* Reconcile or Apply fails: nothing is reported.
ApplyFails(t) ==
    /\ pc[t] = "apply"
    /\ (cancelled /\ UNCHANGED faults) \/ Fault
    /\ TaskFails(t)
    /\ UNCHANGED <<planeVars, cancelled, current, applied, empties>>

\* The fetched desired state is applied, and reported.
Apply(t) ==
    /\ pc[t] = "apply"
    /\ current' = desired[t]
    /\ applied' = applied \cup {desired[t]}
    /\ pc' = [pc EXCEPT ![t] = "send"]
    /\ call' = [call EXCEPT ![t] = "status"]
    /\ attempt' = [attempt EXCEPT ![t] = 0]
    /\ slept' = [slept EXCEPT ![t] = 0]
    /\ UNCHANGED <<desired, planeVars, cancelled, empties, faults>>
-----------------------------------------------------------------------------
Run(t) ==
    \/ SendFails(t) \/ SendCancelled(t) \/ SendRefused(t) \/ SendAnswered(t)
    \/ Wait(t) \/ ApplyFails(t) \/ Apply(t)

Next ==
    \/ Publish \/ Stop
    \/ \E t \in Loop : Tick(t) \/ LoopEnds(t)
    \/ \E t \in Task : Run(t)

Spec == Init /\ [][Next]_vars

(***************************************************************************)
(* Fairness.  A goroutine keeps running: every attempt ends, by its answer *)
(* or the HTTP client's timeout, and every timer expires.  Tickers tick.   *)
(* A loop that comes back to its select again and again with a cancelled   *)
(* context takes that case in the end: no tick is ready when it arrives,   *)
(* and Go chooses at random when one is.                                   *)
(***************************************************************************)
Fairness ==
    /\ WF_vars(Run("initial"))
    /\ \A t \in Loop : WF_vars(Run(t) \/ Tick(t)) /\ SF_vars(LoopEnds(t))

FairSpec == Spec /\ Fairness
-----------------------------------------------------------------------------
\* Whatever was lost or sent twice, a version the control plane has
\* been told is synced was applied by the agent.
ReportsAreTrue == heard \subseteq applied

\* A fetch that failed, was refused or was cancelled is never applied as the empty
\* desired state it left behind; only an answer without data is.
OnlyPublishedIsApplied ==
    applied \subseteq 1..published \cup (IF empties THEN {0} ELSE {})

\* Before its n-th retry a call has waited the doubled delays, each no longer than
\* MaxDelay, and it makes no more than MaxRetries of them.
WaitsDouble ==
    LET cfg == withDefaults
        double[i \in 0..cfg.MaxRetries] == IF i = 0 THEN cfg.BaseDelay ELSE 2 * double[i - 1]
        delay(i) == IF double[i] < cfg.MaxDelay THEN double[i] ELSE cfg.MaxDelay
        sum[n \in 0..cfg.MaxRetries] == IF n = 0 THEN 0 ELSE sum[n - 1] + delay(n - 1)
    IN  \A t \in Task : attempt[t] <= cfg.MaxRetries /\ slept[t] = sum[attempt[t]]

\* The agent catches up: as long as it is not stopped, drift checks repair lost
\* fetches, failed applies and lost reports, also those of the initial pull that
\* applies an old version late.
EventuallyCaughtUp == <>[](cancelled \/ (current = published /\ published \in heard))

\* After Stop every background task ends, also from the middle of a retry, and
\* none comes back.
StopEndsTasks == <>[](cancelled => \A t \in Task : pc[t] = "done")
=============================================================================
