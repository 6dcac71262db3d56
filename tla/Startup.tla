-------------------------------- MODULE Startup --------------------------------
(***************************************************************************)
(* Studio comes up (internal/app/app.go): Run checks the storage, then     *)
(* discovers the identity provider, and only then listens.  Both are the   *)
(* same loop: try for at most AttemptTimeout, sleep, double the sleep,     *)
(* until the next sleep would pass the deadline; then the process exits.   *)
(* Nothing answers /healthz before Run listens, so the startup probe of    *)
(* the Helm chart runs from the start of the process and kills it.         *)
(* Time is counted in ticks; only attempts and sleeps take any.            *)
(***************************************************************************)
EXTENDS Integers

CONSTANTS
    Budget,          \* -storage-timeout and -oidc-discovery-timeout: 2 minutes
    AttemptTimeout,  \* 20 seconds
    FirstBackoff,    \* 1 second
    BackoffCap,      \* 15 seconds: a sleep this long is not doubled
    ProbeBudget      \* failureThreshold * periodSeconds of the startup probe

ASSUME StartupAssumption ==
    /\ Budget \in Nat /\ AttemptTimeout \in Nat /\ ProbeBudget \in Nat
    /\ FirstBackoff \in Nat \ {0} /\ BackoffCap \in Nat
    /\ FirstBackoff <= BackoffCap

VARIABLES
    elapsed,    \* since the process started
    stage,      \* "storage", "oidc", then "listening", "exited" or "killed"
    began,      \* when the loop of this stage began; its deadline is Budget later
    trying,     \* an attempt is under way; otherwise the loop sleeps
    until,      \* when the attempt times out, or the sleep ends
    backoff

startupVars == <<elapsed, stage, began, trying, until, backoff>>

Starting == stage \in {"storage", "oidc"}

StartupInit ==
    /\ elapsed = 0
    /\ stage = "storage"
    /\ began = 0
    /\ trying = TRUE
    /\ until = AttemptTimeout
    /\ backoff = FirstBackoff

(***************************************************************************)
(* The attempt succeeds, and the next loop begins or Studio listens.       *)
(***************************************************************************)
NextLoop == stage = "storage" /\ stage' = "oidc"
LastLoop == stage = "oidc" /\ stage' = "listening"

AttemptSucceeds ==
    /\ Starting /\ trying
    /\ NextLoop \/ LastLoop
    /\ began' = elapsed
    /\ until' = elapsed + AttemptTimeout
    /\ backoff' = FirstBackoff
    /\ UNCHANGED <<elapsed, trying>>

\* time.Now().Add(backoff).After(deadline)
(* SEEDED FAULT: the deadline is looked at after the sleep.                *)
OutOfTimeAfterwards == elapsed > began + Budget

OutOfTime == elapsed + backoff > began + Budget

(***************************************************************************)
(* It fails, by itself or because its context ends: sleep, or give up.     *)
(***************************************************************************)
AttemptFails ==
    /\ Starting /\ trying
    /\ ~OutOfTime
    /\ trying' = FALSE
    /\ until' = elapsed + backoff
    /\ UNCHANGED <<elapsed, stage, began, backoff>>

GiveUp ==
    /\ Starting /\ trying
    /\ OutOfTime
    /\ stage' = "exited"
    /\ UNCHANGED <<elapsed, began, trying, until, backoff>>

Doubled == IF backoff < BackoffCap THEN backoff * 2 ELSE backoff

WakeUp ==
    /\ Starting /\ ~trying
    /\ elapsed = until
    /\ trying' = TRUE
    /\ backoff' = Doubled
    /\ until' = elapsed + AttemptTimeout
    /\ UNCHANGED <<elapsed, stage, began>>

(***************************************************************************)
(* The startup probe has failed too often.                                 *)
(***************************************************************************)
ProbeKills ==
    /\ Starting
    /\ elapsed >= ProbeBudget
    /\ stage' = "killed"
    /\ UNCHANGED <<elapsed, began, trying, until, backoff>>

StartupTick ==
    /\ Starting
    /\ elapsed < until
    /\ elapsed' = elapsed + 1
    /\ UNCHANGED <<stage, began, trying, until, backoff>>

StartupNext ==
    \/ AttemptSucceeds \/ AttemptFails \/ GiveUp \/ WakeUp
    \/ ProbeKills
    \/ StartupTick

StartupSpec == StartupInit /\ [][StartupNext]_startupVars

(***************************************************************************)
(* Properties.                                                             *)
(***************************************************************************)
StartupTypeOK ==
    /\ elapsed \in Nat /\ began \in 0..elapsed /\ until \in Nat
    /\ backoff \in FirstBackoff..(2 * BackoffCap)
    /\ stage \in {"storage", "oidc", "listening", "exited", "killed"}
    /\ trying \in BOOLEAN

(***************************************************************************)
(* A loop ends within its budget and one attempt: no attempt begins after  *)
(* the deadline, however the attempts before it were spread.               *)
(***************************************************************************)
BudgetIsKept ==
    /\ Starting => elapsed <= began + Budget + AttemptTimeout
    /\ Starting /\ trying => until - AttemptTimeout <= began + Budget

(***************************************************************************)
(* Studio does not give up early: it exits only when less than one longest *)
(* sleep, which is shorter than twice the cap, is left of the budget.      *)
(***************************************************************************)
BudgetIsUsed ==
    stage = "exited" => elapsed + 2 * BackoffCap > began + Budget

(***************************************************************************)
(* The chart's probe leaves room for one loop, not for two: it only kills  *)
(* a Studio whose current loop began later than the probe's time less a    *)
(* whole loop.  With 150 seconds of probe and 140 of loop that is one      *)
(* whose storage took 10 seconds or more to be reached; from then on       *)
(* discovery does not have the two minutes its flag promises.              *)
(***************************************************************************)
KilledOnlyAfterSlowStorage ==
    stage = "killed" => began + Budget + AttemptTimeout >= ProbeBudget

(***************************************************************************)
(* Startup takes the time it was given: not more, not much less, and the   *)
(* probe cuts only the second loop short.                                  *)
(***************************************************************************)
StartupIsInTime == BudgetIsKept /\ BudgetIsUsed /\ KilledOnlyAfterSlowStorage
================================================================================
