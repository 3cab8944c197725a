---------------------------- MODULE JobLifecycle ----------------------------
(***************************************************************************)
(* What the durable reproduction backend promises about one reproduction,  *)
(* with leases, retries, versions, the outbox and quotas hidden: a job is  *)
(* created once, stays active through any number of attempts, and then     *)
(* reaches exactly one end, for ever.  A cancellation request is never     *)
(* withdrawn, and a job that carries one can only end CANCELLED.  The      *)
(* case's verdict is written in the step that ends the job and in no       *)
(* other.                                                                  *)
(***************************************************************************)
EXTENDS Naturals

CONSTANTS
    Jobs,       \* identities of the reproductions that may be started
    Verdicts    \* case states a finished execution may report

VARIABLES
    status,     \* status[j]: "ABSENT", "ACTIVE" or the end the job reached
    cancelling, \* cancelling[j]: a cancellation request was recorded
    verdict     \* verdict[j]: the state of the job's case

lifecycleVars == <<status, cancelling, verdict>>

Ends == {"SUCCEEDED", "FAILED", "CANCELLED"}

LifecycleTypeOK ==
    /\ status \in [Jobs -> {"ABSENT", "ACTIVE"} \cup Ends]
    /\ cancelling \in [Jobs -> BOOLEAN]
    /\ verdict \in [Jobs -> {"ABSENT", "DRAFT", "CANCELLED"} \cup Verdicts]

LifecycleInit ==
    /\ status = [j \in Jobs |-> "ABSENT"]
    /\ cancelling = [j \in Jobs |-> FALSE]
    /\ verdict = [j \in Jobs |-> "ABSENT"]

Same(j) ==
    /\ status'[j] = status[j]
    /\ cancelling'[j] = cancelling[j]
    /\ verdict'[j] = verdict[j]

Create(j) ==
    /\ status[j] = "ABSENT"
    /\ status'[j] = "ACTIVE"
    /\ cancelling'[j] = FALSE
    /\ verdict'[j] = "DRAFT"

AskToCancel(j) ==
    /\ status[j] = "ACTIVE"
    /\ status'[j] = "ACTIVE"
    /\ cancelling'[j] = TRUE
    /\ verdict'[j] = verdict[j]

Succeed(j) ==
    /\ status[j] = "ACTIVE"
    /\ ~cancelling[j]
    /\ status'[j] = "SUCCEEDED"
    /\ cancelling'[j] = FALSE
    /\ verdict'[j] \in Verdicts

Fail(j) ==
    /\ status[j] = "ACTIVE"
    /\ ~cancelling[j]
    /\ status'[j] = "FAILED"
    /\ cancelling'[j] = FALSE
    /\ verdict'[j] = verdict[j]

Cancel(j) ==
    /\ status[j] = "ACTIVE"
    /\ status'[j] = "CANCELLED"
    /\ cancelling'[j] = TRUE
    /\ verdict'[j] = "CANCELLED"

JobStep(j) ==
    Same(j) \/ Create(j) \/ AskToCancel(j) \/ Succeed(j) \/ Fail(j) \/ Cancel(j)

\* Suspending a tenant cancels all of its jobs in one transaction, so one step
\* may move several jobs, each along its own lifecycle.
LifecycleNext ==
    /\ LifecycleTypeOK'
    /\ \A j \in Jobs : JobStep(j)

LifecycleSpec == LifecycleInit /\ [][LifecycleNext]_lifecycleVars
=============================================================================
