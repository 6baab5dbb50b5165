---------------------------- MODULE ActionExecutor ----------------------------
(***************************************************************************)
(* ActionExecutor::execute_plan of pt-core/src/action/executor.rs with the  *)
(* live identity provider and the signal runner: the path the interactive   *)
(* run takes once the user has confirmed.  The plan was made earlier, for   *)
(* the first occupant of each pid; the machine has gone on since.           *)
(***************************************************************************)
EXTENDS SignalRunner, Sequences

CONSTANT Plans  \* the plans that may be handed to the executor

(* An action of a plan: the call it leads to, whether the plan blocked it,   *)
(* and whether its pre-checks include VerifyProcessState (kills of processes *)
(* that were in uninterruptible sleep when the plan was made).  Every action *)
(* of generate_plan has VerifyIdentity among its pre-checks.                 *)
PlanActions == [call: Calls, blocked: BOOLEAN, checkState: BOOLEAN]

ASSUME PlansAssumption == \A p \in Plans : p \in Seq(PlanActions)

VARIABLES
  plan,      \* the plan under execution
  idx,       \* the action under execution
  epc,       \* where in execute_plan / execute_action the executor is
  outcomes   \* the statuses recorded so far

execVars == <<plan, idx, epc, outcomes>>
allVars == <<clock, proc, me, call, rpc, waited, result, seen, hits,
             plan, idx, epc, outcomes>>

ExecPCs == {"lock", "next", "start_id", "uid", "prechecks", "run", "done", "refused"}
Statuses == (Results \ {"none"}) \cup {"skipped", "precheck_blocked"}

action == plan[idx]

----------------------------------------------------------------------------
(* ActionLock::acquire: another executor of the session may hold the lock.   *)

Acquire ==
  /\ epc = "lock"
  /\ epc' \in {"next", "refused"}
  /\ UNCHANGED <<plan, idx, outcomes>> /\ UNCHANGED tableVars /\ UNCHANGED runnerVars

\* The status of the current action is recorded and the loop goes on.
Record(status) ==
  /\ outcomes' = Append(outcomes, status)
  /\ idx' = idx + 1
  /\ epc' = "next"
  /\ UNCHANGED plan

PlanDone ==
  /\ epc = "next" /\ idx > Len(plan)
  /\ epc' = "done"
  /\ UNCHANGED <<plan, idx, outcomes>> /\ UNCHANGED tableVars /\ UNCHANGED runnerVars

StartAction ==
  /\ epc = "next" /\ idx <= Len(plan)
  /\ \/ /\ action.blocked
        /\ Record("skipped")
        /\ UNCHANGED call
     \/ /\ ~action.blocked
        /\ epc' = "start_id" /\ call' = action.call
        /\ UNCHANGED <<plan, idx, outcomes>>
  /\ UNCHANGED tableVars /\ UNCHANGED <<me, rpc, waited, result, seen, hits>>

\* Slip: a start time that cannot be confirmed is read again.
CheckStartIdAgain ==
  /\ epc = "start_id"
  /\ Exists(call.pid) /\ IdsMatch(call.start, target.start)
  /\ epc' = "uid" /\ seen' = target.inc
  /\ UNCHANGED <<plan, idx, outcomes>>
  /\ UNCHANGED tableVars /\ UNCHANGED <<me, call, rpc, waited, result, hits>>

(* LiveIdentityProvider::revalidate: the start time, then the uid, from two  *)
(* files of /proc.  The runner's own revalidation that follows is the        *)
(* default of ActionRunner, which accepts: CompositeActionRunner does not    *)
(* override it.                                                              *)
CheckStartId ==
  /\ epc = "start_id"
  /\ \/ /\ Exists(call.pid) /\ IdsMatch(call.start, target.start)
        /\ epc' = "uid" /\ seen' = target.inc
        /\ UNCHANGED <<plan, idx, outcomes>>
     \/ /\ ~(Exists(call.pid) /\ IdsMatch(call.start, target.start))
        /\ Record("mismatch")
        /\ UNCHANGED seen
  /\ UNCHANGED tableVars /\ UNCHANGED <<me, call, rpc, waited, result, hits>>

\* Slip: the uid is not compared.
CheckUidDropped ==
  /\ epc = "uid"
  /\ epc' = "prechecks"
  /\ UNCHANGED <<plan, idx, outcomes>>
  /\ UNCHANGED tableVars /\ UNCHANGED runnerVars

CheckUid ==
  /\ epc = "uid"
  /\ \/ /\ Exists(call.pid) /\ target.uid = call.uid
        /\ epc' = "prechecks"
        /\ UNCHANGED <<plan, idx, outcomes>>
     \/ /\ ~(Exists(call.pid) /\ target.uid = call.uid)
        /\ Record("mismatch")
  /\ UNCHANGED tableVars /\ UNCHANGED runnerVars

(* run_checks: any gate may block (protection, data loss, supervision,       *)
(* session safety); check_process_state blocks a kill of a zombie or of a    *)
(* process in uninterruptible sleep.                                         *)
RunPreChecks ==
  /\ epc = "prechecks"
  /\ \/ /\ Record("precheck_blocked")
        /\ UNCHANGED <<rpc, waited, result, hits>>
     \/ /\ action.checkState => target.st \notin {"zombie", "disk"}
        /\ epc' = "run"
        /\ rpc' = "exec" /\ waited' = 0 /\ result' = "none" /\ hits' = {}
        /\ UNCHANGED <<plan, idx, outcomes>>
  /\ UNCHANGED tableVars /\ UNCHANGED <<me, call, seen>>

\* runner.execute(action), then runner.verify(action): steps of SignalRunner.
RunAction == epc = "run" /\ RunnerStep /\ UNCHANGED execVars

\* Slip: the result of execute is recorded without a call of verify.
FinishUnverified ==
  /\ epc = "run"
  /\ rpc \in {"executed", "verified"}
  /\ Record(result)
  /\ UNCHANGED tableVars /\ UNCHANGED runnerVars

\* status_from_error, or Success.
FinishAction ==
  /\ epc = "run"
  /\ rpc = "verified" \/ (rpc = "executed" /\ result # "ok")
  /\ Record(result)
  /\ UNCHANGED tableVars /\ UNCHANGED runnerVars

ExecutorStep ==
  \/ Acquire \/ StartAction \/ CheckStartId \/ CheckUid \/ RunPreChecks
  \/ RunAction \/ FinishAction \/ PlanDone

----------------------------------------------------------------------------
ExecInit ==
  /\ TableInit
  /\ me \in Uids
  /\ plan \in Plans
  /\ \A i \in DOMAIN plan : /\ plan[i].call.inc = 1
                            /\ plan[i].call.uid = proc[plan[i].call.pid].uid
  /\ call \in Calls /\ call.inc = 1 /\ call.start = 0
  /\ \E i \in DOMAIN plan : call = plan[i].call
  /\ idx = 1 /\ epc = "lock" /\ outcomes = <<>>
  /\ rpc = "exec" /\ waited = 0 /\ result = "none" /\ seen = 1 /\ hits = {}

ExecNext ==
  \/ ExecutorStep
  \/ TableNext /\ UNCHANGED runnerVars /\ UNCHANGED execVars

ExecSpec == ExecInit /\ [][ExecNext]_allVars

\* The executor's thread is scheduled.
FairExecSpec == ExecSpec /\ WF_allVars(ExecutorStep)

----------------------------------------------------------------------------
(* Type invariant. *)
ExecTypeOK ==
  /\ TypeOK
  /\ plan \in Plans /\ idx \in 1..(Len(plan) + 1) /\ epc \in ExecPCs
  /\ outcomes \in Seq(Statuses) /\ Len(outcomes) = idx - 1

(* A signal reaches only the process the action was planned for, one with    *)
(* its uid and a start time within the tolerance, or one that took the pid   *)
(* after its start time was last read (the VerifyIdentity pre-check and the  *)
(* re-validation of execute_kill).  The uid is compared by the pre-check     *)
(* only, not again before SIGKILL.                                           *)
SignalsOnlyCheckedOrNewer ==
  epc = "run" =>
    \A h \in hits :
      \/ h.inc = call.inc
      \/ h.inc > h.seen
      \/ IdsMatch(call.start, h.start) /\ (h.sig # "KILL" => h.uid = call.uid)

(* A kill reported as success is a fact about the planned process, and stays *)
(* one while the executor works on later actions.                            *)
SuccessMeansDead ==
  \A i \in DOMAIN outcomes :
    LET c == plan[i].call
    IN  c.kind = "Kill" /\ outcomes[i] = "ok" =>
          proc[c.pid].inc > c.inc \/ Exited(c.pid)

(* The plan is executed to its end or refused: no target can hold up the     *)
(* executor.                                                                 *)
PlanCompletes == <>(epc \in {"done", "refused"})
=============================================================================
