------------------------------ MODULE AgentApply ------------------------------
(***************************************************************************)
(* "pt agent apply" (run_agent_apply of pt-core/src/main.rs) on one session: *)
(* several invocations, at once and one after the other, with and without   *)
(* --resume and --dry-run, that crash at any point and meet the processes   *)
(* of the plan as they are by then, after exits, pid reuse and reboots.      *)
(*                                                                          *)
(* The plan and outcomes.jsonl are files of the session directory and       *)
(* survive a crash; everything else of an invocation is in memory.  What    *)
(* execute does to a process is taken from KillContract, which SignalRunner *)
(* implements.                                                              *)
(***************************************************************************)
EXTENDS Integers, Sequences, FiniteSets

CONSTANTS
  Agents,        \* processes that run "pt agent apply"
  NoAgent,       \* nobody holds the global lock
  Pids, Uids,
  Plan,          \* the actions of decision/plan.json, in order
  Invocations,   \* the command lines agents may use
  AnyStart,      \* a target given by pid only (--pids)
  MaxKills,      \* robot_mode.max_kills
  MaxTotalBlast, \* --max-total-blast-radius, in units of memory
  Tol,           \* ids_match tolerance
  IOFaults,      \* whether writes into the session directory may fail
  MaxStart,      \* bound: start ticks of processes
  MaxBoot,       \* bound: reboots
  MaxRuns        \* bound: invocations in a behaviour

ASSUME AgentAssumption == NoAgent \notin Agents
ASSUME LimitAssumption ==
  /\ MaxKills \in Nat /\ MaxTotalBlast \in Nat /\ Tol \in Nat
  /\ MaxStart \in Nat /\ MaxBoot \in Nat /\ MaxRuns \in Nat
  /\ IOFaults \in BOOLEAN

Starts == 0..MaxStart
Boots == 0..MaxBoot
ActionKinds == {"Kill", "Pause", "Restart"}

(* "permitted" stands for the constraints that look at one candidate alone:  *)
(* posterior, memory per candidate, signature, category, supervision.        *)
PlanActions ==
  [kind: ActionKinds, pid: Pids, boot: Boots, start: Starts, uid: Uids,
   blocked: BOOLEAN, permitted: BOOLEAN, mem: Nat]

ASSUME PlanAssumption == Plan \in Seq(PlanActions)

(* A command line.  Without --recommended, "targets" are the --pids or       *)
(* --targets arguments: a pid and the start id the caller meant.             *)
Options ==
  [resume: BOOLEAN, dry: BOOLEAN, yes: BOOLEAN, abort: BOOLEAN,
   recommended: BOOLEAN, targets: SUBSET (Pids \X (Starts \cup {AnyStart}))]

ASSUME InvocationAssumption == Invocations \subseteq Options /\ Invocations # {}

Ids == DOMAIN Plan   \* an action_id is its position: plan/mod.rs hashes make them distinct

SessionStates == {"Planned", "Executing", "Completed", "Failed"}
FailureStatuses == {"identity_mismatch", "failed"}
BlockedStatuses == {"blocked_by_plan", "blocked_by_constraints", "precheck_blocked"}
Statuses == FailureStatuses \cup BlockedStatuses \cup {"success", "dry_run"}

Outcomes == [id: Ids, status: Statuses]

Slots == [st: {"alive", "doomed", "gone"}, boot: Boots, start: Starts, uid: Uids]

VARIABLES
  lock,      \* holder of the global lock
  session,   \* state in the session's manifest
  file,      \* action/outcomes.jsonl
  boot,      \* boot id of the machine
  proc,      \* the process table
  pc,        \* where in run_agent_apply each agent is
  opt,       \* its command line
  todo,      \* actions_to_apply that are left, as action ids
  buf,       \* outcomes, in memory until the end of the run
  written,   \* how many of them are written to the file
  kills,     \* ConstraintChecker::kill_count
  blast,     \* ConstraintChecker::accumulated_blast_bytes
  runs,      \* history: invocations started
  acted,     \* history: for each action id, the times execute returned Ok
  struck,    \* history: the processes execute acted on, with the agent's request
  cut        \* history: a run was cut off after it marked the session Executing

diskVars == <<session, file>>
machineVars == <<boot, proc>>
agentVars == <<pc, opt, todo, buf, written, kills, blast>>
historyVars == <<runs, acted, struck, cut>>
vars == <<lock, session, file, boot, proc, pc, opt, todo, buf, written, kills, blast,
          runs, acted, struck, cut>>

PCs == {"idle", "lock", "load", "loop", "exec", "write", "close"}
Running == {"loop", "exec", "write", "close"}  \* the session is marked Executing
Holding == {"load"} \cup Running              \* the global lock is held

----------------------------------------------------------------------------
(* Pure parts of run_agent_apply. *)

\* IdentityProvider::revalidate: start ticks within the tolerance, same uid.
Matches(slot, a) ==
  /\ slot.st # "gone"
  /\ slot.uid = a.uid
  /\ IF slot.start >= a.start THEN slot.start - a.start <= Tol
                              ELSE a.start - slot.start <= Tol

\* The action ids that outcomes.jsonl reports with status "success".
Recorded == {file[i].id : i \in {j \in DOMAIN file : file[j].status = "success"}}

\* --targets pid:start_id keeps the pid and drops the rest.
TargetPids(o) ==
  IF o.recommended \/ (o.resume /\ o.targets = {})
  THEN {Plan[i].pid : i \in {j \in Ids : ~Plan[j].blocked}}
  ELSE {t[1] : t \in o.targets}

\* actions_to_apply.
Selected(o) ==
  {i \in Ids : Plan[i].pid \in TargetPids(o) /\ (o.resume => i \notin Recorded)}

\* The loop goes through them in plan order.
Current(ag) == {i \in todo[ag] : \A j \in todo[ag] : i <= j}

\* Slip: the kill count may reach the limit before it is compared.
AllowedOneMore(a, ag) ==
  /\ a.permitted
  /\ blast[ag] + a.mem <= MaxTotalBlast
  /\ a.kind = "Kill" => kills[ag] <= MaxKills

\* Slip: the constraints on the candidate alone are not consulted.
AllowedCountsOnly(a, ag) ==
  /\ blast[ag] + a.mem <= MaxTotalBlast
  /\ a.kind = "Kill" => kills[ag] < MaxKills

(* ConstraintChecker::check_candidate; is_kill_action guards the kill count. *)
Allowed(a, ag) ==
  /\ a.permitted
  /\ blast[ag] + a.mem <= MaxTotalBlast
  /\ a.kind = "Kill" => kills[ag] < MaxKills

----------------------------------------------------------------------------
(* Steps of an invocation. *)

\* Slip: the lock outlives the invocation.
ReleaseForgotten(ag) == lock' = lock

Release(ag) == lock' = IF lock = ag THEN NoAgent ELSE lock

\* The process exits: its memory and its lock are gone, the disk stays.
Leave(ag) ==
  /\ pc' = [pc EXCEPT ![ag] = "idle"]
  /\ todo' = [todo EXCEPT ![ag] = {}] /\ buf' = [buf EXCEPT ![ag] = <<>>]
  /\ written' = [written EXCEPT ![ag] = 0]
  /\ kills' = [kills EXCEPT ![ag] = 0] /\ blast' = [blast EXCEPT ![ag] = 0]
  /\ Release(ag)
  /\ UNCHANGED opt

Invoke(ag) ==
  /\ pc[ag] = "idle" /\ runs < MaxRuns
  /\ \E o \in Invocations : opt' = [opt EXCEPT ![ag] = o]
  /\ pc' = [pc EXCEPT ![ag] = "lock"]
  /\ runs' = runs + 1
  /\ UNCHANGED <<lock, todo, buf, written, kills, blast, acted, struck, cut>>
  /\ UNCHANGED diskVars /\ UNCHANGED machineVars

\* Slip: contention is reported and otherwise ignored.
AcquireLockRegardless(ag) ==
  /\ pc[ag] = "lock"
  /\ lock' = ag
  /\ pc' = [pc EXCEPT ![ag] = "load"]
  /\ UNCHANGED <<opt, todo, buf, written, kills, blast>>
  /\ UNCHANGED diskVars /\ UNCHANGED machineVars /\ UNCHANGED historyVars

\* acquire_global_lock: no waiting; contention ends the invocation.
AcquireLock(ag) ==
  /\ pc[ag] = "lock"
  /\ \/ /\ lock = NoAgent /\ lock' = ag
        /\ pc' = [pc EXCEPT ![ag] = "load"]
        /\ UNCHANGED <<opt, todo, buf, written, kills, blast>>
     \/ lock # NoAgent /\ Leave(ag)
  /\ UNCHANGED diskVars /\ UNCHANGED machineVars /\ UNCHANGED historyVars

(* The plan and, with --resume, the outcomes are read; nothing to do or no   *)
(* --yes ends the invocation before the session is touched.                  *)
LoadPlan(ag) ==
  /\ pc[ag] = "load"
  /\ LET sel == Selected(opt[ag])
         refused == sel = {} \/ (~opt[ag].yes /\ ~opt[ag].dry)
     IN  \/ refused /\ Leave(ag) /\ UNCHANGED <<session, cut>>
         \/ /\ ~refused
            /\ todo' = [todo EXCEPT ![ag] = sel]
            /\ pc' = [pc EXCEPT ![ag] = "loop"]
            /\ \/ session' = "Executing"
               \/ IOFaults /\ UNCHANGED session
            /\ UNCHANGED <<lock, opt, buf, written, kills, blast, cut>>
  /\ UNCHANGED file /\ UNCHANGED machineVars /\ UNCHANGED <<runs, acted, struck>>

(* An action is finished with: its outcome is pushed, and the loop goes on   *)
(* or, with --abort-on-unknown and anything but success, breaks.             *)
Push(ag, id, status) ==
  /\ buf' = [buf EXCEPT ![ag] = Append(@, [id |-> id, status |-> status])]
  /\ todo' = [todo EXCEPT ![ag] =
                IF opt[ag].abort /\ status # "success" /\ ~opt[ag].dry
                THEN {} ELSE @ \ {id}]

\* The gates, in order: the plan's block, constraints, identity, pre-checks.
Verdicts(ag, a) ==
  IF a.blocked THEN {"blocked_by_plan"}
  ELSE IF ~Allowed(a, ag) THEN {"blocked_by_constraints"}
  ELSE IF opt[ag].dry THEN {"precheck_blocked", "dry_run"}
  ELSE IF ~Matches(proc[a.pid], a) THEN {"identity_mismatch"}
  ELSE {"precheck_blocked", "go"}

Consider(ag) ==
  /\ pc[ag] = "loop"
  /\ \E id \in Current(ag) : \E verdict \in Verdicts(ag, Plan[id]) :
       \/ /\ verdict = "go"
          /\ pc' = [pc EXCEPT ![ag] = "exec"] /\ UNCHANGED <<buf, todo>>
       \/ /\ verdict # "go"
          /\ Push(ag, id, verdict) /\ UNCHANGED pc
  /\ UNCHANGED <<lock, opt, written, kills, blast>>
  /\ UNCHANGED diskVars /\ UNCHANGED machineVars /\ UNCHANGED historyVars

\* ConstraintChecker::record_action; the code's saturating add does not bite here.
RecordAction(ag, mem, isKill) ==
  /\ kills' = [kills EXCEPT ![ag] = IF isKill THEN @ + 1 ELSE @]
  /\ blast' = [blast EXCEPT ![ag] = @ + mem]

\* What a successful execute may leave of the process it struck.
Aftermath(kind, slot) ==
  IF kind = "Kill" THEN {[slot EXCEPT !.st = "doomed"], [slot EXCEPT !.st = "gone"]}
                   ELSE {slot}

(* signal_runner.execute(action) answers Ok; verify is not called.  The      *)
(* checker is told of kills only, and of no memory.  The step stands for     *)
(* the whole of execute: "struck" has the process that was in the slot when  *)
(* it began to send signals.                                                 *)
ExecuteOk(ag) ==
  /\ pc[ag] = "exec"
  /\ \E id \in Current(ag) :
       LET a == Plan[id]
           slot == proc[a.pid]
       IN  /\ a.kind # "Restart" /\ slot.st # "gone"
           /\ \E s \in Aftermath(a.kind, slot) : proc' = [proc EXCEPT ![a.pid] = s]
           /\ IF a.kind = "Kill" THEN RecordAction(ag, 0, TRUE)
                                 ELSE UNCHANGED <<kills, blast>>
           /\ acted' = [acted EXCEPT ![id] = @ + 1]
           /\ struck' = struck \cup {[id |-> id, slot |-> slot, by |-> opt[ag]]}
           /\ Push(ag, id, "success")
  /\ pc' = [pc EXCEPT ![ag] = "loop"]
  /\ UNCHANGED <<lock, opt, written, boot, runs, cut>> /\ UNCHANGED diskVars

\* Slip: a process that could not be signalled counts as dealt with.
ExecuteErrForgiven(ag) ==
  /\ pc[ag] = "exec"
  /\ \E id \in Current(ag) : Push(ag, id, "success")
  /\ pc' = [pc EXCEPT ![ag] = "loop"]
  /\ UNCHANGED <<lock, opt, written, kills, blast>>
  /\ UNCHANGED diskVars /\ UNCHANGED machineVars /\ UNCHANGED historyVars

\* execute fails: restarts always, the others before or after a signal was sent.
ExecuteErr(ag) ==
  /\ pc[ag] = "exec"
  /\ \E id \in Current(ag) :
       LET a == Plan[id]
       IN  /\ \/ UNCHANGED proc
              \/ a.kind = "Kill" /\ proc' = [proc EXCEPT ![a.pid].st = "gone"]
           /\ Push(ag, id, "failed")
  /\ pc' = [pc EXCEPT ![ag] = "loop"]
  /\ UNCHANGED <<lock, opt, written, kills, blast, boot>>
  /\ UNCHANGED diskVars /\ UNCHANGED historyVars

\* All actions done: outcomes.jsonl is opened for appending, if that works.
OpenOutcomes(ag) ==
  /\ pc[ag] = "loop" /\ todo[ag] = {}
  /\ \/ pc' = [pc EXCEPT ![ag] = "write"]
     \/ IOFaults /\ pc' = [pc EXCEPT ![ag] = "close"]
  /\ UNCHANGED <<lock, opt, todo, buf, written, kills, blast>>
  /\ UNCHANGED diskVars /\ UNCHANGED machineVars /\ UNCHANGED historyVars

\* One outcome is appended: a crash here leaves a prefix of them in the file.
WriteOutcome(ag) ==
  /\ pc[ag] = "write" /\ written[ag] < Len(buf[ag])
  /\ written' = [written EXCEPT ![ag] = @ + 1]
  /\ \/ file' = Append(file, buf[ag][written[ag] + 1])
     \/ IOFaults /\ UNCHANGED file
  /\ UNCHANGED <<lock, session, pc, opt, todo, buf, kills, blast>>
  /\ UNCHANGED machineVars /\ UNCHANGED historyVars

AllWritten(ag) ==
  /\ pc[ag] = "write" /\ written[ag] = Len(buf[ag])
  /\ pc' = [pc EXCEPT ![ag] = "close"]
  /\ UNCHANGED <<lock, opt, todo, buf, written, kills, blast>>
  /\ UNCHANGED diskVars /\ UNCHANGED machineVars /\ UNCHANGED historyVars

FinalState(outs) ==
  IF \E i \in DOMAIN outs : outs[i].status \in FailureStatuses
  THEN "Failed" ELSE "Completed"

\* Slip: a run in which an action failed returns without closing the session.
CloseSessionUnlessFailed(ag) ==
  /\ pc[ag] = "close"
  /\ session' = IF FinalState(buf[ag]) = "Failed" THEN session ELSE "Completed"
  /\ cut' = FALSE
  /\ Leave(ag)
  /\ UNCHANGED file /\ UNCHANGED machineVars /\ UNCHANGED <<runs, acted, struck>>

CloseSession(ag) ==
  /\ pc[ag] = "close"
  /\ \/ session' = FinalState(buf[ag]) /\ cut' = FALSE
     \/ IOFaults /\ UNCHANGED <<session, cut>>
  /\ Leave(ag)
  /\ UNCHANGED file /\ UNCHANGED machineVars /\ UNCHANGED <<runs, acted, struck>>

AgentStep(ag) ==
  \/ AcquireLock(ag) \/ LoadPlan(ag) \/ Consider(ag) \/ ExecuteOk(ag)
  \/ ExecuteErr(ag) \/ OpenOutcomes(ag) \/ WriteOutcome(ag) \/ AllWritten(ag)
  \/ CloseSession(ag)

----------------------------------------------------------------------------
(* What happens around the invocations. *)

\* The invocation is killed; flock releases with the file descriptor.
Crash(ag) ==
  /\ pc[ag] # "idle"
  /\ Leave(ag)
  /\ cut' = (cut \/ pc[ag] \in Running)
  /\ UNCHANGED diskVars /\ UNCHANGED machineVars /\ UNCHANGED <<runs, acted, struck>>

Die(p) ==
  /\ proc[p].st # "gone"
  /\ proc' = [proc EXCEPT ![p].st = "gone"]
  /\ UNCHANGED boot

\* The pid is reused, later in the same boot.
Reuse(p) ==
  /\ proc[p].st = "gone"
  /\ \E s \in Starts, u \in Uids :
       /\ s > proc[p].start
       /\ proc' = [proc EXCEPT ![p] = [st |-> "alive", boot |-> boot, start |-> s, uid |-> u]]
  /\ UNCHANGED boot

MachineStep ==
  /\ \E p \in Pids : Die(p) \/ Reuse(p)
  /\ UNCHANGED lock /\ UNCHANGED diskVars /\ UNCHANGED agentVars /\ UNCHANGED historyVars

(* The machine reboots: pids and start ticks begin again, invocations are    *)
(* gone, the session directory is not.                                       *)
Reboot ==
  /\ boot < MaxBoot
  /\ boot' = boot + 1
  /\ proc' \in [Pids -> [st: {"alive"}, boot: {boot + 1}, start: Starts, uid: Uids]]
  /\ lock' = NoAgent
  /\ pc' = [ag \in Agents |-> "idle"]
  /\ todo' = [ag \in Agents |-> {}] /\ buf' = [ag \in Agents |-> <<>>]
  /\ written' = [ag \in Agents |-> 0]
  /\ kills' = [ag \in Agents |-> 0] /\ blast' = [ag \in Agents |-> 0]
  /\ cut' = (cut \/ \E ag \in Agents : pc[ag] \in Running)
  /\ UNCHANGED opt /\ UNCHANGED diskVars /\ UNCHANGED <<runs, acted, struck>>

----------------------------------------------------------------------------
Init ==
  /\ lock = NoAgent /\ session = "Planned" /\ file = <<>>
  /\ boot = 0
  /\ proc \in [Pids -> [st: {"alive"}, boot: {0}, start: Starts, uid: Uids]]
  /\ \A i \in Ids : /\ Plan[i].boot = 0
                    /\ proc[Plan[i].pid].start = Plan[i].start
                    /\ proc[Plan[i].pid].uid = Plan[i].uid
  /\ pc = [ag \in Agents |-> "idle"]
  /\ opt \in [Agents -> {CHOOSE o \in Invocations : TRUE}]
  /\ todo = [ag \in Agents |-> {}] /\ buf = [ag \in Agents |-> <<>>]
  /\ written = [ag \in Agents |-> 0]
  /\ kills = [ag \in Agents |-> 0] /\ blast = [ag \in Agents |-> 0]
  /\ runs = 0 /\ acted = [i \in Ids |-> 0] /\ struck = {} /\ cut = FALSE

Next ==
  \/ \E ag \in Agents : Invoke(ag) \/ AgentStep(ag) \/ Crash(ag)
  \/ MachineStep
  \/ Reboot

Spec == Init /\ [][Next]_vars

\* An invocation that is running is scheduled.
FairSpec == Spec /\ \A ag \in Agents : WF_vars(AgentStep(ag))
----------------------------------------------------------------------------
(* Type invariant. *)
TypeOK ==
  /\ lock \in Agents \cup {NoAgent} /\ session \in SessionStates
  /\ file \in Seq(Outcomes)
  /\ boot \in Boots /\ proc \in [Pids -> Slots]
  /\ pc \in [Agents -> PCs] /\ opt \in [Agents -> Invocations]
  /\ todo \in [Agents -> SUBSET Ids] /\ written \in [Agents -> Nat] /\ buf \in [Agents -> Seq(Outcomes)]
  /\ kills \in [Agents -> Nat] /\ blast \in [Agents -> Nat]
  /\ runs \in 0..MaxRuns /\ acted \in [Ids -> Nat] /\ cut \in BOOLEAN
  /\ struck \subseteq [id: Ids, slot: Slots, by: Invocations]

(* Whatever crashes, outcomes.jsonl never reports the success of an action   *)
(* that no invocation carried out: --resume may trust it.                    *)
RecordedMeansDone == \A i \in Recorded : acted[i] >= 1

(* An invocation with --resume never carries out an action that the file     *)
(* reports done, although it read the file long before: what the global lock *)
(* over the whole of run_agent_apply is for.                                 *)
ResumeSkipsRecorded ==
  [][\A i \in Ids : i \in Recorded /\ acted'[i] > acted[i] =>
       \E ag \in Agents : pc[ag] = "exec" /\ ~opt[ag].resume]_vars

(* One invocation never kills more than max_kills processes, as its own      *)
(* outcomes tell it.                                                         *)
KillsThisRun(ag) ==
  {i \in DOMAIN buf[ag] : buf[ag][i].status = "success" /\ Plan[buf[ag][i].id].kind = "Kill"}

KillBudgetPerRun == \A ag \in Agents : Cardinality(KillsThisRun(ag)) <= MaxKills

(* Actions the plan blocked, or that a constraint forbids, are carried out   *)
(* by no invocation, and --dry-run carries out nothing, whatever --resume,   *)
(* --pids and --targets say.                                                 *)
OnlyPermittedActed ==
  \A h \in struck : /\ ~Plan[h.id].blocked /\ Plan[h.id].permitted
                    /\ ~h.by.dry /\ h.by.yes

(* When nobody holds the lock, the session is not left "Executing", except   *)
(* after a run that was cut off.                                             *)
SessionSettled == lock = NoAgent /\ session = "Executing" => cut

(* The inductive invariant behind the safety properties.  The lock is held   *)
(* by the one invocation that is past it; so the file is what it was when    *)
(* the holder chose its actions, until the holder itself appends to it.      *)
LockHeld == \A ag \in Agents : pc[ag] \in Holding <=> lock = ag

\* The action about to be carried out has passed the gates.
Gated ==
  \A ag \in Agents :
    /\ pc[ag] \in {"loop", "exec"} => opt[ag].yes \/ opt[ag].dry
    /\ pc[ag] = "exec" =>
         /\ ~opt[ag].dry
         /\ \A id \in Current(ag) : ~Plan[id].blocked /\ Allowed(Plan[id], ag)

Truthful(outs) == \A i \in DOMAIN outs : outs[i].status = "success" => acted[outs[i].id] >= 1

Counted ==
  \A ag \in Agents :
    kills[ag] = Cardinality(KillsThisRun(ag)) /\ kills[ag] <= MaxKills

Unrecorded ==
  \A ag \in Agents :
    pc[ag] \in {"loop", "exec"} /\ opt[ag].resume => todo[ag] \cap Recorded = {}

Inv ==
  /\ TypeOK /\ LockHeld /\ Gated
  /\ Truthful(file) /\ \A ag \in Agents : Truthful(buf[ag])
  /\ Counted /\ Unrecorded /\ OnlyPermittedActed

\* The same for SessionSettled, where writes do not fail.
SettledInv == session = "Executing" /\ ~cut => \E ag \in Agents : pc[ag] \in Running

(* Every invocation that gets the lock gives it back (run_agent_apply has no *)
(* unbounded wait), so that agents that try again get their turn.            *)
LockFreed == \A ag \in Agents : (lock = ag) ~> (lock # ag)

=============================================================================
