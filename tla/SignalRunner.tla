----------------------------- MODULE SignalRunner -----------------------------
(***************************************************************************)
(* SignalActionRunner of pt-core/src/action/signal.rs: one call of execute  *)
(* and then of verify for one planned action, while the machine goes on.    *)
(* Every read of /proc and every kill(2) is a step of its own, so processes *)
(* exit, are reaped and their pids are reused between any two of them.      *)
(*                                                                          *)
(* The callers (ActionExecutor, the agent apply loop) set "call" and "rpc"; *)
(* the specification at the end of this module is one call on its own.      *)
(***************************************************************************)
EXTENDS ProcTable

CONSTANTS
  Tol,            \* ids_match tolerance on start times, in ticks (150)
  Grace,          \* term_grace_ms, in polls
  VerifyTimeout,  \* verify_timeout_ms, in polls
  Kinds           \* the kinds of action planned

AllKinds == {"Kill", "Pause", "Resume", "Keep", "Restart"}

ASSUME TimingAssumption ==
  Tol \in Nat /\ Grace \in Nat /\ VerifyTimeout \in Nat /\ Grace >= 1
ASSUME KindsAssumption == Kinds \subseteq AllKinds

VARIABLES
  me,      \* the uid process_triage runs as
  call,    \* the action being executed
  rpc,     \* where in execute / verify the runner is
  waited,  \* polls done in the current wait_for_state_change
  result,  \* what the last execute or verify returned
  seen,    \* history: the occupant at the last identity check that passed
  hits     \* history: the signals delivered for this call

runnerVars == <<me, call, rpc, waited, result, seen, hits>>
vars == <<clock, proc, me, call, rpc, waited, result, seen, hits>>

(* A planned action and the identity it was planned for.  "inc" is the      *)
(* process the plan meant; the code only has the start time and the uid.    *)
Calls == [kind: Kinds, pid: Pids, start: 0..MaxClock, uid: Uids, inc: 1..MaxInc]

RunnerPCs == {"exec", "grace", "recheck", "look", "sigkill", "executed",
              "verify", "verified"}
Results == {"none", "ok", "not_found", "denied", "mismatch", "timeout", "failed"}

Hits == [sig: Signals, inc: 1..MaxInc, start: 0..MaxClock, uid: Uids,
         seen: 1..MaxInc, waited: 0..Grace]

(* ids_match and ids_match_starttime compare start ticks only, with a        *)
(* tolerance; the boot id and the pid of the identity are not compared.      *)
IdsMatch(expected, current) ==
  IF expected >= current THEN expected - current <= Tol
                         ELSE current - expected <= Tol

target == proc[call.pid]

----------------------------------------------------------------------------
(* kill(2): ESRCH, EPERM or delivery. *)

Return(res) == rpc' = "executed" /\ result' = res

SendFails ==
  \/ /\ ~Exists(call.pid)
     /\ Return("not_found")
  \/ /\ Exists(call.pid) /\ ~MaySignal(me, call.pid)
     /\ Return("denied")

Send(sig) ==
  /\ Exists(call.pid) /\ MaySignal(me, call.pid)
  /\ proc' = [proc EXCEPT ![call.pid] = Deliver(target, sig)]
  /\ hits' = hits \cup {[sig |-> sig, inc |-> target.inc, start |-> target.start,
                         uid |-> target.uid, seen |-> seen, waited |-> waited]}

\* Slip: the loop forgets to count the time it slept.
SleepUncounted ==
  /\ waited' = waited
  /\ clock' = IF clock < MaxClock THEN clock + 1 ELSE clock

(* One turn of the loop of wait_for_state_change: the condition, then sleep. *)
Sleep ==
  /\ waited' = waited + 1
  /\ clock' = IF clock < MaxClock THEN clock + 1 ELSE clock

----------------------------------------------------------------------------
(* execute_kill *)

SendTerm ==
  /\ rpc = "exec" /\ call.kind = "Kill"
  /\ \/ SendFails /\ UNCHANGED <<proc, hits>>
     \/ Send("TERM") /\ rpc' = "grace" /\ UNCHANGED result
  /\ UNCHANGED <<clock, me, call, waited, seen>>

PollGrace ==
  /\ rpc = "grace" /\ waited < Grace
  /\ \/ /\ Exited(call.pid)
        /\ Return("ok")
        /\ UNCHANGED <<clock, waited>>
     \/ /\ ~Exited(call.pid)
        /\ Sleep
        /\ UNCHANGED <<rpc, result>>
  /\ UNCHANGED <<proc, me, call, seen, hits>>

\* Slip: escalation one poll before the grace period is over.
GraceOverEarly ==
  /\ rpc = "grace" /\ waited + 1 = Grace
  /\ rpc' = "recheck"
  /\ UNCHANGED <<clock, proc, me, call, waited, result, seen, hits>>

\* Slip: the end of the grace period is taken for the end of the process.
GraceOverTrusting ==
  /\ rpc = "grace" /\ waited = Grace
  /\ Return("ok")
  /\ UNCHANGED <<clock, proc, me, call, waited, seen, hits>>

GraceOver ==
  /\ rpc = "grace" /\ waited = Grace
  /\ rpc' = "recheck"
  /\ UNCHANGED <<clock, proc, me, call, waited, result, seen, hits>>

\* Slip: the re-validation before SIGKILL is dropped.
RecheckStartDropped ==
  /\ rpc = "recheck"
  /\ rpc' = "look" /\ seen' = target.inc
  /\ UNCHANGED <<clock, proc, me, call, waited, result, hits>>

(* The guard against a pid reused during the grace period.  A start time     *)
(* that cannot be read (the process has just gone) does not stop the kill.   *)
RecheckStart ==
  /\ rpc = "recheck"
  /\ \/ /\ Exists(call.pid) /\ ~IdsMatch(call.start, target.start)
        /\ Return("mismatch")
        /\ UNCHANGED seen
     \/ /\ Exists(call.pid) => IdsMatch(call.start, target.start)
        /\ rpc' = "look"
        /\ seen' = target.inc
        /\ UNCHANGED result
  /\ UNCHANGED <<clock, proc, me, call, waited, hits>>

LastLook ==
  /\ rpc = "look"
  /\ \/ Exists(call.pid) /\ rpc' = "sigkill" /\ UNCHANGED result
     \/ ~Exists(call.pid) /\ Return("ok")
  /\ UNCHANGED <<clock, proc, me, call, waited, seen, hits>>

SendKill ==
  /\ rpc = "sigkill"
  /\ \/ SendFails /\ UNCHANGED <<proc, hits>>
     \/ Send("KILL") /\ Return("ok")
  /\ UNCHANGED <<clock, me, call, waited, seen>>

----------------------------------------------------------------------------
(* execute_pause, execute_resume, and the actions no signal carries out. *)

SendStop ==
  /\ rpc = "exec" /\ call.kind = "Pause"
  /\ \/ SendFails /\ UNCHANGED <<proc, hits>>
     \/ Send("STOP") /\ Return("ok")
  /\ UNCHANGED <<clock, me, call, waited, seen>>

SendCont ==
  /\ rpc = "exec" /\ call.kind = "Resume"
  /\ \/ SendFails /\ UNCHANGED <<proc, hits>>
     \/ Send("CONT") /\ Return("ok")
  /\ UNCHANGED <<clock, me, call, waited, seen>>

NoSignal ==
  /\ rpc = "exec" /\ call.kind \in {"Keep", "Restart"}
  /\ Return(IF call.kind = "Keep" THEN "ok" ELSE "failed")
  /\ UNCHANGED <<clock, proc, me, call, waited, seen, hits>>

Execute == SendTerm \/ PollGrace \/ GraceOver \/ RecheckStart \/ LastLook
           \/ SendKill \/ SendStop \/ SendCont \/ NoSignal

----------------------------------------------------------------------------
(* verify: wait for the state the action was to bring about. *)

\* Slip: a kill is taken to be verified once the process no longer runs.
ReachedNotRunning(kind) ==
  CASE kind = "Kill"   -> target.st \notin {"run", "stop"}
    [] kind = "Pause"  -> Stopped(call.pid)
    [] kind = "Resume" -> Exists(call.pid) /\ ~Stopped(call.pid)
    [] OTHER           -> TRUE

\* get_process_state answers nothing for a process that is gone.
Reached(kind) ==
  CASE kind = "Kill"   -> Exited(call.pid)
    [] kind = "Pause"  -> Stopped(call.pid)
    [] kind = "Resume" -> Exists(call.pid) /\ ~Stopped(call.pid)
    [] OTHER           -> TRUE

VerifyDone(res) == rpc' = "verified" /\ result' = res

PollVerify ==
  /\ rpc = "verify"
  /\ \/ /\ Reached(call.kind)
        /\ waited < VerifyTimeout \/ call.kind \in {"Keep", "Restart"}
        /\ VerifyDone("ok")
        /\ UNCHANGED <<clock, waited>>
     \/ /\ ~Reached(call.kind) /\ waited < VerifyTimeout
        /\ Sleep
        /\ UNCHANGED <<rpc, result>>
     \/ /\ waited = VerifyTimeout /\ call.kind \notin {"Keep", "Restart"}
        /\ VerifyDone("timeout")
        /\ UNCHANGED <<clock, waited>>
  /\ UNCHANGED <<proc, me, call, seen, hits>>

\* The caller goes on to verify what execute says it did.
StartVerify ==
  /\ rpc = "executed" /\ result = "ok"
  /\ rpc' = "verify" /\ waited' = 0
  /\ UNCHANGED <<clock, proc, me, call, result, seen, hits>>

RunnerStep == Execute \/ StartVerify \/ PollVerify

----------------------------------------------------------------------------
(* One call, made just after the identity of the target was revalidated. *)

Init ==
  /\ TableInit
  /\ me \in Uids
  /\ call \in [kind: Kinds, pid: Pids, start: {0}, uid: Uids, inc: {1}]
  /\ proc[call.pid].uid = call.uid
  /\ rpc = "exec" /\ waited = 0 /\ result = "none"
  /\ seen = 1 /\ hits = {}

Environment == TableNext /\ UNCHANGED runnerVars

Next == RunnerStep \/ Environment

Spec == Init /\ [][Next]_vars

\* The runner's thread is scheduled; nothing is assumed of the machine.
FairSpec == Spec /\ WF_vars(RunnerStep)

----------------------------------------------------------------------------
(* Type invariant. *)
TypeOK ==
  /\ TableTypeOK
  /\ me \in Uids /\ call \in Calls
  /\ rpc \in RunnerPCs /\ waited \in Nat /\ result \in Results
  /\ waited <= (IF rpc \in {"verify", "verified"} THEN VerifyTimeout ELSE Grace)
  /\ seen \in 1..MaxInc /\ hits \subseteq Hits

(* The target of the call is past saving: gone, a zombie, replaced, or       *)
(* about to die as soon as it leaves uninterruptible sleep.                  *)
Doomed ==
  \/ target.inc > call.inc
  \/ Exited(call.pid)
  \/ target.pend = "KILL"

(* SIGKILL never reaches a process that was already there when the start     *)
(* time was read for the last time and that the tolerance tells apart: what  *)
(* the re-validation after the grace period in execute_kill is for.  The     *)
(* window left is the one between that read and the kill.                    *)
KillsOnlyCheckedOrNewer ==
  \A h \in hits : h.sig = "KILL" =>
    \/ h.inc = call.inc
    \/ IdsMatch(call.start, h.start)
    \/ h.inc > h.seen

(* A process that gets SIGKILL as the target got SIGTERM first and had the   *)
(* whole grace period (the staged escalation of execute_kill).               *)
StagedEscalation ==
  \A h \in hits : h.sig = "KILL" /\ h.inc = call.inc =>
    /\ h.waited = Grace
    /\ \E t \in hits : t.sig = "TERM" /\ t.inc = call.inc

(* When execute reports success for a kill, the target is past saving, on    *)
(* every path through execute_kill; it may still be in uninterruptible sleep. *)
KillOkMeansDoomed ==
  call.kind = "Kill" /\ rpc \in {"executed", "verify"} /\ result = "ok" => Doomed

(* When verify reports success for a kill, the target has stopped existing:  *)
(* no longer just a pending SIGKILL (verify_kill).                           *)
VerifiedKillMeansDead ==
  call.kind = "Kill" /\ rpc = "verified" /\ result = "ok" =>
    target.inc > call.inc \/ Exited(call.pid)

(* The inductive invariant behind the four properties above.  Between the    *)
(* recheck and the kill, whoever is in the slot either passed the recheck or *)
(* moved in after it; and from SIGTERM on, the signal is on record for the   *)
(* target while the target is still there.                                   *)
Checked ==
  rpc \in {"look", "sigkill"} =>
    /\ target.inc >= seen
    /\ target.inc = seen /\ Exists(call.pid) => IdsMatch(call.start, target.start)

Termed ==
  rpc \in {"grace", "recheck", "look", "sigkill"} =>
    /\ call.kind = "Kill"
    /\ rpc # "grace" => waited = Grace
    /\ target.inc = call.inc =>
         \E t \in hits : t.sig = "TERM" /\ t.inc = call.inc

Inv ==
  /\ TypeOK
  /\ target.inc >= call.inc
  /\ Checked
  /\ Termed
  /\ KillsOnlyCheckedOrNewer
  /\ StagedEscalation
  /\ KillOkMeansDoomed
  /\ VerifiedKillMeansDead
  /\ rpc = "verify" => result = "ok"

(* execute and verify return, whatever the target does: each wait is         *)
(* bounded (wait_for_state_change).                                          *)
CallReturns ==
  <>(rpc = "verified" \/ (rpc = "executed" /\ result # "ok"))
----------------------------------------------------------------------------
(* The runner implements the contract of KillContract.  Of the kinds other   *)
(* than a kill the contract asks for an answer only: their target counts as  *)
(* dead from the start.                                                      *)

phaseOf ==
  CASE rpc \in {"executed", "verify"} /\ result = "ok" -> "ok"
    [] rpc = "verified" /\ result = "ok"               -> "verified"
    [] rpc \in {"executed", "verified"} /\ result # "ok" -> "error"
    [] OTHER                                           -> "asked"

fateOf ==
  IF call.kind # "Kill" \/ target.inc > call.inc \/ Exited(call.pid) THEN "dead"
  ELSE IF target.pend = "KILL" THEN "doomed" ELSE "alive"

Contract == INSTANCE KillContract WITH phase <- phaseOf, fate <- fateOf

(* Every behaviour of the runner on a call is one the contract allows, and   *)
(* the runner keeps answering (execute, verify of signal.rs).                *)
ImplementsContract == Contract!FairSpec
=============================================================================
