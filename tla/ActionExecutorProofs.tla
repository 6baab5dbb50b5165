------------------------- MODULE ActionExecutorProofs -------------------------
(***************************************************************************)
(* Proofs about SignalRunner and ActionExecutor.  The runner: the types,     *)
(* whom its signals reach and what its answers mean, and that it implements  *)
(* KillContract, for every set of pids and users, every grace period,        *)
(* tolerance and bound.  The executor, for any plans: the types, whom the    *)
(* signals of an action reach, and that a kill recorded as done stays true   *)
(* to the end of the plan.                                                   *)
(***************************************************************************)
EXTENDS ActionExecutor, TLAPS

------------------------------------------------------------------------------
(* The signal runner. *)

(* ids_match accepts a start time against itself, and so the process that    *)
(* was planned for, whatever the tolerance (signal.rs, ids_match).           *)
LEMMA IdsMatchReflexive ==
  ASSUME NEW s \in Nat
  PROVE  IdsMatch(s, s)
  BY TimingAssumption DEF IdsMatch

(* A signal never changes who occupies a slot, nor its start time or uid.    *)
LEMMA DeliverKeepsIdentity ==
  ASSUME NEW r \in ProcRecord, NEW sig \in Signals
  PROVE  /\ Deliver(r, sig) \in ProcRecord
         /\ Deliver(r, sig).inc = r.inc
         /\ Deliver(r, sig).start = r.start
         /\ Deliver(r, sig).uid = r.uid
  BY DEF Deliver, ProcRecord, ProcStates, Pending, Signals

(* A SIGKILL that is delivered leaves no process able to go on running.      *)
LEMMA DeliverKill ==
  ASSUME NEW r \in ProcRecord, r.st # "gone"
  PROVE  \/ Deliver(r, "KILL").st = "zombie"
         \/ Deliver(r, "KILL").pend = "KILL"
  BY DEF Deliver, ProcRecord, ProcStates, Pending

(* Every step of the environment and of the runner types the table.          *)
LEMMA TableNextType ==
  ASSUME TableTypeOK, TableNext
  PROVE  TableTypeOK'
<1>1. CASE Tick
  BY <1>1, BoundsAssumption DEF Tick, TableTypeOK
<1>2. ASSUME NEW p \in Pids, Exit(p) \/ Reap(p) \/ Block(p) \/ Wake(p)
      PROVE  TableTypeOK'
  BY <1>2 DEF Exit, Reap, Block, Wake, TableTypeOK, ProcRecord, ProcStates, Pending
<1>3. ASSUME NEW p \in Pids, NEW u \in Uids, Spawn(p, u)
      PROVE  TableTypeOK'
  BY <1>3, BoundsAssumption DEF Spawn, TableTypeOK, ProcRecord, ProcStates, Pending
<1> QED BY <1>1, <1>2, <1>3 DEF TableNext

(* Every step of the runner and of the machine keeps the types.              *)
LEMMA TypeStep ==
  ASSUME TypeOK, [Next]_vars
  PROVE  TypeOK'
<1> USE BoundsAssumption, TimingAssumption
<1>0. /\ target \in ProcRecord /\ call.pid \in Pids
      /\ proc \in [Pids -> ProcRecord]
  BY DEF TypeOK, TableTypeOK, Calls, target
<1>1. ASSUME NEW sig \in Signals, Send(sig), waited <= Grace, clock' = clock
      PROVE  TableTypeOK' /\ hits' \subseteq Hits
  <2>1. proc' \in [Pids -> ProcRecord]
    BY <1>0, <1>1, DeliverKeepsIdentity DEF Send
  <2>2. [sig |-> sig, inc |-> target.inc, start |-> target.start,
         uid |-> target.uid, seen |-> seen, waited |-> waited] \in Hits
    BY <1>0, <1>1 DEF Hits, ProcRecord, TypeOK
  <2> QED BY <1>1, <2>1, <2>2 DEF Send, TypeOK, TableTypeOK
<1>2. CASE SendTerm
  BY <1>2, <1>1 DEF SendTerm, SendFails, Return, TypeOK, TableTypeOK, RunnerPCs,
     Results, Signals
<1>3. CASE PollGrace
  BY <1>3 DEF PollGrace, Return, Sleep, TypeOK, TableTypeOK, RunnerPCs, Results
<1>4. CASE GraceOver
  BY <1>4 DEF GraceOver, TypeOK, TableTypeOK, RunnerPCs, Results
<1>5. CASE RecheckStart
  BY <1>5, <1>0 DEF RecheckStart, Return, TypeOK, TableTypeOK, RunnerPCs, Results,
     ProcRecord
<1>6. CASE LastLook
  BY <1>6 DEF LastLook, Return, TypeOK, TableTypeOK, RunnerPCs, Results
<1>7. CASE SendKill
  BY <1>7, <1>1 DEF SendKill, SendFails, Return, TypeOK, TableTypeOK, RunnerPCs,
     Results, Signals
<1>8. CASE SendStop
  BY <1>8, <1>1 DEF SendStop, SendFails, Return, TypeOK, TableTypeOK, RunnerPCs,
     Results, Signals
<1>9. CASE SendCont
  BY <1>9, <1>1 DEF SendCont, SendFails, Return, TypeOK, TableTypeOK, RunnerPCs,
     Results, Signals
<1>10. CASE NoSignal
  BY <1>10 DEF NoSignal, Return, TypeOK, TableTypeOK, RunnerPCs, Results
<1>11. CASE StartVerify
  BY <1>11 DEF StartVerify, TypeOK, TableTypeOK, RunnerPCs, Results
<1>12. CASE PollVerify
  BY <1>12 DEF PollVerify, VerifyDone, Sleep, TypeOK, TableTypeOK, RunnerPCs, Results
<1>13. CASE Environment
  BY <1>13, TableNextType DEF Environment, runnerVars, TypeOK
<1>14. CASE UNCHANGED vars
  BY <1>14 DEF vars, TypeOK, TableTypeOK
<1> QED BY <1>2, <1>3, <1>4, <1>5, <1>6, <1>7, <1>8, <1>9, <1>10, <1>11, <1>12,
           <1>13, <1>14 DEF Next, RunnerStep, Execute

(* The slots are typed and the runner's state is of its types: the fact      *)
(* every other proof rests on.                                               *)
THEOREM TypeCorrect == Spec => []TypeOK
<1>1. Init => TypeOK
  BY BoundsAssumption, TimingAssumption, KindsAssumption, RootAssumption
  DEF Init, TypeOK, TableInit, TableTypeOK, ProcRecord, ProcStates, Pending,
      Calls, RunnerPCs, Results, Hits
<1> QED BY <1>1, TypeStep, PTL DEF Spec
----------------------------------------------------------------------------
(* What one step of the machine can do to a slot: the occupant stays, and    *)
(* dying is for good, or the next one moves in.                              *)
LEMMA EnvironmentSlot ==
  ASSUME TableTypeOK, TableNext, NEW q \in Pids
  PROVE  \/ /\ proc'[q].inc = proc[q].inc /\ proc'[q].start = proc[q].start
            /\ proc[q].st = "gone" => proc'[q].st = "gone"
            /\ proc[q].st \in {"gone", "zombie"} => proc'[q].st \in {"gone", "zombie"}
            /\ proc[q].pend = "KILL" =>
                 proc'[q].pend = "KILL" \/ proc'[q].st \in {"gone", "zombie"}
         \/ proc'[q].inc = proc[q].inc + 1
<1> USE DEF TableTypeOK, ProcRecord, ProcStates, Pending
<1>1. CASE Tick
  BY <1>1 DEF Tick
<1>2. ASSUME NEW p \in Pids, Exit(p) PROVE proc' = [proc EXCEPT ![p].st = "zombie"] /\ proc[p].st # "gone"
  BY <1>2 DEF Exit
<1>3. ASSUME NEW p \in Pids, Reap(p) PROVE proc' = [proc EXCEPT ![p].st = "gone"]
  BY <1>3 DEF Reap
<1>4. ASSUME NEW p \in Pids, Block(p) PROVE proc' = [proc EXCEPT ![p].st = "disk"] /\ proc[p].st = "run"
  BY <1>4 DEF Block
<1>5. ASSUME NEW p \in Pids, Wake(p)
      PROVE  /\ proc'[p].inc = proc[p].inc /\ proc'[p].start = proc[p].start
             /\ proc[p].st = "disk"
             /\ proc[p].pend = "KILL" => proc'[p].st = "zombie"
             /\ \A r \in Pids : r # p => proc'[r] = proc[r]
  BY <1>5 DEF Wake
<1>6. ASSUME NEW p \in Pids, NEW u \in Uids, Spawn(p, u)
      PROVE  proc'[p].inc = proc[p].inc + 1 /\ \A r \in Pids : r # p => proc'[r] = proc[r]
  BY <1>6 DEF Spawn
<1> QED BY <1>1, <1>2, <1>3, <1>4, <1>5, <1>6 DEF TableNext

(* Once doomed, the target of the call stays doomed whatever the machine     *)
(* does: success reported for a kill is never taken back.                    *)
LEMMA DoomedStays ==
  ASSUME TypeOK, target.inc >= call.inc, Environment, Doomed
  PROVE  Doomed'
<1>1. call.pid \in Pids /\ call.inc \in Nat /\ target \in ProcRecord
  BY DEF TypeOK, TableTypeOK, Calls, target
<1> QED BY <1>1, EnvironmentSlot DEF Environment, runnerVars, Doomed, Exited, target,
           TypeOK, ProcRecord

(* A call starts with nothing checked and nothing sent. *)
LEMMA InvInit == Init => Inv
<1> SUFFICES ASSUME Init PROVE Inv
  OBVIOUS
<1>1. TypeOK
  BY BoundsAssumption, TimingAssumption, KindsAssumption, RootAssumption
  DEF Init, TypeOK, TableInit, TableTypeOK, ProcRecord, ProcStates, Pending,
      Calls, RunnerPCs, Results, Hits
<1>2. target.inc = 1 /\ call.inc = 1
  BY DEF Init, TableInit, target
<1> QED BY <1>1, <1>2 DEF Inv, Init, Checked, Termed, KillsOnlyCheckedOrNewer,
           StagedEscalation, KillOkMeansDoomed, VerifiedKillMeansDead

(* The machine's steps keep the invariant: they only make targets deader or  *)
(* newer.                                                                    *)
LEMMA EnvironmentInv ==
  ASSUME Inv, TypeOK', Environment
  PROVE  Inv'
<1>1. /\ call.pid \in Pids /\ target \in ProcRecord /\ target' \in ProcRecord
      /\ TableTypeOK /\ seen \in Nat /\ call.inc \in Nat
  BY DEF Inv, TypeOK, TableTypeOK, Calls, target, Environment, runnerVars
<1>2. UNCHANGED runnerVars /\ TableNext
  BY DEF Environment
<1>3. \/ /\ target'.inc = target.inc /\ target'.start = target.start
         /\ target.st = "gone" => target'.st = "gone"
         /\ Exited(call.pid) => Exited(call.pid)'
      \/ target'.inc = target.inc + 1
  BY <1>1, <1>2, EnvironmentSlot DEF target, runnerVars, Exited
<1>4. target'.inc >= call.inc /\ call' = call
  BY <1>1, <1>2, <1>3 DEF Inv, runnerVars, ProcRecord
<1>5. Checked'
  BY <1>1, <1>2, <1>3 DEF Inv, Checked, runnerVars, Exists, target, IdsMatch, ProcRecord
<1>6. Termed'
  BY <1>1, <1>2, <1>3 DEF Inv, Termed, runnerVars, ProcRecord
<1>7. KillsOnlyCheckedOrNewer' /\ StagedEscalation'
  BY <1>2 DEF Inv, KillsOnlyCheckedOrNewer, StagedEscalation, runnerVars, IdsMatch
<1>8. KillOkMeansDoomed'
  BY <1>2, DoomedStays DEF Inv, KillOkMeansDoomed, runnerVars
<1>9. VerifiedKillMeansDead'
  BY <1>1, <1>2, <1>3 DEF Inv, VerifiedKillMeansDead, runnerVars, ProcRecord
<1> QED BY <1>2, <1>4, <1>5, <1>6, <1>7, <1>8, <1>9 DEF Inv, runnerVars

(* What Send leaves behind: the signal on record, the occupant unchanged.    *)
LEMMA SendEffect ==
  ASSUME TypeOK, NEW sig \in Signals, Send(sig), UNCHANGED call
  PROVE  /\ target' = Deliver(target, sig)
         /\ target'.inc = target.inc /\ target'.start = target.start
         /\ target.st # "gone"
         /\ hits' = hits \cup {[sig |-> sig, inc |-> target.inc,
                    start |-> target.start, uid |-> target.uid, seen |-> seen, waited |-> waited]}
<1>1. call.pid \in Pids /\ proc \in [Pids -> ProcRecord] /\ target \in ProcRecord
  BY DEF TypeOK, TableTypeOK, Calls, target
<1> QED BY <1>1, DeliverKeepsIdentity DEF Send, target, Exists

(* The runner's own steps keep the invariant. *)
LEMMA RunnerInv ==
  ASSUME Inv, TypeOK', RunnerStep
  PROVE  Inv'
<1>0. /\ call.pid \in Pids /\ target \in ProcRecord /\ proc \in [Pids -> ProcRecord]
      /\ TypeOK /\ seen \in Nat /\ call.inc \in Nat /\ waited \in Nat
      /\ target.inc >= call.inc /\ UNCHANGED call
  BY DEF Inv, TypeOK, TableTypeOK, Calls, target, RunnerStep, Execute, SendTerm,
     PollGrace, GraceOver, RecheckStart, LastLook, SendKill, SendStop, SendCont,
     NoSignal, StartVerify, PollVerify
<1> USE DEF Inv, Checked, Termed, KillsOnlyCheckedOrNewer, StagedEscalation,
            KillOkMeansDoomed, VerifiedKillMeansDead
<1>1. CASE SendTerm
  <2>1. CASE SendFails /\ UNCHANGED <<proc, hits>>
    BY <1>0, <1>1, <2>1 DEF SendTerm, SendFails, Return, target
  <2>2. CASE Send("TERM") /\ rpc' = "grace" /\ UNCHANGED result
    <3> DEFINE hit == [sig |-> "TERM", inc |-> target.inc, start |-> target.start,
                       uid |-> target.uid, seen |-> seen, waited |-> waited]
    <3>1. /\ target'.inc = target.inc /\ hits' = hits \cup {hit}
      BY <1>0, <2>2, SendEffect DEF Signals
    <3>2. Termed'
      <4>1. call.kind = "Kill" /\ UNCHANGED call /\ rpc' = "grace"
        BY <1>1, <2>2 DEF SendTerm
      <4>2. hit \in hits' /\ hit.sig = "TERM" /\ hit.inc = target.inc
        BY <3>1
      <4> QED BY <3>1, <4>1, <4>2
    <3>3. KillsOnlyCheckedOrNewer' /\ StagedEscalation'
      <4>1. \A h \in hits' : h.sig = "KILL" => h \in hits
        BY <3>1
      <4>2. hits \subseteq hits' /\ UNCHANGED call
        BY <3>1, <1>0
      <4> QED BY <4>1, <4>2 DEF IdsMatch
    <3> QED BY <1>0, <2>2, <3>1, <3>2, <3>3
  <2> QED BY <1>1, <2>1, <2>2 DEF SendTerm
<1>2. CASE PollGrace
  BY <1>0, <1>2 DEF PollGrace, Return, Sleep, target, Doomed, Exited, IdsMatch, Exists
<1>3. CASE GraceOver
  BY <1>0, <1>3 DEF GraceOver, target, IdsMatch, Exists
<1>4. CASE RecheckStart
  BY <1>0, <1>4 DEF RecheckStart, Return, target, IdsMatch, Exists, ProcRecord
<1>5. CASE LastLook
  BY <1>0, <1>5 DEF LastLook, Return, target, IdsMatch, Exists, Doomed, Exited
<1>6. CASE SendKill
  <2>1. CASE SendFails /\ UNCHANGED <<proc, hits>>
    BY <1>0, <1>6, <2>1 DEF SendKill, SendFails, Return, target
  <2>2. CASE Send("KILL") /\ Return("ok")
    <3> DEFINE hit == [sig |-> "KILL", inc |-> target.inc, start |-> target.start,
                       uid |-> target.uid, seen |-> seen, waited |-> waited]
    <3>1. /\ target' = Deliver(target, "KILL") /\ target'.inc = target.inc
          /\ target.st # "gone" /\ hits' = hits \cup {hit}
      BY <1>0, <2>2, SendEffect DEF Signals
    <3>2. Doomed'
      BY <1>0, <3>1, DeliverKill DEF Doomed, Exited, target
    <3>3. KillsOnlyCheckedOrNewer'
      <4>1. rpc = "sigkill" /\ target.inc >= seen /\ target.inc \in Nat
        BY <1>0, <1>6 DEF SendKill, ProcRecord
      <4>2. target.inc = seen => IdsMatch(call.start, target.start)
        BY <1>0, <3>1, <4>1 DEF Exists, target
      <4>3. hit.inc > hit.seen \/ IdsMatch(call.start, hit.start)
        BY <1>0, <4>1, <4>2
      <4> QED BY <1>0, <3>1, <4>3 DEF IdsMatch
    <3>4. StagedEscalation'
      <4>1. rpc = "sigkill" /\ waited = Grace
        BY <1>6 DEF SendKill
      <4>2. hit.inc = call.inc => \E t \in hits : t.sig = "TERM" /\ t.inc = call.inc
        BY <4>1
      <4>3. hit.waited = Grace
        BY <4>1
      <4> QED BY <1>0, <3>1, <4>2, <4>3
    <3> QED BY <1>0, <2>2, <3>1, <3>2, <3>3, <3>4 DEF Return
  <2> QED BY <1>6, <2>1, <2>2 DEF SendKill
<1>7. ASSUME NEW sig \in {"STOP", "CONT"}, Send(sig), Return("ok"), rpc = "exec",
             call.kind # "Kill", UNCHANGED <<call, seen, waited>>
      PROVE  Inv'
  <2>1. /\ target'.inc = target.inc
        /\ hits' = hits \cup {[sig |-> sig, inc |-> target.inc, start |-> target.start,
                               uid |-> target.uid, seen |-> seen, waited |-> waited]}
    BY <1>0, <1>7, SendEffect DEF Signals
  <2>2. \A h \in hits' : h.sig = "KILL" => h \in hits
    BY <1>7, <2>1
  <2>3. KillsOnlyCheckedOrNewer' /\ StagedEscalation'
    <3>1. hits \subseteq hits' /\ UNCHANGED call
      BY <2>1, <1>0
    <3> QED BY <2>2, <3>1 DEF IdsMatch
  <2> QED BY <1>0, <1>7, <2>1, <2>3 DEF Return
<1>8. CASE SendStop \/ SendCont
  BY <1>0, <1>7, <1>8 DEF SendStop, SendCont, SendFails, Return, target
<1>9. CASE NoSignal
  BY <1>0, <1>9 DEF NoSignal, Return, target
<1>10. CASE StartVerify
  BY <1>0, <1>10 DEF StartVerify, target, Doomed, Exited
<1>11. CASE PollVerify
  BY <1>0, <1>11 DEF PollVerify, VerifyDone, Sleep, Reached, target, Doomed, Exited
<1> QED BY <1>1, <1>2, <1>3, <1>4, <1>5, <1>6, <1>8, <1>9, <1>10, <1>11
        DEF RunnerStep, Execute

(* Every step of the call or of the machine keeps the invariant.             *)
LEMMA InvStep ==
  ASSUME Inv, TypeOK', [Next]_vars
  PROVE  Inv'
<1>1. CASE UNCHANGED vars
  BY <1>1 DEF vars, Inv, Checked, Termed, KillsOnlyCheckedOrNewer, StagedEscalation,
     KillOkMeansDoomed, VerifiedKillMeansDead, Doomed, Exited, Exists, target, IdsMatch
<1> QED BY <1>1, RunnerInv, EnvironmentInv DEF Next

(* The inductive invariant holds throughout.                                 *)
THEOREM InvCorrect == Spec => []Inv
<1>1. Inv /\ TypeOK' /\ [Next]_vars => Inv'
  BY InvStep
<1> QED BY <1>1, InvInit, TypeCorrect, PTL DEF Spec

(* For every grace period, tolerance, set of pids and users: SIGKILL reaches *)
(* only the target, a process within the tolerance, or one that moved into   *)
(* the pid after the last look at its start time.                            *)
THEOREM KillsTheChecked == Spec => []KillsOnlyCheckedOrNewer
<1>1. Inv => KillsOnlyCheckedOrNewer
  BY DEF Inv
<1> QED BY InvCorrect, <1>1, PTL

(* Before SIGKILL comes SIGTERM, and the whole grace period.                 *)
THEOREM EscalatesInStages == Spec => []StagedEscalation
<1>1. Inv => StagedEscalation
  BY DEF Inv
<1> QED BY InvCorrect, <1>1, PTL

(* A kill that execute reports as done is one its target does not survive.   *)
THEOREM OkMeansDoomed == Spec => []KillOkMeansDoomed
<1>1. Inv => KillOkMeansDoomed
  BY DEF Inv
<1> QED BY InvCorrect, <1>1, PTL

(* A kill that is verified is one whose target is gone, for good.            *)
THEOREM VerifiedMeansDead == Spec => []VerifiedKillMeansDead
<1>1. Inv => VerifiedKillMeansDead
  BY DEF Inv
<1> QED BY InvCorrect, <1>1, PTL
----------------------------------------------------------------------------
(* Fate moves one way under every step of the runner and of the machine.     *)
LEMMA FateMoves ==
  ASSUME Inv, TypeOK', UNCHANGED call,
         \/ TableNext
         \/ UNCHANGED proc
         \/ \E sig \in Signals : Send(sig)
  PROVE  /\ fateOf' \in Contract!From(fateOf)
         /\ fateOf \in Contract!Fates
         /\ UNCHANGED proc => UNCHANGED fateOf
<1>1. /\ call.pid \in Pids /\ target \in ProcRecord /\ target' \in ProcRecord
      /\ TypeOK /\ TableTypeOK /\ call.inc \in Nat /\ target.inc \in Nat
  BY DEF Inv, TypeOK, TableTypeOK, Calls, target, ProcRecord
<1>2. fateOf = "dead" <=>
        call.kind # "Kill" \/ target.inc > call.inc \/ Exited(call.pid)
  BY DEF fateOf
<1>3. fateOf = "doomed" <=>
        /\ call.kind = "Kill" /\ target.pend = "KILL"
        /\ ~Exited(call.pid) /\ ~(target.inc > call.inc)
  BY DEF fateOf
<1>4. fateOf \in Contract!Fates /\ fateOf' \in Contract!Fates
  BY DEF fateOf, Contract!Fates
<1>5. /\ fateOf = "dead" => fateOf' = "dead"
      /\ fateOf = "doomed" => fateOf' \in {"doomed", "dead"}
  <2>1. CASE TableNext
    <3>1. \/ /\ target'.inc = target.inc
             /\ Exited(call.pid) => Exited(call.pid)'
             /\ target.pend = "KILL" => target'.pend = "KILL" \/ Exited(call.pid)'
          \/ target'.inc = target.inc + 1
      BY <1>1, <2>1, EnvironmentSlot DEF target, Exited
    <3>2. target.inc >= call.inc
      BY DEF Inv
    <3> QED BY <1>1, <3>1, <3>2 DEF fateOf
  <2>2. CASE UNCHANGED proc
    BY <2>2 DEF fateOf, target, Exited
  <2>3. ASSUME NEW sig \in Signals, Send(sig)
        PROVE  /\ fateOf = "dead" => fateOf' = "dead"
               /\ fateOf = "doomed" => fateOf' \in {"doomed", "dead"}
    <3>1. target' = Deliver(target, sig) /\ target'.inc = target.inc
      BY <1>1, <2>3, SendEffect
    <3>2. /\ target.st = "zombie" => target'.st = "zombie"
          /\ target.pend = "KILL" => target'.pend = "KILL" \/ target'.st = "zombie"
      BY <1>1, <3>1 DEF Deliver, ProcRecord, ProcStates, Pending, Signals
    <3>3. target.st # "gone"
      BY <1>1, <2>3, SendEffect
    <3> QED BY <1>1, <3>1, <3>2, <3>3 DEF fateOf, Exited, target
  <2> QED BY <2>1, <2>2, <2>3
<1>6. fateOf' \in Contract!From(fateOf)
  BY <1>4, <1>5 DEF Contract!From, Contract!Fates
<1>7. UNCHANGED proc => UNCHANGED fateOf
  BY DEF fateOf, target, Exited
<1> QED BY <1>4, <1>6, <1>7
(* A call implements KillContract: the initial states and every step    *)
(* of execute_kill, verify_kill and the machine are ones the contract allows, *)
(* whatever the grace period, the tolerance and the bounds.  (Its fairness   *)
(* is checked by TLC only.)                                                  *)
THEOREM KillImplementsContract == Spec => Contract!Spec
<1> USE DEF Contract!Phases, Contract!Fates
<1>1. Init => Contract!Init
  <2> SUFFICES ASSUME Init PROVE Contract!Init
    OBVIOUS
  <2>1. phaseOf = "asked"
    BY DEF Init, phaseOf
  <2>2. fateOf \in Contract!Fates
    BY DEF fateOf
  <2> QED BY <2>1, <2>2 DEF Contract!Init
<1>2. Inv /\ TypeOK' /\ [Next]_vars => [Contract!Next]_<<phaseOf, fateOf>>
  <2> SUFFICES ASSUME Inv, TypeOK', [Next]_vars
               PROVE  Contract!Next \/ UNCHANGED <<phaseOf, fateOf>>
    OBVIOUS
  <2>0. /\ TypeOK
        /\ rpc = "verify" => result = "ok"
        /\ call.kind = "Kill" /\ rpc \in {"executed", "verify"} /\ result = "ok" => Doomed
    BY DEF Inv, KillOkMeansDoomed
  <2>00. Inv'
    BY InvStep
  <2>1. CASE UNCHANGED vars
    BY <2>1 DEF vars, phaseOf, fateOf, target, Exited
  <2>2. CASE Environment
    <3>1. UNCHANGED phaseOf
      BY <2>2 DEF Environment, runnerVars, phaseOf
    <3>2. fateOf' \in Contract!From(fateOf)
      BY <2>2, FateMoves DEF Environment, runnerVars
    <3> QED BY <3>1, <3>2 DEF Contract!Next, Contract!Suffer
  <2>3. ASSUME rpc \in {"exec", "grace", "recheck", "look", "sigkill"},
               UNCHANGED call, UNCHANGED proc \/ \E sig \in Signals : Send(sig),
               \/ rpc' = "executed"
               \/ rpc' \in {"exec", "grace", "recheck", "look", "sigkill"}
        PROVE  Contract!Next
    <3>1. phaseOf = "asked"
      BY <2>3 DEF phaseOf
    <3>2. fateOf' \in Contract!From(fateOf)
      BY <2>3, FateMoves
    <3>3. CASE rpc' = "executed" /\ result' = "ok"
      <4>1. call.kind' = "Kill" => Doomed'
        BY <2>00, <3>3, <2>0, <2>3 DEF Inv, KillOkMeansDoomed
      <4>2. phaseOf' = "ok" /\ fateOf' # "alive"
        <5>1. phaseOf' = "ok"
          BY <3>3 DEF phaseOf
        <5>2. fateOf' # "alive"
          BY <4>1 DEF fateOf, Doomed, Exited, target
        <5> QED BY <5>1, <5>2
      <4> QED BY <3>1, <3>2, <4>2 DEF Contract!Next, Contract!Answer
    <3>4. CASE rpc' = "executed" /\ result' # "ok"
      <4>1. phaseOf' = "error"
        BY <3>4 DEF phaseOf
      <4> QED BY <3>1, <3>2, <4>1 DEF Contract!Next, Contract!Answer
    <3>5. CASE rpc' # "executed"
      <4>1. phaseOf' = "asked"
        BY <2>3, <3>5 DEF phaseOf
      <4> QED BY <3>1, <3>2, <4>1 DEF Contract!Next, Contract!Suffer
    <3> QED BY <3>3, <3>4, <3>5
  <2>4. CASE Execute
    BY <2>0, <2>3, <2>4 DEF Execute, SendTerm, PollGrace, GraceOver, RecheckStart, LastLook,
       SendKill, SendStop, SendCont, NoSignal, SendFails, Return, Sleep, Signals
  <2>5. CASE StartVerify
    BY <2>5 DEF StartVerify, phaseOf, fateOf, target, Exited
  <2>6. CASE PollVerify
    <3>1. UNCHANGED fateOf /\ phaseOf = "ok"
      BY <2>0, <2>6 DEF PollVerify, phaseOf, fateOf, target, Exited
    <3>2. phaseOf' = "verified" => fateOf = "dead"
      BY <2>0, <2>6 DEF PollVerify, VerifyDone, Reached, phaseOf, fateOf
    <3>3. phaseOf' \in {"ok", "verified", "error"}
      BY <2>0, <2>6 DEF PollVerify, VerifyDone, phaseOf
    <3> QED BY <3>1, <3>2, <3>3 DEF Contract!Next, Contract!Confirm
  <2> QED BY <2>1, <2>2, <2>4, <2>5, <2>6 DEF Next, RunnerStep
<1> QED BY <1>1, <1>2, InvCorrect, TypeCorrect, PTL DEF Spec, Contract!Spec

------------------------------------------------------------------------------
(* The executor, which calls the runner. *)

(* The call is that of the action under execution, planned for the first     *)
(* occupant of its pid.                                                      *)
CallOfAction ==
  /\ \A i \in DOMAIN plan : plan[i].call.inc = 1
  /\ epc \in {"start_id", "uid", "prechecks", "run"} => idx <= Len(plan) /\ call = action.call

(* The occupant is the one the pre-checks saw, or one that came after it.    *)
Seen(uidToo) ==
  /\ target.inc >= seen
  /\ target.inc = seen => IdsMatch(call.start, target.start) /\ (uidToo => target.uid = call.uid)

LookedAt ==
  /\ epc = "uid" => Seen(FALSE)
  /\ epc = "prechecks" \/ (epc = "run" /\ rpc = "exec") => Seen(TRUE)

(* What a call in progress has delivered and returned.                       *)
Running ==
  epc = "run" =>
    /\ Inv
    /\ rpc = "exec" => hits = {}
    /\ rpc \in {"executed", "verify", "verified"} => result # "none"

ExecInv ==
  ExecTypeOK /\ CallOfAction /\ LookedAt /\ Running /\ SignalsOnlyCheckedOrNewer /\ SuccessMeansDead

----------------------------------------------------------------------------
(* Actions and their calls. *)

(* Actions of a plan have calls.                                             *)
LEMMA PlanTypes ==
  ASSUME ExecTypeOK
  PROVE  /\ plan \in Seq(PlanActions) /\ Len(plan) \in Nat /\ idx \in Nat
         /\ \A i \in 1..Len(plan) : i \in DOMAIN plan /\ plan[i].call \in Calls
<1>1. plan \in Seq(PlanActions)
  BY PlansAssumption DEF ExecTypeOK
<1>2. \A i \in 1..Len(plan) : plan[i] \in PlanActions /\ i \in DOMAIN plan
  BY <1>1
<1> QED BY <1>1, <1>2 DEF PlanActions, ExecTypeOK

(* The machine leaves to an occupant its start time and uid.                 *)
LEMMA OccupantKeeps ==
  ASSUME TableTypeOK, TableNext, NEW q \in Pids
  PROVE  \/ proc'[q].inc = proc[q].inc /\ proc'[q].start = proc[q].start /\ proc'[q].uid = proc[q].uid
         \/ proc'[q].inc = proc[q].inc + 1
<1> USE DEF TableTypeOK, ProcRecord
<1>1. CASE Tick
  BY <1>1 DEF Tick
<1>2. ASSUME NEW p \in Pids, Exit(p) \/ Reap(p) \/ Block(p) \/ Wake(p)
      PROVE  proc'[q].inc = proc[q].inc /\ proc'[q].start = proc[q].start /\ proc'[q].uid = proc[q].uid
  BY <1>2 DEF Exit, Reap, Block, Wake
<1>3. ASSUME NEW p \in Pids, NEW u \in Uids, Spawn(p, u)
      PROVE  \/ proc'[q].inc = proc[q].inc /\ proc'[q].start = proc[q].start /\ proc'[q].uid = proc[q].uid
             \/ proc'[q].inc = proc[q].inc + 1
  BY <1>3 DEF Spawn
<1> QED BY <1>1, <1>2, <1>3 DEF TableNext

(* Every step of execute and verify leaves the executor's call and the        *)
(* identity of every occupant alone, and raises nobody from the dead.        *)
LEMMA RunnerSlot ==
  ASSUME TypeOK, RunnerStep
  PROVE  /\ UNCHANGED call
         /\ \A q \in Pids : /\ proc'[q].inc = proc[q].inc
                            /\ proc[q].st \in {"gone", "zombie"} => proc'[q].st \in {"gone", "zombie"}
<1>1. proc \in [Pids -> ProcRecord] /\ call.pid \in Pids /\ target = proc[call.pid] /\ target \in ProcRecord
  BY DEF TypeOK, TableTypeOK, Calls, target
<1>2. ASSUME NEW sig \in Signals, Send(sig)
      PROVE  \A q \in Pids : /\ proc'[q].inc = proc[q].inc
                             /\ proc[q].st \in {"gone", "zombie"} => proc'[q].st \in {"gone", "zombie"}
  <2>1. target.st \in {"gone", "zombie"} => Deliver(target, sig) = target
    BY DEF Deliver
  <2> QED BY <1>1, <1>2, <2>1, DeliverKeepsIdentity DEF Send
<1>3. CASE UNCHANGED proc
  BY <1>3, <1>1 DEF RunnerStep, Execute, SendTerm, PollGrace, GraceOver, RecheckStart, LastLook,
    SendKill, SendStop, SendCont, NoSignal, StartVerify, PollVerify
<1>4. CASE SendTerm \/ SendKill \/ SendStop \/ SendCont
  BY <1>2, <1>3, <1>4 DEF SendTerm, SendKill, SendStop, SendCont, Signals
<1> QED BY <1>3, <1>4 DEF RunnerStep, Execute, PollGrace, GraceOver, RecheckStart, LastLook, NoSignal,
      StartVerify, PollVerify

(* A call that has returned has a result, and only one that has not begun    *)
(* is without signals to come from.                                          *)
LEMMA RunnerReturns ==
  ASSUME TypeOK, RunnerStep, rpc \in {"executed", "verify", "verified"} => result # "none"
  PROVE  /\ rpc' # "exec"
         /\ rpc' \in {"executed", "verify", "verified"} => result' # "none"
BY DEF RunnerStep, Execute, SendTerm, SendFails, PollGrace, GraceOver, RecheckStart, LastLook,
  SendKill, SendStop, SendCont, NoSignal, StartVerify, PollVerify, Return, VerifyDone, Sleep

(* What the signals of the call have reached, after a step of the runner.    *)
LEMMA RunnerHits ==
  ASSUME Inv, Inv', RunnerStep,
         rpc = "exec" => Seen(TRUE),
         \A h \in hits : \/ h.inc = call.inc
                         \/ h.inc > h.seen
                         \/ IdsMatch(call.start, h.start) /\ (h.sig # "KILL" => h.uid = call.uid)
  PROVE  \A h \in hits' : \/ h.inc = call'.inc
                          \/ h.inc > h.seen
                          \/ IdsMatch(call'.start, h.start) /\ (h.sig # "KILL" => h.uid = call'.uid)
<1>0. TypeOK /\ UNCHANGED call
  BY RunnerSlot DEF Inv
<1>1. CASE hits' = hits
  BY <1>0, <1>1
<1>2. ASSUME NEW sig \in {"TERM", "STOP", "CONT"}, Send(sig), rpc = "exec"
      PROVE  \A h \in hits' : \/ h.inc = call.inc
                              \/ h.inc > h.seen
                              \/ IdsMatch(call.start, h.start) /\ (h.sig # "KILL" => h.uid = call.uid)
  <2>1. target.inc \in Nat /\ seen \in Nat
    BY <1>0 DEF TypeOK, TableTypeOK, Calls, target, ProcRecord
  <2>2. target.inc > seen \/ (IdsMatch(call.start, target.start) /\ target.uid = call.uid)
    BY <1>2, <2>1 DEF Seen
  <2> QED BY <1>2, <2>2 DEF Send
<1>3. CASE SendTerm \/ SendStop \/ SendCont
  BY <1>0, <1>1, <1>2, <1>3 DEF SendTerm, SendStop, SendCont
<1>4. CASE SendKill
  <2>1. hits' = hits \/ \E h \in hits' : hits' = hits \cup {h} /\ h.sig = "KILL"
    <3>1. CASE SendFails
      BY <1>4, <3>1 DEF SendKill, SendFails, Send, MaySignal
    <3>2. CASE Send("KILL")
      BY <3>2 DEF Send
    <3> QED BY <1>4, <3>1, <3>2 DEF SendKill
  <2>2. \A h \in hits' : h.sig = "KILL" =>
          h.inc = call.inc \/ IdsMatch(call.start, h.start) \/ h.inc > h.seen
    BY <1>0 DEF Inv, KillsOnlyCheckedOrNewer
  <2> QED BY <1>0, <2>1, <2>2
<1> QED BY <1>1, <1>3, <1>4 DEF RunnerStep, Execute, PollGrace, GraceOver, RecheckStart, LastLook,
      NoSignal, StartVerify, PollVerify
----------------------------------------------------------------------------
(* Steps. *)

(* What the executor has recorded stays true as long as occupants only go.   *)
LEMMA DeathsStay ==
  ASSUME ExecInv, TypeOK', UNCHANGED <<plan, outcomes>>,
         \A q \in Pids : \/ /\ proc'[q].inc = proc[q].inc
                            /\ proc[q].st \in {"gone", "zombie"} => proc'[q].st \in {"gone", "zombie"}
                         \/ proc'[q].inc = proc[q].inc + 1
  PROVE  SuccessMeansDead'
<1> SUFFICES ASSUME NEW i \in DOMAIN outcomes, plan[i].call.kind = "Kill", outcomes[i] = "ok"
             PROVE  (proc[plan[i].call.pid].inc > plan[i].call.inc \/ Exited(plan[i].call.pid))'
  BY DEF SuccessMeansDead
<1>1. i \in 1..Len(plan)
  BY DEF ExecInv, ExecTypeOK
<1>2. plan[i].call \in Calls
  BY <1>1, PlanTypes DEF ExecInv
<1>3. proc[plan[i].call.pid].inc > plan[i].call.inc \/ Exited(plan[i].call.pid)
  BY DEF ExecInv, SuccessMeansDead
<1>4. plan[i].call.pid \in Pids /\ plan[i].call.inc = 1
  BY <1>1, <1>2, PlanTypes DEF Calls, ExecInv, CallOfAction
<1>6. plan' = plan
  OBVIOUS
<1> DEFINE pid == plan[i].call.pid
<1> HIDE DEF pid
<1>7. pid \in Pids /\ (proc[pid].inc > 1 \/ proc[pid].st \in {"gone", "zombie"})
  BY <1>3, <1>4 DEF pid, Exited
<1>8. proc'[pid].inc > 1 \/ proc'[pid].st \in {"gone", "zombie"}
  <2>1. proc[pid].inc \in Nat \ {0}
    BY <1>7 DEF ExecInv, ExecTypeOK, TypeOK, TableTypeOK, ProcRecord
  <2> QED BY <1>7, <2>1
<1> QED BY <1>4, <1>6, <1>8 DEF pid, Exited

(* An outcome is recorded: a success of a kill only of one that is dead.     *)
LEMMA Recorded ==
  ASSUME ExecInv, TypeOK', NEW status \in Statuses, Record(status), UNCHANGED <<proc, call>>,
         idx <= Len(plan),
         status = "ok" /\ call.kind = "Kill" =>
           call = action.call /\ (target.inc > call.inc \/ Exited(call.pid)),
         action.call.kind = "Kill" /\ status = "ok" => call = action.call
  PROVE  ExecInv'
<1>1. plan' = plan /\ idx' = idx + 1 /\ epc' = "next" /\ outcomes' = Append(outcomes, status)
  BY DEF Record
<1>2. outcomes \in Seq(Statuses) /\ Len(outcomes) = idx - 1 /\ idx \in Nat /\ Len(plan) \in Nat
  BY PlanTypes DEF ExecInv, ExecTypeOK
<1>3. ExecTypeOK'
  BY <1>1, <1>2 DEF ExecTypeOK, ExecInv, ExecPCs
<1>4. CallOfAction' /\ LookedAt' /\ Running' /\ SignalsOnlyCheckedOrNewer'
  BY <1>1 DEF ExecInv, CallOfAction, LookedAt, Running, SignalsOnlyCheckedOrNewer
<1>5. SuccessMeansDead'
  <2> SUFFICES ASSUME NEW i \in DOMAIN outcomes', plan[i].call.kind = "Kill", outcomes'[i] = "ok"
               PROVE  proc[plan[i].call.pid].inc > plan[i].call.inc \/ Exited(plan[i].call.pid)
    BY <1>1 DEF SuccessMeansDead, Exited
  <2>1. CASE i \in DOMAIN outcomes
    BY <1>1, <1>2, <2>1 DEF ExecInv, SuccessMeansDead
  <2>2. CASE i = idx
    <3>1. status = "ok" /\ plan[i] = action
      BY <1>1, <1>2, <2>2 DEF action
    <3> QED BY <3>1 DEF target
  <2> QED BY <1>1, <1>2, <2>1, <2>2
<1> QED BY <1>3, <1>4, <1>5 DEF ExecInv

(* Steps that only move the executor on.                                     *)
LEMMA LoopSteps ==
  ASSUME ExecInv, TypeOK', Acquire \/ PlanDone
  PROVE  ExecInv'
<1>1. UNCHANGED <<plan, idx, outcomes, clock, proc, me, call, rpc, waited, result, seen, hits>>
      /\ epc' \in {"next", "refused", "done"}
  BY DEF Acquire, PlanDone, tableVars, runnerVars
<1> QED BY <1>1 DEF ExecInv, ExecTypeOK, ExecPCs, CallOfAction, action, LookedAt, Running,
      SignalsOnlyCheckedOrNewer, SuccessMeansDead, Exited

(* The machine goes on.                                                      *)
LEMMA MachineStep ==
  ASSUME ExecInv, TypeOK', TableNext, UNCHANGED runnerVars, UNCHANGED execVars
  PROVE  ExecInv'
<1>0. TypeOK /\ TableTypeOK /\ call.pid \in Pids /\ target = proc[call.pid]
  BY DEF ExecInv, ExecTypeOK, TypeOK, Calls, target
<1>1. ExecTypeOK' /\ CallOfAction' /\ SignalsOnlyCheckedOrNewer'
  BY DEF ExecInv, ExecTypeOK, CallOfAction, action, SignalsOnlyCheckedOrNewer, runnerVars, execVars, IdsMatch
<1>2. target' = proc'[call.pid]
  BY DEF target, runnerVars
<1>3. ASSUME NEW b \in BOOLEAN, Seen(b) PROVE Seen(b)'
  <2>1. target.inc \in Nat /\ seen \in Nat /\ seen' = seen /\ call' = call
    BY <1>0 DEF TypeOK, TableTypeOK, ProcRecord, runnerVars
  <2>2. \/ target'.inc = target.inc /\ target'.start = target.start /\ target'.uid = target.uid
        \/ target'.inc = target.inc + 1
    BY <1>0, <1>2, OccupantKeeps
  <2> QED BY <1>3, <2>1, <2>2 DEF Seen, IdsMatch
<1>4. LookedAt'
  BY <1>3 DEF ExecInv, LookedAt, runnerVars, execVars
<1>5. Running'
  BY EnvironmentInv DEF Environment, ExecInv, Running, runnerVars, execVars
<1>6. SuccessMeansDead'
  BY <1>0, EnvironmentSlot, DeathsStay DEF execVars
<1> QED BY <1>1, <1>4, <1>5, <1>6 DEF ExecInv

(* The next action is taken up, or was blocked by the plan.                  *)
LEMMA StartStep ==
  ASSUME ExecInv, TypeOK', StartAction
  PROVE  ExecInv'
<1>1. CASE action.blocked /\ Record("skipped") /\ UNCHANGED call
  BY <1>1, Recorded DEF StartAction, tableVars, Statuses
<1>2. CASE epc' = "start_id" /\ call' = action.call /\ UNCHANGED <<plan, idx, outcomes>>
  <2>1. UNCHANGED <<clock, proc>> /\ idx <= Len(plan)
    BY DEF StartAction, tableVars
  <2>2. action' = action
    BY <1>2 DEF action
  <2> QED BY <1>2, <2>1, <2>2 DEF ExecInv, ExecTypeOK, ExecPCs, CallOfAction, LookedAt, Running,
        SignalsOnlyCheckedOrNewer, SuccessMeansDead, Exited
<1> QED BY <1>1, <1>2 DEF StartAction

(* The checks of identity, and the gates.                                    *)
LEMMA CheckSteps ==
  ASSUME ExecInv, TypeOK', CheckStartId \/ CheckUid \/ RunPreChecks
  PROVE  ExecInv'
<1>0. /\ TypeOK /\ call = action.call /\ idx <= Len(plan) /\ UNCHANGED <<clock, proc, me, call>>
      /\ call.pid \in Pids /\ target' = target
  BY DEF ExecInv, ExecTypeOK, TypeOK, Calls, CallOfAction, CheckStartId, CheckUid, RunPreChecks, tableVars,
    runnerVars, target
<1>1. ASSUME NEW status \in {"mismatch", "precheck_blocked"}, Record(status) PROVE ExecInv'
  BY <1>0, <1>1, Recorded DEF Statuses, Results
<1>2. ASSUME UNCHANGED <<plan, idx, outcomes>>, epc' \in {"uid", "prechecks", "run"}
      PROVE  ExecTypeOK' /\ CallOfAction' /\ SuccessMeansDead'
  BY <1>0, <1>2 DEF ExecInv, ExecTypeOK, ExecPCs, CallOfAction, action, SuccessMeansDead, Exited
<1>3. CASE CheckStartId
  <2>1. CASE /\ IdsMatch(call.start, target.start) /\ epc' = "uid" /\ seen' = target.inc
             /\ UNCHANGED <<plan, idx, outcomes>>
    <3>1. target.inc \in Nat
      BY <1>0 DEF TypeOK, TableTypeOK, ProcRecord, target
    <3> QED BY <1>0, <1>2, <2>1, <3>1 DEF ExecInv, LookedAt, Seen, IdsMatch, Running, SignalsOnlyCheckedOrNewer
  <2> QED BY <1>1, <1>3, <2>1 DEF CheckStartId
<1>4. CASE CheckUid
  <2>1. CASE target.uid = call.uid /\ epc' = "prechecks" /\ UNCHANGED <<plan, idx, outcomes>>
    <3>1. Seen(FALSE) /\ UNCHANGED <<seen, rpc>>
      BY <1>4 DEF CheckUid, ExecInv, LookedAt, runnerVars
    <3> QED BY <1>0, <1>2, <2>1, <3>1 DEF ExecInv, LookedAt, Seen, IdsMatch, Running, SignalsOnlyCheckedOrNewer
  <2> QED BY <1>1, <1>4, <2>1 DEF CheckUid
<1>5. CASE RunPreChecks
  <2>1. CASE /\ epc' = "run" /\ rpc' = "exec" /\ waited' = 0 /\ result' = "none" /\ hits' = {}
             /\ UNCHANGED <<plan, idx, outcomes>>
    <3>1. Seen(TRUE) /\ UNCHANGED seen
      BY <1>5 DEF RunPreChecks, ExecInv, LookedAt
    <3>2. call.inc = 1
      <4>1. idx \in 1..Len(plan)
        BY <1>0, PlanTypes DEF ExecInv, ExecTypeOK
      <4>2. idx \in DOMAIN plan
        BY <4>1, PlanTypes DEF ExecInv
      <4> QED BY <1>0, <4>2 DEF ExecInv, CallOfAction, action
    <3>3. target.inc >= call.inc
      BY <1>0, <3>2 DEF TypeOK, TableTypeOK, ProcRecord, target
    <3>4. Inv'
      BY <1>0, <2>1, <3>3 DEF Inv, Checked, Termed, KillsOnlyCheckedOrNewer, StagedEscalation,
        KillOkMeansDoomed, VerifiedKillMeansDead
    <3> QED BY <1>0, <1>2, <2>1, <3>1, <3>4 DEF ExecInv, LookedAt, Seen, IdsMatch, Running, SignalsOnlyCheckedOrNewer
  <2> QED BY <1>1, <1>5, <2>1 DEF RunPreChecks
<1> QED BY <1>3, <1>4, <1>5

(* The runner goes on with the action, and its result is recorded.           *)
LEMMA RunSteps ==
  ASSUME ExecInv, TypeOK', RunAction \/ FinishAction
  PROVE  ExecInv'
<1>0. TypeOK /\ Inv /\ epc = "run" /\ call = action.call /\ idx <= Len(plan)
  BY DEF ExecInv, CallOfAction, Running, RunAction, FinishAction, Inv
<1>1. CASE RunAction
  <2>1. UNCHANGED <<plan, idx, epc, outcomes, call>> /\ RunnerStep
    BY <1>0, <1>1, RunnerSlot DEF RunAction, execVars
  <2>2. Inv'
    BY <1>0, <2>1, RunnerInv
  <2>3. rpc' # "exec" /\ (rpc' \in {"executed", "verify", "verified"} => result' # "none")
    BY <1>0, <2>1, RunnerReturns DEF ExecInv, Running
  <2>4. SignalsOnlyCheckedOrNewer'
    BY <1>0, <2>1, <2>2, RunnerHits DEF ExecInv, LookedAt, SignalsOnlyCheckedOrNewer
  <2>5. SuccessMeansDead'
    BY <1>0, <2>1, RunnerSlot, DeathsStay
  <2> QED BY <1>0, <2>1, <2>2, <2>3, <2>4, <2>5 DEF ExecInv, ExecTypeOK, CallOfAction, action, LookedAt, Running
<1>2. CASE FinishAction
  <2>1. Record(result) /\ UNCHANGED <<proc, call>> /\ result \in Statuses
    BY <1>0, <1>2 DEF FinishAction, tableVars, runnerVars, ExecInv, Running, TypeOK, Statuses
  <2>2. result = "ok" /\ call.kind = "Kill" => target.inc > call.inc \/ Exited(call.pid)
    BY <1>0, <1>2 DEF FinishAction, Inv, VerifiedKillMeansDead
  <2> QED BY <1>0, <2>1, <2>2, Recorded
<1> QED BY <1>1, <1>2

(* Every step keeps the types of what the runner works on.                   *)
LEMMA ExecTypes ==
  ASSUME ExecInv, [ExecNext]_allVars
  PROVE  TypeOK'
<1>0. TypeOK
  BY DEF ExecInv, ExecTypeOK
<1>1. CASE RunAction \/ (TableNext /\ UNCHANGED runnerVars) \/ UNCHANGED allVars
  BY <1>0, <1>1, TypeStep DEF RunAction, Next, Environment, allVars, vars
<1>2. CASE Acquire \/ PlanDone \/ CheckUid \/ FinishAction
  BY <1>0, <1>2 DEF Acquire, PlanDone, CheckUid, FinishAction, tableVars, runnerVars, TypeOK, TableTypeOK
<1>3. CASE StartAction
  <2>1. call' \in Calls
    <3>1. idx \in 1..Len(plan)
      BY <1>3, PlanTypes DEF StartAction, ExecInv, ExecTypeOK
    <3> QED BY <1>0, <1>3, <3>1, PlanTypes DEF StartAction, ExecInv, action, TypeOK
  <2> QED BY <1>0, <1>3, <2>1 DEF StartAction, tableVars, TypeOK, TableTypeOK
<1>4. CASE CheckStartId
  <2>1. target.inc \in 1..MaxInc
    BY <1>0 DEF TypeOK, TableTypeOK, ProcRecord, target, Calls
  <2> QED BY <1>0, <1>4, <2>1 DEF CheckStartId, tableVars, TypeOK, TableTypeOK
<1>5. CASE RunPreChecks
  BY <1>0, <1>5, TimingAssumption DEF RunPreChecks, tableVars, TypeOK, TableTypeOK, RunnerPCs, Results
<1> QED BY <1>1, <1>2, <1>3, <1>4, <1>5 DEF ExecNext, ExecutorStep

(* Every step keeps the invariant.                                           *)
LEMMA ExecStep == ExecInv /\ [ExecNext]_allVars => ExecInv'
<1> SUFFICES ASSUME ExecInv, [ExecNext]_allVars PROVE ExecInv'
  OBVIOUS
<1>0. TypeOK'
  BY ExecTypes
<1>1. CASE UNCHANGED allVars
  BY <1>1 DEF allVars, ExecInv, ExecTypeOK, TypeOK, TableTypeOK, CallOfAction, action, LookedAt, Seen, IdsMatch,
    target, Running, Inv, Checked, Termed, KillsOnlyCheckedOrNewer, StagedEscalation, KillOkMeansDoomed,
    VerifiedKillMeansDead, Doomed, Exists, Exited, SignalsOnlyCheckedOrNewer, SuccessMeansDead
<1> QED BY <1>0, <1>1, LoopSteps, MachineStep, StartStep, CheckSteps, RunSteps DEF ExecNext, ExecutorStep

(* The executor starts with nothing done.                                    *)
LEMMA ExecStarts == ExecInit => ExecInv
<1> SUFFICES ASSUME ExecInit PROVE ExecInv
  OBVIOUS
<1>1. TypeOK
  BY BoundsAssumption, TimingAssumption, KindsAssumption, RootAssumption
  DEF ExecInit, TypeOK, TableInit, TableTypeOK, ProcRecord, ProcStates, Pending, RunnerPCs, Results, Hits
<1>2. plan \in Seq(PlanActions)
  BY PlansAssumption DEF ExecInit
<1>3. ExecTypeOK
  BY <1>1, <1>2 DEF ExecInit, ExecTypeOK, ExecPCs
<1> QED BY <1>3 DEF ExecInit, ExecInv, CallOfAction, LookedAt, Running, SignalsOnlyCheckedOrNewer, SuccessMeansDead

(* Whatever plan is executed, the records and statuses are typed, one status *)
(* for each action that is through.                                          *)
THEOREM ExecTypeCorrect == ExecSpec => []ExecTypeOK
<1>1. ExecInv => ExecTypeOK
  BY DEF ExecInv
<1> QED BY <1>1, ExecStarts, ExecStep, PTL DEF ExecSpec

(* Whatever the plan, the tolerance and the machine: the signals of an       *)
(* action reach its target, a process that start time and uid do not tell    *)
(* apart, or one that took the pid after the last look.                      *)
THEOREM SignalsTheChecked == ExecSpec => []SignalsOnlyCheckedOrNewer
<1>1. ExecInv => SignalsOnlyCheckedOrNewer
  BY DEF ExecInv
<1> QED BY <1>1, ExecStarts, ExecStep, PTL DEF ExecSpec

(* A kill recorded as done is of a process that is gone, and stays so.       *)
THEOREM SuccessIsDeath == ExecSpec => []SuccessMeansDead
<1>1. ExecInv => SuccessMeansDead
  BY DEF ExecInv
<1> QED BY <1>1, ExecStarts, ExecStep, PTL DEF ExecSpec
=============================================================================
