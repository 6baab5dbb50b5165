--------------------------- MODULE AgentApplyProofs ---------------------------
(* Theorems about AgentApply, for every set of agents, plan and limit.       *)
EXTENDS AgentApply, FiniteSetTheorems, SequenceTheorems, TLAPS

(* Ids are the positions of the plan. *)
LEMMA PlanTyped == Ids \subseteq Nat /\ \A i \in Ids : Plan[i] \in PlanActions
<1>1. Plan \in Seq(PlanActions)
  BY PlanAssumption
<1> QED BY <1>1 DEF Ids

(* What the appending of an element does to a sequence. *)
LEMMA AppendElements ==
  ASSUME NEW S, NEW s \in Seq(S), NEW e \in S
  PROVE  /\ Append(s, e) \in Seq(S)
         /\ DOMAIN Append(s, e) = DOMAIN s \cup {Len(s) + 1}
         /\ Len(s) + 1 \notin DOMAIN s
         /\ Append(s, e)[Len(s) + 1] = e
         /\ \A i \in DOMAIN s : Append(s, e)[i] = s[i]
  OBVIOUS

(* The effect of finishing with an action. *)
LEMMA PushType ==
  ASSUME TypeOK, NEW ag \in Agents, NEW id \in Current(ag), NEW status \in Statuses,
         Push(ag, id, status)
  PROVE  buf' \in [Agents -> Seq(Outcomes)] /\ todo' \in [Agents -> SUBSET Ids]
<1>1. /\ buf \in [Agents -> Seq(Outcomes)] /\ todo \in [Agents -> SUBSET Ids]
      /\ id \in Ids
  BY DEF TypeOK, Current
<1>2. [id |-> id, status |-> status] \in Outcomes
  BY <1>1 DEF Outcomes
<1>3. Append(buf[ag], [id |-> id, status |-> status]) \in Seq(Outcomes)
  BY <1>1, <1>2, AppendElements
<1> QED BY <1>1, <1>3 DEF Push

(* The process table stays well-typed. *)
LEMMA MachineType ==
  ASSUME TypeOK, MachineStep PROVE boot' \in Boots /\ proc' \in [Pids -> Slots]
<1>1. PICK p \in Pids : Die(p) \/ Reuse(p)
  BY DEF MachineStep
<1>2. CASE Die(p)
  BY <1>2 DEF Die, TypeOK, Slots
<1>3. CASE Reuse(p)
  BY <1>3 DEF Reuse, TypeOK, Slots
<1> QED BY <1>1, <1>2, <1>3

(* Every variable keeps its type, whatever the plan, the command lines and   *)
(* the faults (run_agent_apply).                                             *)
THEOREM TypeCorrect == Spec => []TypeOK
<1>1. Init => TypeOK
  <2> SUFFICES ASSUME Init PROVE TypeOK
    OBVIOUS
  <2>1. (CHOOSE o \in Invocations : TRUE) \in Invocations
    BY InvocationAssumption
  <2>2. 0 \in Boots /\ 0 \in 0..MaxRuns
    BY LimitAssumption DEF Boots
  <2>3. proc \in [Pids -> Slots]
    BY <2>2 DEF Init, Slots
  <2>4. /\ file \in Seq(Outcomes)
        /\ todo \in [Agents -> SUBSET Ids] /\ buf \in [Agents -> Seq(Outcomes)]
        /\ written \in [Agents -> Nat] /\ kills \in [Agents -> Nat]
        /\ blast \in [Agents -> Nat]
    BY DEF Init
  <2>5. opt \in [Agents -> Invocations]
    BY <2>1 DEF Init
  <2> QED BY <2>2, <2>3, <2>4, <2>5
          DEF Init, TypeOK, SessionStates, PCs, Running
<1>2. TypeOK /\ [Next]_vars => TypeOK'
  <2> SUFFICES ASSUME TypeOK, [Next]_vars PROVE TypeOK'
    OBVIOUS
  <2> USE DEF diskVars, machineVars, historyVars, PCs, Running
  <2>1. CASE UNCHANGED vars
    BY <2>1 DEF vars, TypeOK
  <2>2. CASE MachineStep
    BY <2>2, MachineType DEF MachineStep, agentVars, TypeOK
  <2>3. CASE Reboot
    <3>1. boot' \in Boots /\ proc' \in [Pids -> Slots]
      BY <2>3, LimitAssumption DEF Reboot, TypeOK, Boots, Slots
    <3>2. /\ todo' \in [Agents -> SUBSET Ids] /\ buf' \in [Agents -> Seq(Outcomes)]
      BY <2>3 DEF Reboot
    <3> QED BY <2>3, <3>1, <3>2 DEF Reboot, TypeOK
  <2>4. ASSUME NEW ag \in Agents, Leave(ag)
        PROVE  /\ pc' \in [Agents -> PCs] /\ opt' \in [Agents -> Invocations]
               /\ todo' \in [Agents -> SUBSET Ids] /\ buf' \in [Agents -> Seq(Outcomes)]
               /\ written' \in [Agents -> Nat] /\ kills' \in [Agents -> Nat]
               /\ blast' \in [Agents -> Nat] /\ lock' \in Agents \cup {NoAgent}
    <3>1. <<>> \in Seq(Outcomes)
      OBVIOUS
    <3> QED BY <2>4, <3>1 DEF Leave, Release, TypeOK
  <2>5. ASSUME NEW ag \in Agents, Invoke(ag) PROVE TypeOK'
    BY <2>5, LimitAssumption DEF Invoke, TypeOK
  <2>6. ASSUME NEW ag \in Agents, AcquireLock(ag) PROVE TypeOK'
    <3>1. CASE lock # NoAgent /\ Leave(ag)
      BY <2>4, <2>6, <3>1 DEF AcquireLock, TypeOK
    <3>2. CASE ~(lock # NoAgent /\ Leave(ag))
      BY <2>6, <3>2 DEF AcquireLock, TypeOK
    <3> QED BY <3>1, <3>2
  <2>7. ASSUME NEW ag \in Agents, LoadPlan(ag) PROVE TypeOK'
    <3>1. Selected(opt[ag]) \subseteq Ids
      BY DEF Selected
    <3>2. CASE Leave(ag) /\ UNCHANGED <<session, cut>>
      BY <2>4, <2>7, <3>2 DEF LoadPlan, TypeOK
    <3>3. CASE ~(Leave(ag) /\ UNCHANGED <<session, cut>>)
      <4>1. /\ todo' = [todo EXCEPT ![ag] = Selected(opt[ag])]
            /\ pc' = [pc EXCEPT ![ag] = "loop"]
            /\ session' \in {"Executing", session}
            /\ UNCHANGED <<lock, opt, buf, written, kills, blast, cut>>
        BY <2>7, <3>3 DEF LoadPlan
      <4> QED BY <2>7, <3>1, <4>1 DEF LoadPlan, TypeOK, SessionStates
    <3> QED BY <3>2, <3>3
  <2>8. ASSUME NEW ag \in Agents, Consider(ag) PROVE TypeOK'
    <3>0. PICK id \in Current(ag) : \E verdict \in Verdicts(ag, Plan[id]) :
            \/ /\ verdict = "go"
               /\ pc' = [pc EXCEPT ![ag] = "exec"] /\ UNCHANGED <<buf, todo>>
            \/ /\ verdict # "go" /\ Push(ag, id, verdict) /\ UNCHANGED pc
      BY <2>8 DEF Consider
    <3>1. PICK verdict \in Verdicts(ag, Plan[id]) :
            \/ /\ verdict = "go"
               /\ pc' = [pc EXCEPT ![ag] = "exec"] /\ UNCHANGED <<buf, todo>>
            \/ /\ verdict # "go" /\ Push(ag, id, verdict) /\ UNCHANGED pc
      BY <3>0
    <3>2. verdict # "go" => verdict \in Statuses
      BY <3>1 DEF Verdicts, Statuses, FailureStatuses, BlockedStatuses
    <3>3. /\ buf' \in [Agents -> Seq(Outcomes)] /\ todo' \in [Agents -> SUBSET Ids]
          /\ pc' \in [Agents -> PCs]
      BY <3>1, <3>2, PushType DEF TypeOK
    <3> QED BY <2>8, <3>3 DEF Consider, TypeOK
  <2>9. ASSUME NEW ag \in Agents, ExecuteOk(ag) PROVE TypeOK'
    <3>1. PICK id \in Current(ag) :
            /\ \E s \in Aftermath(Plan[id].kind, proc[Plan[id].pid]) :
                 proc' = [proc EXCEPT ![Plan[id].pid] = s]
            /\ IF Plan[id].kind = "Kill" THEN RecordAction(ag, 0, TRUE)
                                        ELSE UNCHANGED <<kills, blast>>
            /\ acted' = [acted EXCEPT ![id] = @ + 1]
            /\ struck' = struck \cup {[id |-> id, slot |-> proc[Plan[id].pid], by |-> opt[ag]]}
            /\ Push(ag, id, "success")
      BY <2>9 DEF ExecuteOk
    <3>2. id \in Ids /\ Plan[id] \in PlanActions
      BY PlanTyped DEF Current, TypeOK
    <3>3. proc[Plan[id].pid] \in Slots
      BY <3>2 DEF TypeOK, PlanActions
    <3>4. proc' \in [Pids -> Slots]
      <4>1. PICK s \in Aftermath(Plan[id].kind, proc[Plan[id].pid]) :
              proc' = [proc EXCEPT ![Plan[id].pid] = s]
        BY <3>1
      <4>2. s \in Slots
        BY <3>3 DEF Aftermath, Slots
      <4> QED BY <4>1, <4>2 DEF TypeOK
    <3>5. kills' \in [Agents -> Nat] /\ blast' \in [Agents -> Nat]
      <4>1. CASE Plan[id].kind = "Kill"
        <5>1. kills' = [kills EXCEPT ![ag] = @ + 1] /\ blast' = [blast EXCEPT ![ag] = @ + 0]
          BY <3>1, <4>1 DEF RecordAction
        <5> QED BY <5>1 DEF TypeOK
      <4>2. CASE Plan[id].kind # "Kill"
        BY <3>1, <4>2 DEF TypeOK
      <4> QED BY <4>1, <4>2
    <3>6. acted' \in [Ids -> Nat]
      BY <3>1, <3>2 DEF TypeOK
    <3>7. struck' \subseteq [id: Ids, slot: Slots, by: Invocations]
      BY <3>1, <3>2, <3>3 DEF TypeOK
    <3>8. /\ buf' \in [Agents -> Seq(Outcomes)] /\ todo' \in [Agents -> SUBSET Ids]
      BY <3>1, PushType DEF Statuses
    <3> QED BY <2>9, <3>4, <3>5, <3>6, <3>7, <3>8 DEF ExecuteOk, TypeOK
  <2>10. ASSUME NEW ag \in Agents, ExecuteErr(ag) PROVE TypeOK'
    <3>1. PICK id \in Current(ag) :
            /\ \/ UNCHANGED proc
               \/ proc' = [proc EXCEPT ![Plan[id].pid].st = "gone"]
            /\ Push(ag, id, "failed")
      BY <2>10 DEF ExecuteErr
    <3>2. proc' \in [Pids -> Slots]
      <4>1. \A r \in Slots : [r EXCEPT !.st = "gone"] \in Slots
        BY DEF Slots
      <4>2. proc \in [Pids -> Slots]
        BY DEF TypeOK
      <4>3. ASSUME NEW p, proc' = [proc EXCEPT ![p] = [proc[p] EXCEPT !.st = "gone"]]
            PROVE  proc' \in [Pids -> Slots]
        <5>1. CASE p \in Pids
          BY <4>1, <4>2, <4>3, <5>1
        <5>2. CASE p \notin Pids
          BY <4>2, <4>3, <5>2
        <5> QED BY <5>1, <5>2
      <4> QED BY <3>1, <4>2, <4>3
    <3>3. /\ buf' \in [Agents -> Seq(Outcomes)] /\ todo' \in [Agents -> SUBSET Ids]
      BY <3>1, PushType DEF Statuses, FailureStatuses
    <3> QED BY <2>10, <3>2, <3>3 DEF ExecuteErr, TypeOK
  <2>11. ASSUME NEW ag \in Agents, OpenOutcomes(ag) PROVE TypeOK'
    BY <2>11 DEF OpenOutcomes, TypeOK
  <2>12. ASSUME NEW ag \in Agents, WriteOutcome(ag) PROVE TypeOK'
    <3>1. buf[ag][written[ag] + 1] \in Outcomes
      BY <2>12 DEF WriteOutcome, TypeOK
    <3>2. file' \in Seq(Outcomes)
      <4>1. Append(file, buf[ag][written[ag] + 1]) \in Seq(Outcomes)
        BY <3>1, AppendElements DEF TypeOK
      <4>2. file' = Append(file, buf[ag][written[ag] + 1]) \/ file' = file
        BY <2>12 DEF WriteOutcome
      <4>3. file \in Seq(Outcomes)
        BY DEF TypeOK
      <4> QED BY <4>1, <4>2, <4>3
    <3>3. written' \in [Agents -> Nat]
      BY <2>12 DEF WriteOutcome, TypeOK
    <3> QED BY <2>12, <3>2, <3>3 DEF WriteOutcome, TypeOK
  <2>13. ASSUME NEW ag \in Agents, AllWritten(ag) PROVE TypeOK'
    BY <2>13 DEF AllWritten, TypeOK
  <2>14. ASSUME NEW ag \in Agents, CloseSession(ag) PROVE TypeOK'
    BY <2>4, <2>14 DEF CloseSession, TypeOK, FinalState, SessionStates
  <2>15. ASSUME NEW ag \in Agents, Crash(ag) PROVE TypeOK'
    BY <2>4, <2>15 DEF Crash, TypeOK
  <2> QED BY <2>1, <2>2, <2>3, <2>5, <2>6, <2>7, <2>8, <2>9, <2>10, <2>11, <2>12,
             <2>13, <2>14, <2>15 DEF Next, AgentStep
<1> QED BY <1>1, <1>2, PTL DEF Spec
----------------------------------------------------------------------------
(* The positions of successful kills among the outcomes are finitely many,   *)
(* and finishing with an action adds one exactly when it is such a kill.     *)
LEMMA KillsFinite ==
  ASSUME TypeOK, NEW ag \in Agents
  PROVE  IsFiniteSet(KillsThisRun(ag)) /\ Cardinality(KillsThisRun(ag)) \in Nat
<1>1. KillsThisRun(ag) \subseteq 1..Len(buf[ag])
  BY DEF KillsThisRun, TypeOK
<1>2. IsFiniteSet(1..Len(buf[ag]))
  BY FS_Interval DEF TypeOK
<1> QED BY <1>1, <1>2, FS_Subset, FS_CardinalityType

(* A finished action adds to the kills of the run what its outcome says. *)
LEMMA KillsPush ==
  ASSUME TypeOK, NEW ag \in Agents, NEW id \in Current(ag), NEW status \in Statuses,
         Push(ag, id, status)
  PROVE  /\ \A b \in Agents \ {ag} : KillsThisRun(b)' = KillsThisRun(b)
         /\ Cardinality(KillsThisRun(ag)') =
              IF status = "success" /\ Plan[id].kind = "Kill"
              THEN Cardinality(KillsThisRun(ag)) + 1 ELSE Cardinality(KillsThisRun(ag))
<1> DEFINE e == [id |-> id, status |-> status]
<1>1. /\ buf \in [Agents -> Seq(Outcomes)] /\ buf[ag] \in Seq(Outcomes)
      /\ id \in Ids /\ e \in Outcomes
  BY DEF TypeOK, Current, Outcomes
<1>2. buf' = [buf EXCEPT ![ag] = Append(buf[ag], e)]
  BY DEF Push
<1>3. buf'[ag] = Append(buf[ag], e) /\ \A b \in Agents \ {ag} : buf'[b] = buf[b]
  BY <1>1, <1>2
<1>4. /\ DOMAIN buf'[ag] = DOMAIN buf[ag] \cup {Len(buf[ag]) + 1}
      /\ Len(buf[ag]) + 1 \notin DOMAIN buf[ag]
      /\ buf'[ag][Len(buf[ag]) + 1] = e
      /\ \A i \in DOMAIN buf[ag] : buf'[ag][i] = buf[ag][i]
  <2> HIDE DEF e
  <2> QED BY <1>1, <1>3, AppendElements
<1>5. \A b \in Agents \ {ag} : KillsThisRun(b)' = KillsThisRun(b)
  BY <1>3 DEF KillsThisRun
<1>6. KillsThisRun(ag) \subseteq DOMAIN buf[ag]
  BY DEF KillsThisRun
<1>7. CASE status = "success" /\ Plan[id].kind = "Kill"
  <2>1. KillsThisRun(ag)' = KillsThisRun(ag) \cup {Len(buf[ag]) + 1}
    BY <1>4, <1>7 DEF KillsThisRun
  <2>2. Len(buf[ag]) + 1 \notin KillsThisRun(ag)
    BY <1>4, <1>6
  <2>3. IsFiniteSet(KillsThisRun(ag))
    BY KillsFinite
  <2>4. Cardinality(KillsThisRun(ag) \cup {Len(buf[ag]) + 1}) = Cardinality(KillsThisRun(ag)) + 1
    BY <2>2, <2>3, FS_AddElement
  <2>5. Cardinality(KillsThisRun(ag)') = Cardinality(KillsThisRun(ag)) + 1
    BY <2>1, <2>4
  <2> QED BY <1>5, <1>7, <2>5
<1>8. CASE ~(status = "success" /\ Plan[id].kind = "Kill")
  <2>1. KillsThisRun(ag)' = KillsThisRun(ag)
    BY <1>4, <1>8 DEF KillsThisRun
  <2> QED BY <1>5, <1>8, <2>1
<1> QED BY <1>7, <1>8

(* Finishing with an action keeps the outcomes truthful, if a success is.    *)
LEMMA TruthfulPush ==
  ASSUME TypeOK, TypeOK', NEW ag \in Agents, NEW id \in Current(ag), NEW status \in Statuses,
         Push(ag, id, status),
         \A i \in Ids : acted'[i] >= acted[i],
         status = "success" => acted'[id] >= 1,
         \A b \in Agents : Truthful(buf[b])
  PROVE  \A b \in Agents : Truthful(buf[b])'
<1> DEFINE e == [id |-> id, status |-> status]
<1>1. /\ buf \in [Agents -> Seq(Outcomes)] /\ buf[ag] \in Seq(Outcomes)
      /\ id \in Ids /\ e \in Outcomes /\ acted \in [Ids -> Nat] /\ acted' \in [Ids -> Nat]
  BY DEF TypeOK, Current, Outcomes
<1>2. buf'[ag] = Append(buf[ag], e) /\ \A b \in Agents \ {ag} : buf'[b] = buf[b]
  BY <1>1 DEF Push
<1>3. \A b \in Agents : \A i \in DOMAIN buf[b] : buf[b][i].id \in Ids
  <2>1. \A q \in Seq(Outcomes) : \A i \in DOMAIN q : q[i] \in Outcomes
    OBVIOUS
  <2>2. \A o \in Outcomes : o.id \in Ids
    BY DEF Outcomes
  <2> QED BY <1>1, <2>1, <2>2
<1>4. ASSUME NEW b \in Agents \ {ag} PROVE Truthful(buf[b])'
  <2>1. \A i \in DOMAIN buf[b] : buf[b][i].status = "success" => acted[buf[b][i].id] >= 1
    BY DEF Truthful
  <2>2. \A i \in DOMAIN buf[b] : buf[b][i].status = "success" => acted'[buf[b][i].id] >= 1
    BY <1>1, <1>3, <2>1
  <2> QED BY <1>2, <2>2 DEF Truthful
<1>5. Truthful(buf[ag])'
  <2>1. /\ DOMAIN buf'[ag] = DOMAIN buf[ag] \cup {Len(buf[ag]) + 1}
        /\ buf'[ag][Len(buf[ag]) + 1] = e
        /\ \A i \in DOMAIN buf[ag] : buf'[ag][i] = buf[ag][i]
    <3> HIDE DEF e
    <3> QED BY <1>1, <1>2, AppendElements
  <2>2. ASSUME NEW i \in DOMAIN buf'[ag], buf'[ag][i].status = "success"
        PROVE  acted'[buf'[ag][i].id] >= 1
    <3>1. CASE i \in DOMAIN buf[ag]
      BY <1>1, <1>3, <2>1, <2>2, <3>1 DEF Truthful
    <3>2. CASE i = Len(buf[ag]) + 1
      BY <2>1, <2>2, <3>2
    <3> QED BY <2>1, <3>1, <3>2
  <2> QED BY <2>2 DEF Truthful
<1> QED BY <1>4, <1>5

(* An invocation that ends takes nothing from the invariant with it.         *)
LEMMA LeaveInv ==
  ASSUME Inv, TypeOK', NEW ag \in Agents, Leave(ag), UNCHANGED <<file, acted, struck>>
  PROVE  Inv'
<1> USE DEF PCs, Running
<1>1. /\ TypeOK /\ pc' = [pc EXCEPT ![ag] = "idle"] /\ UNCHANGED opt
      /\ todo' = [todo EXCEPT ![ag] = {}] /\ buf' = [buf EXCEPT ![ag] = <<>>]
      /\ kills' = [kills EXCEPT ![ag] = 0] /\ blast' = [blast EXCEPT ![ag] = 0]
      /\ lock' = IF lock = ag THEN NoAgent ELSE lock
  BY DEF Inv, Leave, Release
<1>2. /\ pc'[ag] = "idle" /\ buf'[ag] = <<>> /\ kills'[ag] = 0
      /\ \A b \in Agents \ {ag} :
           /\ pc'[b] = pc[b] /\ todo'[b] = todo[b] /\ buf'[b] = buf[b]
           /\ kills'[b] = kills[b] /\ blast'[b] = blast[b]
  BY <1>1 DEF TypeOK
<1>3. LockHeld'
  BY <1>1, <1>2, AgentAssumption DEF Inv, LockHeld, Holding
<1>4. Gated'
  BY <1>1, <1>2 DEF Inv, Gated, Current, Allowed
<1>5. Truthful(file)' /\ \A b \in Agents : Truthful(buf[b])'
  <2>1. Truthful(buf[ag])'
    BY <1>2 DEF Truthful
  <2> QED BY <1>2, <2>1 DEF Inv, Truthful
<1>6. Counted'
  <2>1. ASSUME NEW b \in Agents \ {ag}
        PROVE  kills'[b] = Cardinality(KillsThisRun(b)') /\ kills'[b] <= MaxKills
    BY <1>2 DEF Inv, Counted, KillsThisRun
  <2>2. KillsThisRun(ag)' = {}
    BY <1>2 DEF KillsThisRun
  <2>3. kills'[ag] = Cardinality(KillsThisRun(ag)') /\ kills'[ag] <= MaxKills
    BY <1>2, <2>2, FS_EmptySet, LimitAssumption
  <2> QED BY <2>1, <2>3 DEF Counted
<1>7. Unrecorded'
  BY <1>1, <1>2 DEF Inv, Unrecorded, Recorded
<1>8. OnlyPermittedActed'
  BY DEF Inv, OnlyPermittedActed
<1> QED BY <1>3, <1>4, <1>5, <1>6, <1>7, <1>8 DEF Inv

(* The initial states satisfy the invariant.                                 *)
LEMMA InvInit == Init /\ TypeOK => Inv
<1> SUFFICES ASSUME Init, TypeOK PROVE Inv
  OBVIOUS
<1>1. LockHeld /\ Gated /\ Unrecorded /\ OnlyPermittedActed
  BY AgentAssumption DEF Init, LockHeld, Holding, Running, Gated, Unrecorded, OnlyPermittedActed
<1>2. Truthful(file) /\ \A b \in Agents : Truthful(buf[b])
  BY DEF Init, Truthful
<1>3. \A b \in Agents : KillsThisRun(b) = {}
  BY DEF Init, KillsThisRun
<1>4. Counted
  <2>1. \A b \in Agents : kills[b] = 0
    BY DEF Init
  <2>2. Cardinality({}) = 0 /\ 0 <= MaxKills
    BY FS_EmptySet, LimitAssumption
  <2> QED BY <1>3, <2>1, <2>2 DEF Counted
<1> QED BY <1>1, <1>2, <1>4 DEF Inv

(* Nothing changes for the agents when the machine moves, or when an         *)
(* invocation moves on without touching outcomes and counters.               *)
LEMMA QuietInv ==
  ASSUME Inv, TypeOK', UNCHANGED <<file, acted, struck, buf, kills>>
  PROVE  /\ Truthful(file)' /\ \A b \in Agents : Truthful(buf[b])'
         /\ Counted' /\ OnlyPermittedActed'
  BY DEF Inv, Truthful, Counted, KillsThisRun, OnlyPermittedActed

(* An agent that is past the lock moves on; the others are not.              *)
LEMMA HolderMoves ==
  ASSUME Inv, TypeOK', NEW ag \in Agents, pc[ag] \in Holding, UNCHANGED lock,
         NEW l \in Holding, pc' = [pc EXCEPT ![ag] = l]
  PROVE  /\ LockHeld'
         /\ \A b \in Agents \ {ag} : pc'[b] \in {"idle", "lock"}
         /\ pc'[ag] = l
<1>1. TypeOK /\ LockHeld
  BY DEF Inv
<1>2. pc'[ag] = l /\ \A b \in Agents \ {ag} : pc'[b] = pc[b]
  BY <1>1 DEF TypeOK
<1>3. lock = ag
  BY <1>1 DEF LockHeld
<1>4. \A b \in Agents \ {ag} : pc[b] \notin Holding
  BY <1>1, <1>3 DEF LockHeld
<1>5. \A b \in Agents \ {ag} : pc[b] \in {"idle", "lock"}
  BY <1>1, <1>4 DEF TypeOK, PCs, Holding, Running
<1>6. LockHeld'
  BY <1>2, <1>3, <1>4 DEF LockHeld
<1> QED BY <1>2, <1>5, <1>6

(* The action the loop has come to is the only one of its position.          *)
LEMMA CurrentUnique ==
  ASSUME TypeOK, NEW ag \in Agents, NEW i \in Current(ag), NEW j \in Current(ag)
  PROVE  i = j
<1>1. i \in Nat /\ j \in Nat
  BY PlanTyped DEF Current, TypeOK
<1>2. i <= j /\ j <= i
  BY DEF Current
<1> QED BY <1>1, <1>2

(* Finishing with an action only takes actions off the list of the agent.    *)
LEMMA PushTodo ==
  ASSUME TypeOK, NEW ag \in Agents, NEW id, NEW status, Push(ag, id, status)
  PROVE  todo'[ag] \subseteq todo[ag] /\ \A b \in Agents \ {ag} : todo'[b] = todo[b]
<1>1. todo \in [Agents -> SUBSET Ids]
  BY DEF TypeOK
<1> QED BY <1>1 DEF Push

(* An action is finished with, and the counters are what the checker says:   *)
(* shared by Consider, ExecuteOk and ExecuteErr.                             *)
LEMMA PushInv ==
  ASSUME Inv, TypeOK', NEW ag \in Agents, NEW id \in Current(ag), NEW status \in Statuses,
         pc[ag] \in {"loop", "exec"}, pc' = [pc EXCEPT ![ag] = "loop"],
         Push(ag, id, status), UNCHANGED <<lock, opt, file>>,
         \A i \in Ids : acted'[i] >= acted[i],
         status = "success" => acted'[id] >= 1,
         \A b \in Agents \ {ag} : kills'[b] = kills[b],
         kills'[ag] = IF status = "success" /\ Plan[id].kind = "Kill"
                      THEN kills[ag] + 1 ELSE kills[ag],
         kills'[ag] <= MaxKills, OnlyPermittedActed'
  PROVE  Inv'
<1> USE DEF Holding, Running
<1>1. TypeOK /\ LockHeld /\ Gated /\ Unrecorded /\ Counted
      /\ Truthful(file) /\ \A b \in Agents : Truthful(buf[b])
  BY DEF Inv
<1>2. /\ LockHeld' /\ pc'[ag] = "loop"
      /\ \A b \in Agents \ {ag} : pc'[b] \in {"idle", "lock"}
  BY HolderMoves
<1>3. Gated'
  BY <1>1, <1>2 DEF Gated
<1>4. Unrecorded'
  BY <1>1, <1>2, PushTodo DEF Unrecorded, Recorded
<1>5. Counted'
  <2>1. /\ \A b \in Agents \ {ag} : KillsThisRun(b)' = KillsThisRun(b)
        /\ Cardinality(KillsThisRun(ag)') =
             IF status = "success" /\ Plan[id].kind = "Kill"
             THEN Cardinality(KillsThisRun(ag)) + 1 ELSE Cardinality(KillsThisRun(ag))
    BY <1>1, KillsPush
  <2> QED BY <1>1, <2>1 DEF Counted
<1>6. \A b \in Agents : Truthful(buf[b])'
  BY <1>1, TruthfulPush
<1>7. Truthful(file)'
  <2>1. file \in Seq(Outcomes) /\ acted \in [Ids -> Nat] /\ acted' \in [Ids -> Nat]
    BY <1>1 DEF TypeOK
  <2>2. \A i \in DOMAIN file : file[i] \in Outcomes
    BY <2>1
  <2>3. \A i \in DOMAIN file : file[i].id \in Ids
    BY <2>2 DEF Outcomes
  <2>4. \A i \in DOMAIN file : acted'[file[i].id] >= acted[file[i].id]
    BY <2>3
  <2>5. ASSUME NEW i \in DOMAIN file, file[i].status = "success" PROVE acted'[file[i].id] >= 1
    <3>1. acted[file[i].id] >= 1
      BY <1>1, <2>5 DEF Truthful
    <3> QED BY <2>1, <2>3, <2>4, <3>1
  <2> QED BY <2>5 DEF Truthful
<1> QED BY <1>2, <1>3, <1>4, <1>5, <1>6, <1>7 DEF Inv

(* Every step keeps the invariant, one step of the proof per action.         *)
LEMMA InvStep == Inv /\ TypeOK' /\ [Next]_vars => Inv'
<1> SUFFICES ASSUME Inv, TypeOK', [Next]_vars PROVE Inv'
  OBVIOUS
<1> USE DEF diskVars, machineVars, historyVars
<1>0. TypeOK /\ LockHeld /\ Gated /\ Unrecorded
  BY DEF Inv
<1>1. CASE UNCHANGED vars
  BY <1>1, QuietInv DEF vars, Inv, LockHeld, Gated, Current, Allowed, Unrecorded, Recorded
<1>2. CASE MachineStep
  BY <1>2, QuietInv
     DEF MachineStep, agentVars, Inv, LockHeld, Gated, Current, Allowed, Unrecorded, Recorded
<1>3. CASE Reboot
  <2>1. /\ lock' = NoAgent /\ \A b \in Agents : /\ pc'[b] = "idle" /\ buf'[b] = <<>>
                                               /\ kills'[b] = 0
        /\ UNCHANGED <<file, acted, struck>>
    BY <1>3 DEF Reboot
  <2>2. LockHeld' /\ Gated' /\ Unrecorded' /\ OnlyPermittedActed'
    BY <2>1, AgentAssumption
       DEF Inv, LockHeld, Gated, Unrecorded, OnlyPermittedActed, Holding, Running
  <2>3. Truthful(file)' /\ \A b \in Agents : Truthful(buf[b])'
    BY <2>1 DEF Inv, Truthful
  <2>4. \A b \in Agents : KillsThisRun(b)' = {}
    BY <2>1 DEF KillsThisRun
  <2>5. Counted'
    <3>1. Cardinality({}) = 0 /\ 0 <= MaxKills
      BY FS_EmptySet, LimitAssumption
    <3> QED BY <2>1, <2>4, <3>1 DEF Counted
  <2> QED BY <2>2, <2>3, <2>5 DEF Inv
<1>4. ASSUME NEW ag \in Agents, Invoke(ag) PROVE Inv'
  <2>1. /\ pc[ag] = "idle" /\ pc' = [pc EXCEPT ![ag] = "lock"]
        /\ \A b \in Agents \ {ag} : pc'[b] = pc[b] /\ opt'[b] = opt[b]
        /\ pc'[ag] = "lock"
        /\ UNCHANGED <<lock, todo, buf, kills, blast, file, acted, struck>>
    BY <1>0, <1>4 DEF Invoke, TypeOK
  <2>2. LockHeld'
    BY <1>0, <2>1 DEF LockHeld, Holding, Running
  <2>3. Gated' /\ Unrecorded'
    BY <1>0, <2>1 DEF Gated, Unrecorded, Current, Allowed, Recorded
  <2> QED BY <2>1, <2>2, <2>3, QuietInv DEF Inv
<1>5. ASSUME NEW ag \in Agents, AcquireLock(ag) PROVE Inv'
  <2>1. CASE Leave(ag)
    BY <1>5, <2>1, LeaveInv DEF AcquireLock
  <2>2. CASE ~Leave(ag)
    <3>1. /\ pc[ag] = "lock" /\ lock = NoAgent /\ lock' = ag
          /\ \A b \in Agents \ {ag} : pc'[b] = pc[b]
          /\ pc'[ag] = "load"
          /\ UNCHANGED <<opt, todo, buf, kills, blast, file, acted, struck>>
      BY <1>0, <1>5, <2>2 DEF AcquireLock, TypeOK
    <3>2. LockHeld'
      BY <1>0, <3>1, AgentAssumption DEF LockHeld, Holding, Running
    <3>3. Gated' /\ Unrecorded'
      BY <1>0, <3>1 DEF Gated, Unrecorded, Current, Allowed, Recorded
    <3> QED BY <3>1, <3>2, <3>3, QuietInv DEF Inv
  <2> QED BY <2>1, <2>2
<1>6. ASSUME NEW ag \in Agents, LoadPlan(ag) PROVE Inv'
  <2>1. CASE Leave(ag)
    BY <1>6, <2>1, LeaveInv DEF LoadPlan
  <2>2. CASE ~Leave(ag)
    <3>1. /\ pc[ag] = "load" /\ pc' = [pc EXCEPT ![ag] = "loop"]
          /\ todo' = [todo EXCEPT ![ag] = Selected(opt[ag])]
          /\ opt[ag].yes \/ opt[ag].dry
          /\ UNCHANGED <<lock, opt, buf, kills, blast, file, acted, struck>>
      BY <1>6, <2>2 DEF LoadPlan
    <3>2. /\ LockHeld' /\ pc'[ag] = "loop"
          /\ \A b \in Agents \ {ag} : pc'[b] \in {"idle", "lock"}
      BY <3>1, HolderMoves DEF Holding, Running
    <3>3. todo'[ag] = Selected(opt[ag])
      BY <1>0, <3>1 DEF TypeOK
    <3>4. opt[ag].resume => Selected(opt[ag]) \cap Recorded = {}
      BY DEF Selected
    <3>5. Gated' /\ Unrecorded'
      BY <3>1, <3>2, <3>3, <3>4 DEF Gated, Unrecorded, Recorded
    <3> QED BY <3>1, <3>2, <3>5, QuietInv DEF Inv
  <2> QED BY <2>1, <2>2
<1>7. ASSUME NEW ag \in Agents, Consider(ag) PROVE Inv'
  <2>1. PICK id \in Current(ag) : \E verdict \in Verdicts(ag, Plan[id]) :
          \/ /\ verdict = "go"
             /\ pc' = [pc EXCEPT ![ag] = "exec"] /\ UNCHANGED <<buf, todo>>
          \/ /\ verdict # "go" /\ Push(ag, id, verdict) /\ UNCHANGED pc
    BY <1>7 DEF Consider
  <2>2. PICK verdict \in Verdicts(ag, Plan[id]) :
          \/ /\ verdict = "go"
             /\ pc' = [pc EXCEPT ![ag] = "exec"] /\ UNCHANGED <<buf, todo>>
          \/ /\ verdict # "go" /\ Push(ag, id, verdict) /\ UNCHANGED pc
    BY <2>1
  <2>3. /\ pc[ag] = "loop" /\ pc \in [Agents -> PCs]
        /\ UNCHANGED <<lock, opt, kills, blast, file, acted, struck>>
    BY <1>0, <1>7 DEF Consider, TypeOK
  <2>4. CASE verdict = "go"
    <3>1. pc' = [pc EXCEPT ![ag] = "exec"] /\ UNCHANGED <<buf, todo>>
      BY <2>2, <2>4
    <3>2. /\ LockHeld' /\ pc'[ag] = "exec"
          /\ \A b \in Agents \ {ag} : pc'[b] \in {"idle", "lock"}
      BY <2>3, <3>1, HolderMoves DEF Holding, Running
    <3>3. ~Plan[id].blocked /\ Allowed(Plan[id], ag) /\ ~opt[ag].dry
      BY <2>4 DEF Verdicts
    <3>4. \A j \in Current(ag) : ~Plan[j].blocked /\ Allowed(Plan[j], ag)
      BY <1>0, <3>3, CurrentUnique
    <3>5. \A j \in Current(ag)' : ~Plan[j].blocked /\ Allowed(Plan[j], ag)'
      BY <2>3, <3>1, <3>4 DEF Current, Allowed
    <3>6. Gated'
      BY <1>0, <2>3, <3>2, <3>3, <3>5 DEF Gated
    <3>7. Unrecorded'
      BY <1>0, <2>3, <3>1, <3>2 DEF Unrecorded, Recorded
    <3> QED BY <2>3, <3>1, <3>2, <3>6, <3>7, QuietInv DEF Inv
  <2>5. CASE verdict # "go"
    <3>1. Push(ag, id, verdict) /\ pc' = [pc EXCEPT ![ag] = "loop"]
      BY <2>2, <2>3, <2>5
    <3>2. verdict \in Statuses /\ verdict # "success"
      BY <2>2, <2>5 DEF Verdicts, Statuses, FailureStatuses, BlockedStatuses
    <3>3. acted \in [Ids -> Nat] /\ kills[ag] <= MaxKills /\ OnlyPermittedActed'
      BY <1>0, <2>3 DEF TypeOK, Inv, Counted, OnlyPermittedActed
    <3>4. \A i \in Ids : acted'[i] >= acted[i]
      BY <2>3, <3>3
    <3>5. kills' = kills /\ UNCHANGED <<lock, opt, file>>
      BY <2>3
    <3> QED BY <2>3, <3>1, <3>2, <3>3, <3>4, <3>5, PushInv
  <2> QED BY <2>4, <2>5
<1>8. ASSUME NEW ag \in Agents, ExecuteOk(ag) PROVE Inv'
  <2>1. PICK id \in Current(ag) :
          /\ IF Plan[id].kind = "Kill" THEN RecordAction(ag, 0, TRUE)
                                      ELSE UNCHANGED <<kills, blast>>
          /\ acted' = [acted EXCEPT ![id] = @ + 1]
          /\ struck' = struck \cup {[id |-> id, slot |-> proc[Plan[id].pid], by |-> opt[ag]]}
          /\ Push(ag, id, "success")
    BY <1>8 DEF ExecuteOk
  <2>2. /\ pc[ag] = "exec" /\ pc' = [pc EXCEPT ![ag] = "loop"]
        /\ UNCHANGED <<lock, opt, file>>
    BY <1>8 DEF ExecuteOk
  <2>3. /\ ~opt[ag].dry /\ opt[ag].yes
        /\ ~Plan[id].blocked /\ Allowed(Plan[id], ag)
    BY <1>0, <2>2 DEF Gated
  <2>4. /\ acted \in [Ids -> Nat] /\ kills \in [Agents -> Nat] /\ id \in Ids
        /\ kills[ag] <= MaxKills
    BY <1>0 DEF TypeOK, Current, Inv, Counted
  <2>5. (\A i \in Ids : acted'[i] >= acted[i]) /\ acted'[id] >= 1
    BY <2>1, <2>4
  <2>6. /\ \A b \in Agents \ {ag} : kills'[b] = kills[b]
        /\ kills'[ag] = IF Plan[id].kind = "Kill" THEN kills[ag] + 1 ELSE kills[ag]
    <3>1. CASE Plan[id].kind = "Kill"
      <4>1. kills' = [kills EXCEPT ![ag] = @ + 1]
        BY <2>1, <3>1 DEF RecordAction
      <4> QED BY <2>4, <3>1, <4>1
    <3>2. CASE Plan[id].kind # "Kill"
      BY <2>1, <3>2
    <3> QED BY <3>1, <3>2
  <2>7. kills'[ag] <= MaxKills
    BY <2>3, <2>4, <2>6, LimitAssumption DEF Allowed
  <2>8. OnlyPermittedActed'
    <3>1. OnlyPermittedActed
      BY DEF Inv
    <3>2. Plan[id].permitted
      BY <2>3 DEF Allowed
    <3> QED BY <2>1, <2>3, <3>1, <3>2 DEF OnlyPermittedActed
  <2>9. "success" \in Statuses
    BY DEF Statuses
  <2> QED BY <2>1, <2>2, <2>5, <2>6, <2>7, <2>8, <2>9, PushInv
<1>9. ASSUME NEW ag \in Agents, ExecuteErr(ag) PROVE Inv'
  <2>1. PICK id \in Current(ag) : Push(ag, id, "failed")
    BY <1>9 DEF ExecuteErr
  <2>2. /\ pc[ag] = "exec" /\ pc' = [pc EXCEPT ![ag] = "loop"]
        /\ UNCHANGED <<lock, opt, file, kills, acted, struck>>
    BY <1>9 DEF ExecuteErr
  <2>3. acted \in [Ids -> Nat] /\ kills[ag] <= MaxKills /\ OnlyPermittedActed'
    BY <1>0, <2>2 DEF TypeOK, Inv, Counted, OnlyPermittedActed
  <2>4. "failed" \in Statuses
    BY DEF Statuses, FailureStatuses
  <2>5. \A i \in Ids : acted'[i] >= acted[i]
    BY <2>2, <2>3
  <2>6. kills' = kills /\ UNCHANGED <<lock, opt, file>>
    BY <2>2
  <2> QED BY <2>1, <2>2, <2>3, <2>4, <2>5, <2>6, PushInv
<1>10. ASSUME NEW ag \in Agents, OpenOutcomes(ag) PROVE Inv'
  <2>1. PICK l \in {"write", "close"} : pc' = [pc EXCEPT ![ag] = l]
    BY <1>10 DEF OpenOutcomes
  <2>2. /\ pc[ag] = "loop"
        /\ UNCHANGED <<lock, opt, todo, buf, kills, blast, file, acted, struck>>
    BY <1>10 DEF OpenOutcomes
  <2>3. /\ LockHeld' /\ pc'[ag] = l
        /\ \A b \in Agents \ {ag} : pc'[b] \in {"idle", "lock"}
    BY <2>1, <2>2, HolderMoves DEF Holding, Running
  <2>4. Gated' /\ Unrecorded'
    BY <2>3 DEF Gated, Unrecorded
  <2> QED BY <2>2, <2>3, <2>4, QuietInv DEF Inv
<1>11. ASSUME NEW ag \in Agents, WriteOutcome(ag) PROVE Inv'
  <2> DEFINE w == buf[ag][written[ag] + 1]
  <2>1. /\ pc[ag] = "write" /\ written[ag] + 1 \in DOMAIN buf[ag]
        /\ file \in Seq(Outcomes) /\ w \in Outcomes
        /\ UNCHANGED <<lock, pc, opt, todo, buf, kills, blast, acted, struck>>
    BY <1>0, <1>11 DEF WriteOutcome, TypeOK
  <2>2. file' = Append(file, w) \/ file' = file
    BY <1>11 DEF WriteOutcome
  <2>3. \A b \in Agents : pc[b] \notin {"loop", "exec"}
    <3>1. lock = ag
      BY <1>0, <2>1 DEF LockHeld, Holding, Running
    <3> QED BY <1>0, <2>1, <3>1 DEF LockHeld, Holding, Running
  <2>4. LockHeld' /\ Gated' /\ Unrecorded'
    BY <1>0, <2>1, <2>3 DEF LockHeld, Gated, Unrecorded
  <2>5. (\A b \in Agents : Truthful(buf[b])') /\ Counted' /\ OnlyPermittedActed'
    BY <2>1 DEF Inv, Truthful, Counted, KillsThisRun, OnlyPermittedActed
  <2>6. Truthful(file)'
    <3>1. Truthful(file) /\ Truthful(buf[ag])
      BY DEF Inv
    <3>2. w.status = "success" => acted[w.id] >= 1
      BY <2>1, <3>1 DEF Truthful
    <3>3. CASE file' = file
      BY <2>1, <3>1, <3>3 DEF Truthful
    <3>4. CASE file' = Append(file, w)
      <4> HIDE DEF w
      <4>1. /\ DOMAIN file' = DOMAIN file \cup {Len(file) + 1}
            /\ file'[Len(file) + 1] = w
            /\ \A i \in DOMAIN file : file'[i] = file[i]
        BY <2>1, <3>4, AppendElements
      <4> QED BY <2>1, <3>1, <3>2, <4>1 DEF Truthful
    <3> QED BY <2>2, <3>3, <3>4
  <2> QED BY <2>4, <2>5, <2>6 DEF Inv
<1>12. ASSUME NEW ag \in Agents, AllWritten(ag) PROVE Inv'
  <2>1. /\ pc[ag] = "write" /\ pc' = [pc EXCEPT ![ag] = "close"]
        /\ UNCHANGED <<lock, opt, todo, buf, kills, blast, file, acted, struck>>
    BY <1>12 DEF AllWritten
  <2>2. /\ LockHeld' /\ pc'[ag] = "close"
        /\ \A b \in Agents \ {ag} : pc'[b] \in {"idle", "lock"}
    BY <2>1, HolderMoves DEF Holding, Running
  <2>3. Gated' /\ Unrecorded'
    BY <2>2 DEF Gated, Unrecorded
  <2> QED BY <2>1, <2>2, <2>3, QuietInv DEF Inv
<1>13. ASSUME NEW ag \in Agents, CloseSession(ag) PROVE Inv'
  BY <1>13, LeaveInv DEF CloseSession
<1>14. ASSUME NEW ag \in Agents, Crash(ag) PROVE Inv'
  BY <1>14, LeaveInv DEF Crash
<1> QED BY <1>1, <1>2, <1>3, <1>4, <1>5, <1>6, <1>7, <1>8, <1>9, <1>10, <1>11, <1>12,
           <1>13, <1>14 DEF Next, AgentStep

(* The invariant holds: the lock is held by the one invocation that is past  *)
(* it, so no other invocation writes outcomes.jsonl between its reading of   *)
(* the file and its own writing.                                             *)
THEOREM InvCorrect == Spec => []Inv
<1>1. Spec => []TypeOK
  BY TypeCorrect
<1>2. TypeOK /\ Init => Inv
  BY InvInit
<1>3. Inv /\ TypeOK' /\ [Next]_vars => Inv'
  BY InvStep
<1> QED BY <1>1, <1>2, <1>3, PTL DEF Spec

(* outcomes.jsonl reports no success that did not happen, whatever crashes   *)
(* and whichever writes are lost.                                            *)
THEOREM RecordsAreTrue == Spec => []RecordedMeansDone
<1>1. Inv => RecordedMeansDone
  BY DEF Inv, Truthful, RecordedMeansDone, Recorded
<1> QED BY <1>1, InvCorrect, PTL

(* No invocation kills more than max_kills processes, for any plan and limit *)
(* (check_candidate and record_action of ConstraintChecker).                 *)
THEOREM KillBudgetHolds == Spec => []KillBudgetPerRun
<1>1. Inv => KillBudgetPerRun
  BY DEF Inv, Counted, KillBudgetPerRun
<1> QED BY <1>1, InvCorrect, PTL

(* Nothing is carried out that the plan or a constraint forbids, or that was *)
(* asked for with --dry-run or without --yes.                                *)
THEOREM OnlyPermittedIsActed == Spec => []OnlyPermittedActed
<1>1. Inv => OnlyPermittedActed
  BY DEF Inv
<1> QED BY <1>1, InvCorrect, PTL

(* A resumed invocation repeats nothing that the file reports done, for any  *)
(* number of invocations and crashes.                                        *)
THEOREM ResumeRepeatsNothing == Spec => ResumeSkipsRecorded
<1> DEFINE A == \A i \in Ids : i \in Recorded /\ acted'[i] > acted[i] =>
                  \E ag \in Agents : pc[ag] = "exec" /\ ~opt[ag].resume
<1>1. Inv /\ [Next]_vars => [A]_vars
  <2> SUFFICES ASSUME Inv, Next,
                      NEW i \in Ids, i \in Recorded, acted'[i] > acted[i]
               PROVE  \E ag \in Agents : pc[ag] = "exec" /\ ~opt[ag].resume
    BY DEF vars
  <2>1. TypeOK /\ Unrecorded
    BY DEF Inv
  <2>2. ~UNCHANGED acted
    BY <2>1 DEF TypeOK
  <2>3. PICK ag \in Agents : ExecuteOk(ag)
    BY <2>2 DEF Next, AgentStep, Invoke, AcquireLock, LoadPlan, Consider, ExecuteErr,
                OpenOutcomes, WriteOutcome, AllWritten, CloseSession, Crash, MachineStep,
                Reboot, historyVars
  <2>4. PICK id \in Current(ag) : acted' = [acted EXCEPT ![id] = @ + 1]
    BY <2>3 DEF ExecuteOk
  <2>5. id = i
    BY <2>1, <2>4 DEF TypeOK
  <2>6. i \in todo[ag] /\ pc[ag] = "exec"
    BY <2>3, <2>5 DEF Current, ExecuteOk
  <2> QED BY <2>1, <2>6 DEF Unrecorded
<1>2. Spec => []Inv /\ [][Next]_vars
  BY InvCorrect DEF Spec
<1> QED BY <1>1, <1>2, PTL DEF ResumeSkipsRecorded

(* A session marked "Executing" has a run behind it, until one is cut off.   *)
LEMMA SettledStep ==
  ASSUME ~IOFaults PROVE Inv /\ SettledInv /\ [Next]_vars => SettledInv'
<1> SUFFICES ASSUME Inv, SettledInv, [Next]_vars, session' = "Executing", ~cut'
             PROVE  \E b \in Agents : pc'[b] \in Running
  BY DEF SettledInv
<1> USE DEF diskVars, machineVars, historyVars, Running
<1>0. pc \in [Agents -> PCs] /\ cut \in BOOLEAN
  BY DEF Inv, TypeOK
<1>1. ASSUME UNCHANGED <<session, cut>>, UNCHANGED pc
      PROVE  \E b \in Agents : pc'[b] \in Running
  BY <1>1 DEF SettledInv
<1>2. ASSUME UNCHANGED <<session, cut>>,
             NEW ag \in Agents, NEW l \in PCs, pc' = [pc EXCEPT ![ag] = l],
             pc[ag] \in Running => l \in Running
      PROVE  \E b \in Agents : pc'[b] \in Running
  <2>1. PICK b \in Agents : pc[b] \in Running
    BY <1>2 DEF SettledInv
  <2> QED BY <1>0, <1>2, <2>1
<1>3. CASE UNCHANGED vars
  BY <1>1, <1>3 DEF vars
<1>4. CASE MachineStep
  BY <1>1, <1>4 DEF MachineStep, agentVars
<1>5. CASE Reboot
  <2>1. ~cut /\ UNCHANGED session /\ \A b \in Agents : pc[b] \notin Running
    BY <1>0, <1>5 DEF Reboot
  <2> QED BY <2>1 DEF SettledInv
<1>6. ASSUME NEW ag \in Agents, Invoke(ag) PROVE \E b \in Agents : pc'[b] \in Running
  BY <1>2, <1>6 DEF Invoke, PCs
<1>7. ASSUME NEW ag \in Agents, AcquireLock(ag) PROVE \E b \in Agents : pc'[b] \in Running
  BY <1>2, <1>7 DEF AcquireLock, Leave, PCs
<1>8. ASSUME NEW ag \in Agents, LoadPlan(ag) PROVE \E b \in Agents : pc'[b] \in Running
  <2>1. CASE pc' = [pc EXCEPT ![ag] = "loop"]
    BY <1>0, <2>1
  <2>2. CASE Leave(ag) /\ UNCHANGED <<session, cut>>
    BY <1>2, <1>8, <2>2 DEF LoadPlan, Leave, PCs
  <2> QED BY <1>8, <2>1, <2>2 DEF LoadPlan
<1>9. ASSUME NEW ag \in Agents, Consider(ag) PROVE \E b \in Agents : pc'[b] \in Running
  <2>1. /\ UNCHANGED <<session, cut>>
        /\ UNCHANGED pc \/ pc' = [pc EXCEPT ![ag] = "exec"]
    BY <1>9 DEF Consider
  <2> QED BY <1>1, <1>2, <2>1 DEF PCs
<1>10. ASSUME NEW ag \in Agents, ExecuteOk(ag) PROVE \E b \in Agents : pc'[b] \in Running
  BY <1>2, <1>10 DEF ExecuteOk, PCs
<1>11. ASSUME NEW ag \in Agents, ExecuteErr(ag) PROVE \E b \in Agents : pc'[b] \in Running
  BY <1>2, <1>11 DEF ExecuteErr, PCs
<1>12. ASSUME NEW ag \in Agents, OpenOutcomes(ag) PROVE \E b \in Agents : pc'[b] \in Running
  BY <1>2, <1>12 DEF OpenOutcomes, PCs
<1>13. ASSUME NEW ag \in Agents, WriteOutcome(ag) PROVE \E b \in Agents : pc'[b] \in Running
  BY <1>1, <1>13 DEF WriteOutcome
<1>14. ASSUME NEW ag \in Agents, AllWritten(ag) PROVE \E b \in Agents : pc'[b] \in Running
  BY <1>2, <1>14 DEF AllWritten, PCs
<1>15. ASSUME NEW ag \in Agents, CloseSession(ag) PROVE FALSE
  <2>1. session' = FinalState(buf[ag])
    BY <1>15 DEF CloseSession
  <2> QED BY <2>1 DEF FinalState
<1>16. ASSUME NEW ag \in Agents, Crash(ag) PROVE \E b \in Agents : pc'[b] \in Running
  <2>1. pc' = [pc EXCEPT ![ag] = "idle"] /\ UNCHANGED session
    BY <1>16 DEF Crash, Leave
  <2>2. ~cut /\ pc[ag] \notin Running
    BY <1>0, <1>16 DEF Crash
  <2> QED BY <1>0, <2>1, <2>2 DEF SettledInv
<1> QED BY <1>3, <1>4, <1>5, <1>6, <1>7, <1>8, <1>9, <1>10, <1>11, <1>12, <1>13, <1>14,
           <1>15, <1>16 DEF Next, AgentStep

(* Where writes into the session directory do not fail, a session left       *)
(* "Executing" means that a run is going on or was cut off: the state is set *)
(* before the loop and reset after it on every path out of run_agent_apply.  *)
THEOREM SessionSettles == ASSUME ~IOFaults PROVE Spec => []SessionSettled
<1>1. Init => SettledInv
  BY DEF Init, SettledInv
<1>2. Inv /\ SettledInv /\ [Next]_vars => SettledInv'
  BY SettledStep
<1>3. Inv /\ SettledInv => SessionSettled
  BY AgentAssumption DEF Inv, LockHeld, Holding, SettledInv, SessionSettled
<1> QED BY <1>1, <1>2, <1>3, InvCorrect, PTL DEF Spec
=============================================================================
