----------------------------- MODULE DaemonProofs -----------------------------
(* Theorems about Daemon, for every set of daemons, configuration and bound.  *)
EXTENDS Daemon, TLAPS

(* The placeholder for the configuration of a daemon that is off. *)
LEMMA AnyConfigIsOne == AnyConfig \in Configs
BY ConfigAssumption DEF AnyConfig

(* The bundle of a daemon that finds no state.json. *)
LEMMA NewBundleType == NewBundle \in Bundles
BY DEF NewBundle, Bundles, Times

(* The bundle after the triggers were evaluated. *)
LEMMA EvaluatedType ==
  ASSUME NEW m \in Bundles, NEW breach \in SUBSET Kinds, NEW c \in Configs
  PROVE  /\ Evaluated(m, breach, c) \in Bundles
         /\ Evaluated(m, breach, c).last = m.last
         /\ Fires(m, breach, c) \subseteq breach
         /\ \A k \in Kinds : Evaluated(m, breach, c).sustained[k] <= Count(m, k, breach)
<1>1. /\ c.cooldown \in Nat /\ m.sustained \in [Kinds -> Nat]
      /\ m.cooldown \in [Kinds -> Nat] /\ m.last \in Times
  BY ConfigAssumption DEF Bundles
<1>2. \A k \in Kinds : Count(m, k, breach) \in Nat
  BY <1>1 DEF Count
<1>3. \A k \in Kinds : Cooling(m, k) => m.cooldown[k] - 1 \in Nat
  BY <1>1 DEF Cooling
<1>4. Fires(m, breach, c) \subseteq breach
  BY DEF Fires
<1> DEFINE sus == [k \in Kinds |-> IF k \in Fires(m, breach, c) THEN 0 ELSE Count(m, k, breach)]
           cool == [k \in Kinds |-> IF k \in Fires(m, breach, c) THEN c.cooldown
                                    ELSE IF Cooling(m, k) THEN m.cooldown[k] - 1 ELSE 0]
<1>5. sus \in [Kinds -> Nat] /\ \A k \in Kinds : sus[k] <= Count(m, k, breach)
  BY <1>2
<1>6. cool \in [Kinds -> Nat]
  BY <1>1, <1>3
<1>7. Evaluated(m, breach, c) = [m EXCEPT !.sustained = sus, !.cooldown = cool]
  BY DEF Evaluated
<1>8. Evaluated(m, breach, c) = [sustained |-> sus, cooldown |-> cool, last |-> m.last]
  <2> HIDE DEF sus, cool
  <2> QED BY <1>7 DEF Bundles
<1> QED BY <1>1, <1>4, <1>5, <1>6, <1>8 DEF Bundles

(* The memory of a process that ended. *)
LEMMA ForgetType ==
  ASSUME TypeOK, NEW d \in Daemons, Forget(d)
  PROVE  /\ mem' \in [Daemons -> Bundles] /\ cfg' \in [Daemons -> Configs]
         /\ flags' \in [Daemons -> SUBSET FlagNames] /\ wake' \in [Daemons -> Nat]
         /\ fired' \in [Daemons -> SUBSET Kinds]
<1>1. mem' \in [Daemons -> Bundles] /\ cfg' \in [Daemons -> Configs]
  BY NewBundleType, AnyConfigIsOne DEF Forget, TypeOK
<1> QED BY <1>1 DEF Forget, TypeOK

(* The histories after a process ended. *)
LEMMA LeaveBehindType ==
  ASSUME TypeOK, NEW d \in Daemons, LeaveBehind(d)
  PROVE  /\ escalated' \in Times /\ streak' \in [Kinds -> Nat]
         /\ unsaved' \subseteq Kinds /\ resumed' \subseteq Kinds
<1>1. /\ stateFile.last \in Times /\ escalated \in Times /\ streak \in [Kinds -> Nat]
      /\ unsaved \subseteq Kinds /\ resumed \subseteq Kinds
  BY DEF TypeOK, Bundles
<1>2. CASE pc[d] \in Looping
  BY <1>1, <1>2 DEF LeaveBehind
<1>3. CASE pc[d] \notin Looping
  BY <1>1, <1>3 DEF LeaveBehind, historyVars, tickVars
<1> QED BY <1>2, <1>3

(* Dating an escalation changes nothing else in the bundle. *)
LEMMA DatedType ==
  ASSUME TypeOK, NEW d \in Daemons, mem' = [mem EXCEPT ![d].last = now]
  PROVE  /\ mem' \in [Daemons -> Bundles] /\ mem'[d].last = now
         /\ mem'[d].sustained = mem[d].sustained
         /\ \A e \in Daemons \ {d} : mem'[e] = mem[e]
<1>1. mem[d] \in Bundles /\ now \in Times /\ mem \in [Daemons -> Bundles]
  BY DEF TypeOK, Times
<1>2. [mem[d] EXCEPT !.last = now] \in Bundles
  BY <1>1 DEF Bundles
<1>3. mem' = [mem EXCEPT ![d] = [mem[d] EXCEPT !.last = now]]
  OBVIOUS
<1>4. [mem[d] EXCEPT !.last = now].last = now
      /\ [mem[d] EXCEPT !.last = now].sustained = mem[d].sustained
  BY <1>1 DEF Bundles
<1> QED BY <1>1, <1>2, <1>3, <1>4

(* The types at the start. *)
LEMMA TypeInit == Init => TypeOK
<1> SUFFICES ASSUME Init PROVE TypeOK
  OBVIOUS
<1>1. mem \in [Daemons -> Bundles] /\ cfg \in [Daemons -> Configs] /\ stateFile \in Bundles
  BY NewBundleType, AnyConfigIsOne DEF Init
<1>2. starts \in 0..MaxStarts /\ signals \in 0..MaxSignals
  BY ConfigAssumption DEF Init
<1> QED BY <1>1, <1>2 DEF Init, TypeOK, PCs, Times, Items

(* Every step keeps the types; only the ends of a process and the ticks need *)
(* more than their definition.                                               *)
LEMMA TypeStep == TypeOK /\ [Next]_vars => TypeOK'
<1> SUFFICES ASSUME TypeOK, [Next]_vars PROVE TypeOK'
  OBVIOUS
<1> USE DEF fileVars, lockVars, memVars, boundVars, historyVars, tickVars, At, Goto, Drop, PCs, Items
<1>1. CASE UNCHANGED vars
  BY <1>1 DEF vars, TypeOK
<1>2. ASSUME NEW d \in Daemons, Start(d) PROVE TypeOK'
  <2>1. starts' \in 0..MaxStarts
    BY <1>2, ConfigAssumption DEF Start, TypeOK
  <2> QED BY <1>2, <2>1 DEF Start, TypeOK
<1>3. ASSUME NEW d \in Daemons, TakePidLock(d) PROVE TypeOK'
  <2>1. CASE Forget(d)
    BY <1>3, <2>1, ForgetType DEF TakePidLock, TypeOK
  <2>2. CASE ~Forget(d)
    BY <1>3, <2>2 DEF TakePidLock, TypeOK
  <2> QED BY <2>1, <2>2
<1>4. ASSUME NEW d \in Daemons, ClaimPidFile(d) PROVE TypeOK'
  <2>1. CASE Forget(d) /\ pidLock' = Nobody /\ Goto(d, "off")
             /\ UNCHANGED <<pidFile, escalated>>
    BY <1>4, <2>1, ForgetType DEF ClaimPidFile, TypeOK
  <2>2. CASE ~(Forget(d) /\ pidLock' = Nobody /\ Goto(d, "off")
               /\ UNCHANGED <<pidFile, escalated>>)
    <3>1. /\ pidFile' \in {d, pidFile, Nobody} /\ escalated' \in {escalated, Never}
          /\ \/ mem' = [mem EXCEPT ![d] = stateFile]
             \/ mem' = [mem EXCEPT ![d] = NewBundle]
      BY <1>4, <2>2 DEF ClaimPidFile
    <3>2. mem' \in [Daemons -> Bundles]
      BY <3>1, NewBundleType DEF TypeOK
    <3>3. pidFile' \in Daemons \cup {Nobody} /\ escalated' \in Times
      BY <3>1 DEF TypeOK, Times
    <3> QED BY <1>4, <2>2, <3>2, <3>3 DEF ClaimPidFile, TypeOK
  <2> QED BY <2>1, <2>2
<1>5. ASSUME NEW d \in Daemons, Tick(d) PROVE TypeOK'
  <2>1. cfg' \in [Daemons -> Configs] /\ flags' \in [Daemons -> SUBSET FlagNames]
    BY <1>5 DEF Tick, TypeOK
  <2>2. CASE UNCHANGED <<mem, fired, tickVars>> /\ Goto(d, "save")
    BY <1>5, <2>1, <2>2 DEF Tick, TypeOK
  <2>3. CASE ~(UNCHANGED <<mem, fired, tickVars>> /\ Goto(d, "save"))
    <3>1. PICK breach \in SUBSET Kinds :
            /\ fired' = [fired EXCEPT ![d] = Fires(mem[d], breach, cfg'[d])]
            /\ mem' = [mem EXCEPT ![d] = Evaluated(mem[d], breach, cfg'[d])]
            /\ streak' = [k \in Kinds |-> IF k \in breach THEN streak[k] + 1 ELSE 0]
            /\ unsaved' = unsaved \cup (Kinds \ breach) /\ resumed' = resumed \cap breach
            /\ Goto(d, IF fired'[d] = {} THEN "save" ELSE "fired")
      BY <1>5, <2>3 DEF Tick
    <3>2. mem[d] \in Bundles /\ cfg'[d] \in Configs
      BY <2>1 DEF TypeOK
    <3>3. /\ Fires(mem[d], breach, cfg'[d]) \subseteq Kinds
          /\ Evaluated(mem[d], breach, cfg'[d]) \in Bundles
      BY <3>2, EvaluatedType
    <3>4. mem' \in [Daemons -> Bundles] /\ fired' \in [Daemons -> SUBSET Kinds]
      BY <3>1, <3>3 DEF TypeOK
    <3>5. streak' \in [Kinds -> Nat] /\ unsaved' \subseteq Kinds /\ resumed' \subseteq Kinds
      BY <3>1 DEF TypeOK
    <3>6. pc' \in [Daemons -> PCs]
      BY <3>1 DEF TypeOK
    <3> QED BY <1>5, <2>1, <3>4, <3>5, <3>6 DEF Tick, TypeOK
  <2> QED BY <2>2, <2>3
<1>6. ASSUME NEW d \in Daemons, TryLock(d) PROVE TypeOK'
  BY <1>6 DEF TryLock, TypeOK
<1>7. ASSUME NEW d \in Daemons, Defer(d) PROVE TypeOK'
  BY <1>7 DEF Defer, Report, TypeOK
<1>8. ASSUME NEW d \in Daemons, Escalate(d) PROVE TypeOK'
  <2>1. mem' \in [Daemons -> Bundles]
    BY <1>8, DatedType DEF Escalate
  <2> QED BY <1>8, <2>1 DEF Escalate, TypeOK, Times
<1>9. ASSUME NEW d \in Daemons, QuickEnds(d) PROVE TypeOK'
  BY <1>9 DEF QuickEnds, Report, TypeOK
<1>10. ASSUME NEW d \in Daemons, DeepEnds(d) PROVE TypeOK'
  BY <1>10 DEF DeepEnds, Report, TypeOK
<1>11. ASSUME NEW d \in Daemons, Save(d) PROVE TypeOK'
  <2>1. stateFile' \in Bundles
    BY <1>11 DEF Save, TypeOK
  <2>2. /\ wake' \in [Daemons -> Nat] /\ fired' \in [Daemons -> SUBSET Kinds]
        /\ unsaved' \subseteq Kinds
    BY <1>11 DEF Save, TypeOK
  <2> QED BY <1>11, <2>1, <2>2 DEF Save, TypeOK
<1>12. ASSUME NEW d \in Daemons, Wake(d) PROVE TypeOK'
  BY <1>12 DEF Wake, TypeOK
<1>13. ASSUME NEW d \in Daemons, Exit(d) PROVE TypeOK'
  <2>1. Forget(d) /\ LeaveBehind(d)
    BY <1>13 DEF Exit
  <2> QED BY <1>13, <2>1, ForgetType, LeaveBehindType DEF Exit, TypeOK
<1>14. ASSUME NEW d \in Daemons, Crash(d) PROVE TypeOK'
  <2>1. Forget(d) /\ LeaveBehind(d)
    BY <1>14 DEF Crash
  <2> QED BY <1>14, <2>1, ForgetType, LeaveBehindType DEF Crash, TypeOK
<1>15. ASSUME NEW d \in Daemons, Signal(d) PROVE TypeOK'
  <2>1. signals' \in 0..MaxSignals
    BY <1>15, ConfigAssumption DEF Signal, TypeOK
  <2>2. flags' \in [Daemons -> SUBSET FlagNames]
    BY <1>15 DEF Signal, TypeOK, FlagNames
  <2> QED BY <1>15, <2>1, <2>2 DEF Signal, TypeOK
<1>16. CASE Stop
  <2>1. CASE StopRead
    BY <1>16, <2>1 DEF StopRead, TypeOK
  <2>2. CASE StopTerm
    BY <1>16, <2>2 DEF StopTerm, TypeOK, FlagNames
  <2>3. CASE StopRemove
    BY <1>16, <2>3 DEF StopRemove, TypeOK
  <2> QED BY <1>16, <2>1, <2>2, <2>3 DEF Stop
<1>17. CASE OtherLocks
  BY <1>17 DEF OtherLocks, TypeOK
<1>18. CASE ReadInbox
  BY <1>18 DEF ReadInbox, TypeOK
<1>19. CASE Clock
  BY <1>19 DEF Clock, TypeOK
<1> QED BY <1>1, <1>2, <1>3, <1>4, <1>5, <1>6, <1>7, <1>8, <1>9, <1>10, <1>11, <1>12,
           <1>13, <1>14, <1>15, <1>16, <1>17, <1>18, <1>19 DEF Next, DaemonStep

(* Every variable keeps its type (run_daemon_foreground, run_daemon_stop).   *)
THEOREM TypeCorrect == Spec => []TypeOK
BY TypeInit, TypeStep, PTL DEF Spec

----------------------------------------------------------------------------
(* The daemons in the loop are the one that holds the pid lock. *)
LEMMA LoopHoldsLock ==
  ASSUME LocksHeld, NEW d \in Daemons, NEW e \in Daemons,
         pc[d] \in {"pid"} \cup Looping, pc[e] \in {"pid"} \cup Looping
  PROVE  d = e
BY DEF LocksHeld

(* What the histories become when a daemon in the loop ends. *)
LEMMA LeftBehind ==
  ASSUME TypeOK, NEW d \in Daemons, LeaveBehind(d), pc[d] \in Looping
  PROVE  /\ escalated' = stateFile.last /\ streak' = streak /\ unsaved' = {}
         /\ \A k \in Kinds : k \in unsaved \cup resumed /\ k \notin resumed' =>
              stateFile.sustained[k] <= streak[k]
<1>1. stateFile.sustained \in [Kinds -> Nat] /\ streak \in [Kinds -> Nat]
  BY DEF TypeOK, Bundles
<1>2. resumed' = {k \in resumed \cup unsaved : stateFile.sustained[k] > 0}
  BY DEF LeaveBehind
<1>3. escalated' = stateFile.last /\ streak' = streak /\ unsaved' = {}
  BY DEF LeaveBehind
<1> QED BY <1>1, <1>2, <1>3

(* A step that keeps everyone in or out of the loop, and the memory, the      *)
(* file and the histories as they are, keeps what they have in common.        *)
LEMMA SameMemory ==
  ASSUME Remembered, Counted,
         \A d \in Daemons : pc'[d] \in Looping <=> pc[d] \in Looping,
         mem' = mem, stateFile' = stateFile, escalated' = escalated, tickVars' = tickVars
  PROVE  Remembered' /\ Counted'
BY DEF Remembered, Counted, tickVars

(* At the start nobody loops and nothing is remembered. *)
LEMMA InvInit == Init => Inv
<1> SUFFICES ASSUME Init PROVE Inv
  OBVIOUS
<1>1. TypeOK
  BY TypeInit
<1>2. LocksHeld /\ FiresOnlySustained
  BY DEF Init, LocksHeld, FiresOnlySustained, Looping, Planning, At
<1>3. Remembered /\ Counted
  BY DEF Init, Remembered, Counted, NewBundle, Looping, Planning
<1> QED BY <1>1, <1>2, <1>3 DEF Inv

(* One step per action; the daemon that moves is the only one in the loop.   *)
LEMMA InvStep == Inv /\ [Next]_vars => Inv'
<1> SUFFICES ASSUME Inv, [Next]_vars PROVE LocksHeld' /\ Remembered' /\ Counted' /\ FiresOnlySustained'
  BY TypeStep DEF Inv
<1>0. TypeOK /\ LocksHeld /\ Remembered /\ Counted /\ FiresOnlySustained
  BY DEF Inv
<1>T. TypeOK'
  BY <1>0, TypeStep
<1> USE DEF fileVars, lockVars, memVars, boundVars, historyVars, tickVars, At, Goto, Drop, Looping, Planning
<1>1. CASE UNCHANGED vars
  BY <1>0, <1>1 DEF vars, LocksHeld, Remembered, Counted, FiresOnlySustained
<1>2. ASSUME NEW d \in Daemons, Start(d) \/ TakePidLock(d)
      PROVE  LocksHeld' /\ Remembered' /\ Counted' /\ FiresOnlySustained'
  <2>1. CASE Start(d)
    <3>1. Remembered' /\ Counted'
      BY <1>0, <2>1, SameMemory DEF Start, TypeOK
    <3>2. LocksHeld' /\ FiresOnlySustained'
      BY <1>0, <2>1 DEF Start, TypeOK, LocksHeld, FiresOnlySustained
    <3> QED BY <3>1, <3>2
  <2>2. CASE TakePidLock(d)
    <3>1. /\ \A e \in Daemons : e # d => pc'[e] = pc[e] /\ mem'[e] = mem[e]
                                       /\ fired'[e] = fired[e] /\ cfg'[e] = cfg[e]
          /\ pc[d] = "start" /\ pc'[d] \in {"pid", "off"}
          /\ UNCHANGED <<lock, stateFile, escalated, tickVars>>
          /\ \/ pidLock = Nobody /\ pidLock' = d
             \/ pidLock' = pidLock /\ pc'[d] = "off"
      BY <1>0, <2>2 DEF TakePidLock, Forget, TypeOK
    <3>2. LocksHeld' /\ FiresOnlySustained'
      BY <1>0, <3>1, NameAssumption DEF LocksHeld, FiresOnlySustained
    <3>3. Remembered' /\ Counted'
      BY <1>0, <3>1 DEF Remembered, Counted
    <3> QED BY <3>2, <3>3
  <2> QED BY <1>2, <2>1, <2>2
<1>3. ASSUME NEW d \in Daemons, ClaimPidFile(d)
      PROVE  LocksHeld' /\ Remembered' /\ Counted' /\ FiresOnlySustained'
  <2>1. /\ pc[d] = "pid" /\ pidLock = d
        /\ \A e \in Daemons \ {d} : pc[e] \notin {"pid"} \cup Looping
    BY <1>0, <1>3, LoopHoldsLock DEF ClaimPidFile, LocksHeld
  <2>2. /\ \A e \in Daemons : e # d => pc'[e] = pc[e]
        /\ UNCHANGED <<lock, stateFile, tickVars>>
        /\ \/ pc'[d] = "off" /\ pidLock' = Nobody /\ escalated' = escalated
           \/ /\ pc'[d] = "top" /\ pidLock' = pidLock
              /\ \/ mem'[d] = stateFile /\ escalated' = escalated
                 \/ mem'[d] = NewBundle /\ escalated' = Never
    BY <1>0, <1>3 DEF ClaimPidFile, TypeOK
  <2>3. /\ NewBundle.last = Never
        /\ \A k \in Kinds : NewBundle.sustained[k] = 0 /\ 0 <= streak[k]
    BY <1>0 DEF NewBundle, TypeOK
  <2>4. LocksHeld' /\ FiresOnlySustained'
    BY <1>0, <2>1, <2>2 DEF LocksHeld, FiresOnlySustained
  <2>5. Remembered' /\ Counted'
    BY <1>0, <2>1, <2>2, <2>3 DEF Remembered, Counted
  <2> QED BY <2>4, <2>5
<1>4. ASSUME NEW d \in Daemons, Tick(d)
      PROVE  LocksHeld' /\ Remembered' /\ Counted' /\ FiresOnlySustained'
  <2>1. \A e \in Daemons \ {d} : pc[e] \notin {"pid"} \cup Looping
    BY <1>0, <1>4, LoopHoldsLock DEF Tick
  <2>2. /\ pc[d] = "top" /\ pc'[d] \in {"save", "fired"}
        /\ \A e \in Daemons : e # d => pc'[e] = pc[e]
        /\ UNCHANGED <<lock, pidLock, stateFile, escalated>>
    BY <1>0, <1>4 DEF Tick, TypeOK
  <2>3. LocksHeld'
    BY <1>0, <2>1, <2>2 DEF LocksHeld
  <2>4. CASE UNCHANGED <<mem, fired, tickVars>> /\ Goto(d, "save")
    <3>1. Remembered' /\ Counted'
      BY <1>0, <2>2, <2>4, SameMemory
    <3>2. FiresOnlySustained'
      BY <1>0, <2>1, <2>2, <2>4 DEF FiresOnlySustained, TypeOK
    <3> QED BY <2>3, <3>1, <3>2
  <2>5. CASE ~(UNCHANGED <<mem, fired, tickVars>> /\ Goto(d, "save"))
    <3>1. PICK breach \in SUBSET Kinds :
            /\ fired' = [fired EXCEPT ![d] = Fires(mem[d], breach, cfg'[d])]
            /\ mem' = [mem EXCEPT ![d] = Evaluated(mem[d], breach, cfg'[d])]
            /\ streak' = [k \in Kinds |-> IF k \in breach THEN streak[k] + 1 ELSE 0]
            /\ unsaved' = unsaved \cup (Kinds \ breach) /\ resumed' = resumed \cap breach
      BY <1>4, <2>5 DEF Tick
    <3>2. /\ mem[d] \in Bundles /\ cfg'[d] \in Configs /\ mem[d].sustained \in [Kinds -> Nat]
          /\ streak \in [Kinds -> Nat] /\ cfg'[d].sustained \in Nat
      BY <1>0, <1>T, ConfigAssumption DEF TypeOK, Bundles
    <3>3. /\ mem'[d].last = mem[d].last
          /\ \A k \in Kinds : mem'[d].sustained[k] <= Count(mem[d], k, breach)
          /\ Fires(mem[d], breach, cfg'[d]) \subseteq breach
          /\ mem'[d] \in Bundles
      <4>1. mem'[d] = Evaluated(mem[d], breach, cfg'[d])
        BY <1>0, <3>1 DEF TypeOK
      <4> DEFINE e == Evaluated(mem[d], breach, cfg'[d])
      <4>2. /\ e \in Bundles /\ e.last = mem[d].last
            /\ Fires(mem[d], breach, cfg'[d]) \subseteq breach
            /\ \A k \in Kinds : e.sustained[k] <= Count(mem[d], k, breach)
        BY <3>1, <3>2, EvaluatedType
      <4> QED BY <4>1, <4>2
    <3>4. \A k \in Kinds : /\ Count(mem[d], k, breach) \in Nat
                           /\ Count(mem[d], k, breach) <= streak'[k] \/ k \in resumed'
      <4>1. \A k \in Kinds : mem[d].sustained[k] <= streak[k] \/ k \in resumed
        BY <1>0, <2>2 DEF Counted
      <4> QED BY <3>1, <3>2, <4>1 DEF Count
    <3>5. \A k \in Kinds : mem'[d].sustained[k] <= streak'[k] \/ k \in resumed'
      <4>1. \A k \in Kinds : mem'[d].sustained[k] \in Nat /\ streak'[k] \in Nat
        BY <1>T, <3>3 DEF TypeOK, Bundles
      <4> QED BY <3>3, <3>4, <4>1
    <3>6. Remembered'
      BY <1>0, <2>1, <2>2, <3>3 DEF Remembered
    <3>7. \A k \in Kinds : stateFile'.sustained[k] <= streak'[k] \/ k \in unsaved' \cup resumed'
      <4>1. \A k \in Kinds : stateFile.sustained[k] <= streak[k] \/ k \in unsaved \cup resumed
        BY <1>0 DEF Counted
      <4>2. \A k \in Kinds : stateFile.sustained[k] \in Nat
        BY <1>0 DEF TypeOK, Bundles
      <4> QED BY <2>2, <3>1, <3>2, <4>1, <4>2
    <3>9. Counted'
      BY <2>1, <2>2, <3>5, <3>7 DEF Counted
    <3>10. \A k \in fired'[d] : streak'[k] >= cfg'[d].sustained \/ k \in resumed'
      <4>1. fired'[d] = Fires(mem[d], breach, cfg'[d])
        BY <1>0, <3>1 DEF TypeOK
      <4>2. \A k \in fired'[d] : k \in Kinds /\ Count(mem[d], k, breach) >= cfg'[d].sustained
        BY <4>1 DEF Fires
      <4>3. \A k \in Kinds : streak'[k] \in Nat
        BY <1>T DEF TypeOK
      <4> QED BY <3>2, <3>4, <4>2, <4>3
    <3>8. FiresOnlySustained'
      BY <2>1, <2>2, <3>10 DEF FiresOnlySustained
    <3> QED BY <2>3, <3>6, <3>8, <3>9
  <2> QED BY <2>4, <2>5
<1>5. ASSUME NEW d \in Daemons,
             TryLock(d) \/ Defer(d) \/ QuickEnds(d) \/ DeepEnds(d) \/ Wake(d)
      PROVE  LocksHeld' /\ Remembered' /\ Counted' /\ FiresOnlySustained'
  <2>1. /\ pc[d] \in Looping /\ pc'[d] \in Looping \ {"fired"}
        /\ pc'[d] \in Planning => pc[d] \in Planning
        /\ \A e \in Daemons : e # d => pc'[e] = pc[e]
        /\ UNCHANGED <<pidLock, stateFile, mem, cfg, fired, escalated, tickVars>>
    BY <1>0, <1>5 DEF TryLock, Defer, QuickEnds, DeepEnds, Wake, TypeOK
  <2>2. \A e \in Daemons \ {d} : pc[e] \notin {"pid"} \cup Looping
    BY <1>0, <2>1, LoopHoldsLock
  <2>3. pc'[d] \in Planning => lock' = lock
    BY <1>0, <1>5 DEF TryLock, Defer, QuickEnds, DeepEnds, Wake, TypeOK
  <2>4. LocksHeld' /\ FiresOnlySustained'
    BY <1>0, <2>1, <2>2, <2>3 DEF LocksHeld, FiresOnlySustained
  <2>5. Remembered' /\ Counted'
    BY <1>0, <2>1, SameMemory
  <2> QED BY <2>4, <2>5
<1>6. ASSUME NEW d \in Daemons, Escalate(d)
      PROVE  LocksHeld' /\ Remembered' /\ Counted' /\ FiresOnlySustained'
  <2>1. /\ pc[d] = "decide" /\ pc'[d] = "quick" /\ lock = d
        /\ \A e \in Daemons : e # d => pc'[e] = pc[e]
        /\ UNCHANGED <<lock, pidLock, stateFile, cfg, fired, tickVars>>
        /\ escalated' = now
    BY <1>0, <1>6 DEF Escalate, TypeOK
  <2>2. \A e \in Daemons \ {d} : pc[e] \notin {"pid"} \cup Looping
    BY <1>0, <2>1, LoopHoldsLock
  <2>3. mem'[d].last = now /\ mem'[d].sustained = mem[d].sustained
    BY <1>0, <1>6, DatedType DEF Escalate
  <2>4. LocksHeld' /\ FiresOnlySustained'
    BY <1>0, <2>1, <2>2 DEF LocksHeld, FiresOnlySustained
  <2>5. Remembered' /\ Counted'
    BY <1>0, <2>1, <2>2, <2>3 DEF Remembered, Counted
  <2> QED BY <2>4, <2>5
<1>7. ASSUME NEW d \in Daemons, Save(d)
      PROVE  LocksHeld' /\ Remembered' /\ Counted' /\ FiresOnlySustained'
  <2>1. /\ pc[d] = "save" /\ pc'[d] \in {"top", "sleep"}
        /\ \A e \in Daemons : e # d => pc'[e] = pc[e]
        /\ UNCHANGED <<lock, pidLock, mem, cfg, escalated, streak, resumed>>
        /\ \/ stateFile' = mem[d] /\ unsaved' = {}
           \/ UNCHANGED <<stateFile, unsaved>>
    BY <1>0, <1>7 DEF Save, TypeOK
  <2>2. \A e \in Daemons \ {d} : pc[e] \notin {"pid"} \cup Looping
    BY <1>0, <2>1, LoopHoldsLock
  <2>3. LocksHeld' /\ FiresOnlySustained'
    BY <1>0, <2>1, <2>2 DEF LocksHeld, FiresOnlySustained
  <2>4. Remembered' /\ Counted'
    BY <1>0, <2>1, <2>2 DEF Remembered, Counted
  <2> QED BY <2>3, <2>4
<1>8. ASSUME NEW d \in Daemons, Exit(d) \/ Crash(d)
      PROVE  LocksHeld' /\ Remembered' /\ Counted' /\ FiresOnlySustained'
  <2>1. /\ pc[d] # "off" /\ pc'[d] = "off" /\ LeaveBehind(d)
        /\ \A e \in Daemons : e # d => /\ pc'[e] = pc[e] /\ mem'[e] = mem[e]
                                      /\ fired'[e] = fired[e] /\ cfg'[e] = cfg[e]
        /\ UNCHANGED stateFile
    BY <1>0, <1>8 DEF Exit, Crash, Forget, TypeOK
  <2>2. \A e \in Daemons : e # d /\ pc[e] \in {"pid"} \cup Looping => pidLock = e /\ pidLock' = e
    <3>1. \A e \in Daemons : pc[e] \in {"pid"} \cup Looping => pidLock = e
      BY <1>0 DEF LocksHeld
    <3>2. CASE Exit(d)
      <4>1. pc[d] \in Looping
        BY <3>2 DEF Exit
      <4> QED BY <3>1, <4>1
    <3>3. CASE Crash(d)
      BY <3>1, <3>3 DEF Crash
    <3> QED BY <1>8, <3>2, <3>3
  <2>3. \A e \in Daemons : e # d /\ pc[e] \in Planning => lock' = e
    BY <1>0, <1>8 DEF Exit, Crash, LocksHeld
  <2>4. LocksHeld'
    BY <2>1, <2>2, <2>3 DEF LocksHeld
  <2>5. CASE pc[d] \in Looping
    <3>1. \A e \in Daemons : pc'[e] \notin Looping
      BY <1>0, <2>1, <2>5, LoopHoldsLock
    <3>2. /\ escalated' = stateFile.last /\ streak' = streak /\ unsaved' = {}
          /\ \A k \in Kinds : k \in unsaved \cup resumed /\ k \notin resumed' =>
               stateFile.sustained[k] <= streak[k]
      BY <1>0, <2>1, <2>5, LeftBehind
    <3>3. Remembered' /\ Counted'
      BY <1>0, <2>1, <3>1, <3>2 DEF Remembered, Counted
    <3>4. FiresOnlySustained'
      BY <3>1 DEF FiresOnlySustained
    <3> QED BY <2>4, <3>3, <3>4
  <2>6. CASE pc[d] \notin Looping
    <3>1. UNCHANGED <<escalated, tickVars>>
      BY <2>1, <2>6 DEF LeaveBehind
    <3>2. Remembered' /\ Counted'
      BY <1>0, <2>1, <2>6, <3>1 DEF Remembered, Counted
    <3>3. FiresOnlySustained'
      BY <1>0, <2>1, <3>1 DEF FiresOnlySustained
    <3> QED BY <2>4, <3>2, <3>3
  <2> QED BY <2>5, <2>6
<1>9. CASE \/ \E d \in Daemons : Signal(d)
           \/ Stop \/ ReadInbox \/ Clock
  <2>1. UNCHANGED <<lock, pidLock, pc, mem, stateFile, fired, cfg, escalated, tickVars>>
    BY <1>9 DEF Signal, Stop, StopRead, StopTerm, StopRemove, ReadInbox, Clock
  <2> QED BY <1>0, <2>1 DEF LocksHeld, Remembered, Counted, FiresOnlySustained
<1>10. CASE OtherLocks
  <2>1. /\ UNCHANGED <<pidLock, pc, mem, stateFile, fired, cfg, escalated, tickVars>>
        /\ lock \in {Nobody, OtherRun}
    BY <1>10 DEF OtherLocks
  <2>2. \A d \in Daemons : lock # d
    BY <2>1, NameAssumption
  <2> QED BY <1>0, <2>1, <2>2 DEF LocksHeld, Remembered, Counted, FiresOnlySustained
<1> QED BY <1>1, <1>2, <1>3, <1>4, <1>5, <1>6, <1>7, <1>8, <1>9, <1>10 DEF Next, DaemonStep
----------------------------------------------------------------------------
(* The inductive invariant: who holds the two locks, and that the memory of  *)
(* the daemon in the loop, or state.json when there is none, agrees with     *)
(* what happened.                                                            *)
THEOREM InvCorrect == Spec => []Inv
BY InvInit, InvStep, PTL DEF Spec

(* The pid lock has one holder. *)
LEMMA OneLoops == Inv => OneDaemon
BY DEF Inv, LocksHeld, OneDaemon

(* Two daemons are never in the loop at once, whatever "daemon stop" does    *)
(* with the pid file (run_daemon_foreground, try_lock_daemon_pid).           *)
THEOREM OnlyOneDaemon == Spec => []OneDaemon
BY InvCorrect, OneLoops, PTL

(* The daemon makes plans only while it holds the global lock                *)
(* (decide_escalation, run_daemon_escalation).                               *)
THEOREM PlansHoldTheLock == Spec => []PlansUnderLock
<1>1. Inv => PlansUnderLock
  BY DEF Inv, LocksHeld, PlansUnderLock
<1> QED BY <1>1, InvCorrect, PTL

(* No trigger fires before its metric was above the threshold for the        *)
(* configured number of evaluated ticks in a row (evaluate_triggers), unless *)
(* a daemon ended before a tick below the threshold was saved and the next   *)
(* one took up the count from before that tick (load_daemon_state).          *)
THEOREM SustainedTicks == Spec => []FiresOnlySustained
<1>1. Inv => FiresOnlySustained
  BY DEF Inv
<1> QED BY <1>1, InvCorrect, PTL

----------------------------------------------------------------------------
(* Daemon implements EscalationGate. *)

(* The start is a start of the gate. *)
LEMMA GateInit == Init => Gate!Init
BY DEF Init, Gate!Init, NewBundle, Planning

(* Escalate begins, the end of the plans ends, Save saves, and whatever      *)
(* starts or ends a daemon forgets; the gate does not see the rest.          *)
LEMMA GateStep == Inv /\ Inv' /\ [Next]_vars => [Gate!Next]_Gate!vars
<1> DEFINE planning == \E d \in Daemons : pc[d] \in Planning
<1> SUFFICES ASSUME Inv, Inv', [Next]_vars PROVE [Gate!Next]_Gate!vars
  OBVIOUS
<1>0. TypeOK /\ LocksHeld /\ Remembered
  BY DEF Inv
<1>A. ASSUME UNCHANGED <<now, escalated>>, stateFile'.last = stateFile.last,
             planning' <=> planning
      PROVE  UNCHANGED Gate!vars
  BY <1>A DEF Gate!vars
<1>L. ASSUME NEW d \in Daemons, pc[d] \in Looping
      PROVE  \A e \in Daemons \ {d} : pc[e] \notin {"pid"} \cup Looping
  BY <1>0, <1>L, LoopHoldsLock
<1>P. ASSUME NEW d \in Daemons, \A e \in Daemons : e # d => pc'[e] = pc[e],
             pc'[d] \in Planning <=> pc[d] \in Planning
      PROVE  planning' <=> planning
  BY <1>P
<1> HIDE DEF planning
<1> USE DEF fileVars, lockVars, memVars, boundVars, historyVars, tickVars, At, Goto, Looping, Planning
<1>1. CASE UNCHANGED vars
  <2>1. planning' <=> planning
    BY <1>1 DEF vars, planning
  <2> QED BY <1>1, <1>A, <2>1 DEF vars
<1>2. ASSUME NEW d \in Daemons,
             \/ Start(d) \/ TakePidLock(d) \/ Tick(d)
             \/ TryLock(d) \/ Defer(d) \/ Wake(d)
      PROVE  UNCHANGED Gate!vars
  <2>1. /\ \A e \in Daemons : e # d => pc'[e] = pc[e]
        /\ pc[d] \notin Planning /\ pc'[d] \notin Planning
        /\ UNCHANGED <<now, escalated, stateFile>>
    BY <1>0, <1>2
       DEF Start, TakePidLock, Tick, TryLock, Defer, Wake, TypeOK
  <2>2. planning' <=> planning
    BY <1>P, <2>1
  <2> QED BY <1>A, <2>1, <2>2
<1>3. ASSUME NEW d \in Daemons, ClaimPidFile(d) PROVE Gate!Forget \/ UNCHANGED Gate!vars
  <2>1. /\ pc[d] = "pid" /\ pc'[d] \in {"off", "top"}
        /\ \A e \in Daemons : e # d => pc'[e] = pc[e]
        /\ UNCHANGED <<now, stateFile>>
        /\ escalated' = escalated \/ (Faults /\ escalated' = Never)
    BY <1>0, <1>3 DEF ClaimPidFile, TypeOK
  <2>2. ~planning /\ ~planning'
    <3>1. \A e \in Daemons \ {d} : pc[e] \notin {"pid"} \cup Looping
      BY <1>0, <2>1, LoopHoldsLock
    <3> QED BY <2>1, <3>1 DEF planning
  <2>3. CASE escalated' = escalated
    BY <1>A, <2>1, <2>2, <2>3
  <2>4. CASE Faults /\ escalated' = Never
    BY <2>1, <2>2, <2>4 DEF Gate!Forget, planning
  <2> QED BY <2>1, <2>3, <2>4
<1>4. ASSUME NEW d \in Daemons, Escalate(d) PROVE Gate!Begin
  <2>1. /\ pc[d] = "decide" /\ pc'[d] = "quick" /\ ~TooSoon(d)
        /\ escalated' = now /\ UNCHANGED <<now, stateFile>>
    BY <1>0, <1>4 DEF Escalate, TypeOK
  <2>2. ~planning /\ planning'
    BY <1>L, <2>1 DEF planning
  <2>3. mem[d].last = escalated
    BY <1>0, <2>1 DEF Remembered
  <2>4. /\ now \in Nat /\ escalated \in Times /\ MinInterval \in Nat
        /\ cfg[d].interval \in Nat /\ MinInterval <= cfg[d].interval
    BY <1>0, ConfigAssumption DEF TypeOK
  <2>5. escalated = Never \/ now - escalated >= MinInterval
    BY <2>1, <2>3, <2>4 DEF TooSoon, Times
  <2> QED BY <2>1, <2>2, <2>5 DEF Gate!Begin, planning
<1>5. ASSUME NEW d \in Daemons, QuickEnds(d) \/ DeepEnds(d)
      PROVE  Gate!End \/ UNCHANGED Gate!vars
  <2>1. /\ pc[d] \in Planning /\ pc'[d] \in {"save", "deep"}
        /\ \A e \in Daemons : e # d => pc'[e] = pc[e]
        /\ UNCHANGED <<now, escalated, stateFile>>
    BY <1>0, <1>5 DEF QuickEnds, DeepEnds, TypeOK
  <2>2. CASE pc'[d] = "deep"
    <3>1. planning' <=> planning
      BY <1>P, <2>1, <2>2
    <3> QED BY <1>A, <2>1, <3>1
  <2>3. CASE pc'[d] = "save"
    <3>1. planning /\ ~planning'
      BY <1>L, <2>1, <2>3 DEF planning
    <3> QED BY <2>1, <3>1 DEF Gate!End, planning
  <2> QED BY <2>1, <2>2, <2>3
<1>6. ASSUME NEW d \in Daemons, Save(d) PROVE Gate!Save \/ UNCHANGED Gate!vars
  <2>1. /\ pc[d] = "save" /\ pc'[d] \in {"top", "sleep"}
        /\ \A e \in Daemons : e # d => pc'[e] = pc[e]
        /\ UNCHANGED <<now, escalated>> /\ stateFile' \in {mem[d], stateFile}
    BY <1>0, <1>6 DEF Save, TypeOK
  <2>2. ~planning /\ ~planning'
    BY <1>L, <2>1 DEF planning
  <2>3. mem[d].last = escalated
    BY <1>0, <2>1 DEF Remembered
  <2>4. CASE stateFile' = mem[d]
    BY <2>1, <2>2, <2>3, <2>4 DEF Gate!Save, planning
  <2>5. CASE stateFile' = stateFile
    BY <1>A, <2>1, <2>2, <2>5
  <2> QED BY <2>1, <2>4, <2>5
<1>7. ASSUME NEW d \in Daemons, Exit(d) \/ Crash(d)
      PROVE  Gate!Forget \/ UNCHANGED Gate!vars
  <2>1. /\ pc'[d] = "off" /\ LeaveBehind(d) /\ UNCHANGED <<now, stateFile>>
        /\ \A e \in Daemons : e # d => pc'[e] = pc[e]
    BY <1>0, <1>7 DEF Exit, Crash, TypeOK
  <2>2. CASE pc[d] \in Looping
    <3>1. escalated' = stateFile.last
      BY <1>0, <2>1, <2>2, LeftBehind
    <3>2. ~planning'
      BY <1>L, <2>1, <2>2 DEF planning
    <3> QED BY <2>1, <3>1, <3>2 DEF Gate!Forget, planning
  <2>3. CASE pc[d] \notin Looping
    <3>1. escalated' = escalated
      BY <2>1, <2>3 DEF LeaveBehind
    <3>2. planning' <=> planning
      BY <1>P, <2>1, <2>3
    <3> QED BY <1>A, <2>1, <3>1, <3>2
  <2> QED BY <2>2, <2>3
<1>8. CASE \/ \E d \in Daemons : Signal(d)
           \/ Stop \/ OtherLocks \/ ReadInbox
  <2>1. UNCHANGED <<now, pc, stateFile, escalated>>
    BY <1>8 DEF Signal, Stop, StopRead, StopTerm, StopRemove, OtherLocks, ReadInbox
  <2>2. planning' <=> planning
    BY <2>1 DEF planning
  <2> QED BY <1>A, <2>1, <2>2
<1>9. CASE Clock
  <2>1. now' = now + 1 /\ UNCHANGED <<pc, stateFile, escalated>>
    BY <1>9 DEF Clock
  <2> QED BY <2>1 DEF Gate!Clock, Gate!Next
<1> QED BY <1>1, <1>2, <1>4, <1>5, <1>6, <1>7, <1>8, <1>9, <1>3 DEF Next, DaemonStep, Gate!Next

(* Daemon escalation keeps the interval and makes one plan at a time, over   *)
(* crashes and restarts, and forgets only what state.json did not get        *)
(* (check_cooldown, save_daemon_state, load_daemon_state).                   *)
THEOREM DaemonImplementsGate == Spec => ImplementsGate
<1>1. Spec => Gate!Init
  BY GateInit DEF Spec
<1>2. Spec => [][Gate!Next]_Gate!vars
  BY InvCorrect, GateStep, PTL DEF Spec
<1> QED BY <1>1, <1>2, PTL DEF Gate!Spec, ImplementsGate
=============================================================================
