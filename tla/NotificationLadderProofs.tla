------------------------ MODULE NotificationLadderProofs ------------------------
(***************************************************************************)
(* The proofs about NotificationLadder: the notifications of an hour stay    *)
(* within the budget, and no item is told again too early, over restarts of  *)
(* the daemon, failing files and the other commands, for any items, limits   *)
(* and any number of faults.                                                 *)
(***************************************************************************)
EXTENDS NotificationLadder, SequenceTheorems, WellFoundedInduction, TLAPS

------------------------------------------------------------------------------
(* The greatest of some numbers, and the end of a log. *)

\* The greatest of some numbers up to n.
LEMMA Greatest ==
  ASSUME NEW n \in Nat, NEW S, S \subseteq 0..n, S # {}
  PROVE  Max(S) \in S /\ \A y \in S : Max(S) >= y
<1> DEFINE R == {p \in Nat \X Nat : p[1] < p[2]}
           T == {n - x : x \in S}
<1>1. IsWellFoundedOn(R, Nat)
  BY NatLessThanWellFounded DEF OpToRel
<1>2. T \subseteq Nat /\ T # {}
  <2>1. ASSUME NEW x \in S PROVE n - x \in Nat
    BY <2>1
  <2> QED BY <2>1
<1>3. PICK t \in T : \A u \in T : ~(<<u, t>> \in R)
  <2> HIDE DEF R, T
  <2> QED BY <1>1, <1>2, WFMin
<1>4. PICK x \in S : t = n - x
  OBVIOUS
<1>5. ASSUME NEW y \in S PROVE x >= y
  <2>1. n - y \in T /\ n - y \in Nat /\ t \in Nat /\ x \in Nat /\ y \in Nat /\ n - x \in Nat
    BY <1>2
  <2>2. ~(<<n - y, t>> \in R)
    <3> HIDE DEF R, T
    <3> QED BY <1>3, <2>1
  <2>3. n - y < t => <<n - y, t>> \in R
    BY <2>1
  <2> QED BY <1>4, <2>1, <2>2, <2>3
<1> QED BY <1>5 DEF Max

\* The end of a sequence.
LEMMA EndOf ==
  ASSUME NEW S, NEW s \in Seq(S), NEW n \in 0..Len(s)
  PROVE  /\ SubSeq(s, n + 1, Len(s)) \in Seq(S)
         /\ Len(SubSeq(s, n + 1, Len(s))) = Len(s) - n
         /\ \A i \in 1..(Len(s) - n) : SubSeq(s, n + 1, Len(s))[i] = s[n + i]
<1>1. Len(s) \in Nat /\ n \in Nat /\ n <= Len(s)
  BY LenProperties
<1> QED BY <1>1

\* What Younger leaves is the end of the log after the last entry that is too old.
LEMMA YoungerIs ==
  ASSUME NEW log \in Seq(Nat), NEW age \in Nat
  PROVE  \E n \in 0..Len(log) :
           /\ Younger(log, age) = SubSeq(log, n + 1, Len(log))
           /\ n # 0 => log[n] >= age
           /\ \A i \in (n + 1)..Len(log) : log[i] < age
<1> DEFINE old == {i \in DOMAIN log : log[i] >= age}
           n == Max({0} \cup old)
<1>1. Len(log) \in Nat /\ DOMAIN log = 1..Len(log) /\ \A i \in 1..Len(log) : log[i] \in Nat
  BY LenProperties, ElementOfSeq
<1>2. n \in {0} \cup old /\ \A y \in {0} \cup old : n >= y
  <2>1. {0} \cup old \subseteq 0..Len(log) /\ {0} \cup old # {}
    BY <1>1
  <2> HIDE DEF old
  <2> QED BY <1>1, <2>1, Greatest
<1>3. Younger(log, age) = SubSeq(log, n + 1, Len(log))
  BY DEF Younger
<1> HIDE DEF n
<1>4. n \in 0..Len(log) /\ (n # 0 => log[n] >= age)
  BY <1>1, <1>2
<1>5. ASSUME NEW i \in (n + 1)..Len(log) PROVE log[i] < age
  <2>1. i \in 1..Len(log) /\ ~(n >= i)
    BY <1>1, <1>4
  <2>2. i \notin old
    BY <1>2, <2>1
  <2> QED BY <1>1, <2>1, <2>2
<1> QED BY <1>3, <1>4, <1>5

------------------------------------------------------------------------------
(* The budget. *)

\* The first n ages are those of the last n entries of a log.
Logged(ages, n, log) ==
  /\ n <= Len(log)
  /\ \A i \in 1..n : ages[i] = log[Len(log) - n + i]

\* What is not too old stays at the end of a log.
LEMMA YoungerLogged ==
  ASSUME NEW log \in Seq(Nat), NEW age \in Nat, NEW ages \in Seq(Nat), NEW n \in 0..Len(ages),
         Logged(ages, n, log), \A i \in 1..n : ages[i] < age
  PROVE  Younger(log, age) \in Seq(Nat) /\ Logged(ages, n, Younger(log, age))
<1>1. PICK m \in 0..Len(log) :
        /\ Younger(log, age) = SubSeq(log, m + 1, Len(log))
        /\ m # 0 => log[m] >= age
  BY YoungerIs
<1> DEFINE y == Younger(log, age)
<1>2. y \in Seq(Nat) /\ Len(y) = Len(log) - m /\ \A i \in 1..(Len(log) - m) : y[i] = log[m + i]
  BY <1>1, EndOf
<1> HIDE DEF y
<1>3. Len(log) \in Nat /\ Len(ages) \in Nat /\ n \in Nat /\ m \in Nat /\ n <= Len(log) /\ m <= Len(log)
  BY <1>1, LenProperties DEF Logged
<1>4. n <= Len(log) - m
  <2> SUFFICES ASSUME ~(n <= Len(log) - m) PROVE FALSE
    OBVIOUS
  <2> DEFINE i == m - (Len(log) - n)
  <2>1. i \in 1..n /\ Len(log) - n + i = m /\ m # 0
    BY <1>3
  <2>2. ages[i] < age /\ ages[i] = log[m]
    <3> HIDE DEF i
    <3> QED BY <2>1 DEF Logged
  <2>3. log[m] \in Nat /\ log[m] >= age
    <3>1. m \in 1..Len(log)
      BY <1>3, <2>1
    <3>2. log[m] \in Nat
      BY <3>1, ElementOfSeq
    <3> QED BY <1>1, <2>1, <3>2
  <2> QED BY <2>2, <2>3
<1>5. ASSUME NEW i \in 1..n PROVE ages[i] = y[Len(y) - n + i]
  <2> DEFINE j == Len(log) - m - n + i
  <2>1. j \in 1..(Len(log) - m) /\ m + j = Len(log) - n + i /\ Len(y) - n + i = j
    BY <1>2, <1>3, <1>4
  <2>2. y[j] = log[m + j]
    BY <1>2, <2>1
  <2> QED BY <2>1, <2>2 DEF Logged
<1> QED BY <1>2, <1>3, <1>4, <1>5 DEF Logged, y

\* One more entry.
LEMMA AppendLogged ==
  ASSUME NEW log \in Seq(Nat), NEW ages \in Seq(Nat), NEW a \in Nat, Logged(ages, Len(ages), log)
  PROVE  Logged(Append(ages, a), Len(ages) + 1, Append(log, a))
<1>1. /\ Len(log) \in Nat /\ Len(ages) \in Nat /\ Len(ages) <= Len(log)
      /\ Len(Append(log, a)) = Len(log) + 1
      /\ \A i \in 1..Len(log) : Append(log, a)[i] = log[i]
      /\ Append(log, a)[Len(log) + 1] = a
      /\ \A i \in 1..Len(ages) : Append(ages, a)[i] = ages[i]
      /\ Append(ages, a)[Len(ages) + 1] = a
  BY LenProperties, AppendProperties DEF Logged
<1>2. ASSUME NEW i \in 1..(Len(ages) + 1)
      PROVE  Append(ages, a)[i] = Append(log, a)[Len(Append(log, a)) - (Len(ages) + 1) + i]
  <2>1. Len(Append(log, a)) - (Len(ages) + 1) + i = Len(log) - Len(ages) + i
    BY <1>1
  <2>2. CASE i = Len(ages) + 1
    <3>1. Len(log) - Len(ages) + i = Len(log) + 1
      BY <1>1, <2>2
    <3> QED BY <1>1, <2>1, <2>2, <3>1
  <2>3. CASE i # Len(ages) + 1
    <3>1. i \in 1..Len(ages) /\ Len(log) - Len(ages) + i \in 1..Len(log)
      BY <1>1, <2>3
    <3>2. ages[i] = log[Len(log) - Len(ages) + i]
      BY <3>1 DEF Logged
    <3> QED BY <1>1, <2>1, <3>1, <3>2
  <2> QED BY <2>2, <2>3
<1>3. Len(ages) + 1 <= Len(Append(log, a))
  BY <1>1
<1> QED BY <1>1, <1>2, <1>3 DEF Logged

\* Without the new entry.
LEMMA AppendUnlogged ==
  ASSUME NEW ages \in Seq(Nat), NEW n \in 0..Len(ages), NEW a \in Nat, NEW log, Logged(ages, n, log)
  PROVE  Logged(Append(ages, a), n, log)
<1>1. \A i \in 1..n : Append(ages, a)[i] = ages[i]
  BY LenProperties, AppendProperties
<1> QED BY <1>1 DEF Logged

------------------------------------------------------------------------------
(* Types. *)

Statuses == {"none", "unread", "acked", "gone", "lost"}
TriggerState == [first : Nat, seen : Nat, sent : Nat, level : 0..4]

\* The states of a manager, and all of it.
StatesOK(states) ==
  /\ DOMAIN states \subseteq Items
  /\ \A k \in DOMAIN states : states[k] \in TriggerState
ManagerOK(m) == m.log \in Seq(Nat) /\ StatesOK(m.states)

LadderTypes ==
  /\ items \in [Items -> [status : Statuses, age : Nat]]
  /\ pc \in {"down", "top", "plan", "save"}
  /\ faults \in Nat
  /\ lag \in 0..MaxPlan /\ (pc \in {"down", "top"} => lag = 0)
  /\ ManagerOK(manager) /\ ManagerOK(saved)
  /\ told \in [Items -> [level : 0..4, age : Nat, saved : BOOLEAN]]
  /\ sent \in [ages : Seq(Nat), saved : Nat]
  /\ sent.saved <= Len(sent.ages)

\* The times are numbers.
LEMMA Times ==
  /\ Budget \in Nat /\ Hour \in Nat /\ Cooldown \in Nat /\ Stale \in Nat /\ MaxPlan \in Nat /\ MaxFaults \in Nat
  /\ After \in [2..4 -> Nat] /\ Severity \in [Items -> 0..2]
BY TimesAssumption

\* A level is one of the four.
LEMMA Levels ==
  ASSUME NEW k, NEW st
  PROVE  Desired(k, st) \in 1..4
<1> DEFINE S == {1} \cup {l \in 2..4 : Ago(st.first) >= After[l] /\ (config.confident \/ Severity[k] >= Critical)}
<1>1. S \subseteq 0..4 /\ S # {} /\ S \subseteq 1..4
  OBVIOUS
<1>2. Desired(k, st) = Max(S)
  BY DEF Desired
<1> HIDE DEF S
<1>3. Max(S) \in S
  BY <1>1, Greatest
<1> QED BY <1>1, <1>2, <1>3

\* Ages go on or stop, and are numbers.
LEMMA OlderIs ==
  ASSUME NEW age \in Nat, NEW limit \in Nat
  PROVE  /\ Older(age, limit) \in Nat /\ Older(age, limit) \in {age, age + 1}
         /\ age < limit + MaxPlan => Older(age, limit) = age + 1
BY Times DEF Older

\* The highest of the levels' ages.
LEMMA HighestIs == Highest \in Nat /\ Max({Stale, Highest}) \in Nat /\ Max({Stale, Highest}) >= Stale
<1>1. After[2] \in Nat /\ After[3] \in Nat /\ After[4] \in Nat
  BY Times
<1>2. {After[l] : l \in 2..4} = {After[2], After[3], After[4]}
  OBVIOUS
<1>3. Highest \in Nat
  <2> DEFINE n == After[2] + After[3] + After[4]
             S == {After[2], After[3], After[4]}
  <2>1. n \in Nat /\ S \subseteq 0..n /\ S \subseteq Nat /\ S # {}
    BY <1>1
  <2>2. Highest = Max(S)
    BY <1>2 DEF Highest
  <2> HIDE DEF n, S
  <2>3. Max(S) \in S
    BY <2>1, Greatest
  <2>4. Max(S) \in Nat
    BY <2>1, <2>3
  <2> QED BY <2>2, <2>4
<1>4. Max({Stale, Highest}) \in Nat /\ Max({Stale, Highest}) >= Stale
  <2> DEFINE n == Stale + Highest
             S == {Stale, Highest}
  <2>1. n \in Nat /\ S \subseteq 0..n /\ S # {} /\ Stale \in S
    BY <1>3, Times
  <2> HIDE DEF n, S
  <2>3. Max(S) \in S /\ Max(S) >= Stale
    BY <2>1, Greatest
  <2> QED BY <2>1, <2>3 DEF S
<1> QED BY <1>3, <1>4

\* A manager's log without what is older than an hour.
LEMMA FreshType ==
  ASSUME NEW log \in Seq(Nat), lag \in Nat
  PROVE  Fresh(log) \in Seq(Nat)
<1>1. Hour + lag \in Nat
  BY Times
<1>2. PICK n \in 0..Len(log) : Younger(log, Hour + lag) = SubSeq(log, n + 1, Len(log))
  BY <1>1, YoungerIs
<1> QED BY <1>2, EndOf DEF Fresh

\* A flush: the types that it leaves.
LEMMA FlushTypes ==
  ASSUME LadderTypes, NEW states, StatesOK(states), NEW log \in Seq(Nat), NEW pending,
         NEW before \in [Items -> [level : 0..4, age : Nat, saved : BOOLEAN]],
         Flush(states, log, pending, before)
  PROVE  /\ ManagerOK(manager')
         /\ told' \in [Items -> [level : 0..4, age : Nat, saved : BOOLEAN]]
         /\ sent' \in [ages : Seq(Nat), saved : Nat] /\ sent'.saved = sent.saved
         /\ sent' = sent \/ (sent'.ages = Append(sent.ages, lag) /\ lag < Hour)
<1> DEFINE fresh == IF pending = {} THEN log ELSE Fresh(log)
           due == {k \in pending \cap DOMAIN states : BudgetLeft(fresh) /\ Due(k, states[k])}
           after == [k \in DOMAIN states |->
                      IF k \in due THEN [states[k] EXCEPT !.sent = lag, !.level = Desired(k, states[k])]
                      ELSE states[k]]
<1>1. /\ manager' = [states |-> after, log |-> IF due = {} THEN fresh ELSE Append(fresh, lag)]
      /\ told' = [k \in Items |-> IF k \in due THEN [level |-> Desired(k, states[k]), age |-> lag, saved |-> FALSE]
                                  ELSE before[k]]
      /\ sent' = IF due = {} \/ lag >= Hour THEN sent ELSE [sent EXCEPT !.ages = Append(@, lag)]
  BY DEF Flush
<1>2. lag \in Nat /\ sent \in [ages : Seq(Nat), saved : Nat]
  BY Times DEF LadderTypes
<1>3. fresh \in Seq(Nat)
  BY <1>2, FreshType
<1>4. StatesOK(after)
  <2>1. DOMAIN after = DOMAIN states
    OBVIOUS
  <2>2. ASSUME NEW k \in DOMAIN states PROVE after[k] \in TriggerState
    <3>1. states[k] \in TriggerState /\ Desired(k, states[k]) \in 0..4
      BY Levels DEF StatesOK
    <3> QED BY <1>2, <3>1 DEF TriggerState
  <2> QED BY <2>1, <2>2 DEF StatesOK
<1> HIDE DEF after, due, fresh
<1>5. ManagerOK(manager')
  <2>1. manager'.log \in Seq(Nat)
    BY <1>1, <1>2, <1>3, AppendProperties
  <2> QED BY <1>1, <1>4, <2>1 DEF ManagerOK
<1>6. told' \in [Items -> [level : 0..4, age : Nat, saved : BOOLEAN]]
  <2>1. ASSUME NEW k \in Items PROVE told'[k] \in [level : 0..4, age : Nat, saved : BOOLEAN]
    <3>1. [level |-> Desired(k, states[k]), age |-> lag, saved |-> FALSE] \in [level : 0..4, age : Nat, saved : BOOLEAN]
      BY <1>2, Levels
    <3> QED BY <1>1, <3>1
  <2> QED BY <1>1, <2>1
<1>7. /\ sent' \in [ages : Seq(Nat), saved : Nat] /\ sent'.saved = sent.saved
      /\ sent' = sent \/ (sent'.ages = Append(sent.ages, lag) /\ lag < Hour)
  <2>1. CASE due = {} \/ lag >= Hour
    BY <1>1, <1>2, <2>1
  <2>2. CASE ~(due = {} \/ lag >= Hour)
    <3> DEFINE x == Append(sent.ages, lag)
    <3>1. x \in Seq(Nat) /\ lag < Hour
      BY <1>2, <2>2, Times, AppendProperties
    <3>2. sent' = [sent EXCEPT !.ages = x]
      BY <1>1, <2>2
    <3> HIDE DEF x
    <3>3. sent' \in [ages : Seq(Nat), saved : Nat] /\ sent'.saved = sent.saved /\ sent'.ages = x
      BY <1>2, <3>1, <3>2
    <3> QED BY <3>1, <3>3 DEF x
  <2> QED BY <2>1, <2>2
<1> QED BY <1>5, <1>6, <1>7

\* The states that the unread items leave.
LEMMA SubmittedTypes ==
  ASSUME LadderTypes, NEW states, StatesOK(states), NEW first
  PROVE  StatesOK(Submitted(states, first))
<1> DEFINE young(age) == Ago(age) < Stale
           known == {k \in DOMAIN states : young(states[k].seen) \/ (k = first /\ k \in Submittable)}
           new == {k \in Submittable \ known : young(items[k].age)}
           after == [k \in known \cup new |->
                      IF k \notin known THEN FirstSeen(items[k].age)
                      ELSE IF k \in Submittable THEN Seen(states[k], lag) ELSE states[k]]
<1>1. Submitted(states, first) = after
  BY DEF Submitted
<1>2. lag \in Nat
  BY Times DEF LadderTypes
<1>3. known \cup new \subseteq Items /\ DOMAIN after = known \cup new
  BY DEF StatesOK, Submittable, With
<1>4. ASSUME NEW k \in known \cup new PROVE after[k] \in TriggerState
  <2>1. k \in known => states[k] \in TriggerState
    BY DEF StatesOK
  <2>2. items[k].age \in Nat
    BY <1>3 DEF LadderTypes
  <2>3. FirstSeen(items[k].age) \in TriggerState
    BY <2>2 DEF FirstSeen, TriggerState
  <2>4. k \in known => Seen(states[k], lag) \in TriggerState
    BY <1>2, <2>1 DEF Seen, TriggerState
  <2> HIDE DEF known, new
  <2> QED BY <2>1, <2>3, <2>4
<1> QED BY <1>1, <1>3, <1>4 DEF StatesOK

\* The states that an escalation leaves.
LEMMA EscalatedTypes ==
  ASSUME NEW states, StatesOK(states), NEW k \in Items, NEW young, young \subseteq DOMAIN states,
         NEW pending \in SUBSET {k}
  PROVE  StatesOK([j \in young \cup pending |-> IF j = k THEN FirstSeen(0) ELSE states[j]])
<1>1. FirstSeen(0) \in TriggerState
  BY DEF FirstSeen, TriggerState
<1>2. \A j \in young \cup pending : j # k => states[j] \in TriggerState
  BY DEF StatesOK
<1>3. young \cup pending \subseteq Items
  BY DEF StatesOK
<1> QED BY <1>1, <1>2, <1>3 DEF StatesOK

\* A look at the inbox.
LEMMA LookTypes ==
  ASSUME LadderTypes, Look
  PROVE  /\ ManagerOK(manager')
         /\ told' \in [Items -> [level : 0..4, age : Nat, saved : BOOLEAN]]
         /\ sent' \in [ages : Seq(Nat), saved : Nat] /\ sent'.saved = sent.saved
         /\ sent' = sent \/ (sent'.ages = Append(sent.ages, lag) /\ lag < Hour)
<1> DEFINE acked == With("acked")
           states == Restrict(manager.states, DOMAIN manager.states \ acked)
           before == [k \in Items |-> IF k \in acked THEN NotTold ELSE told[k]]
<1>1. StatesOK(states)
  BY DEF LadderTypes, ManagerOK, StatesOK, Restrict
<1>2. before \in [Items -> [level : 0..4, age : Nat, saved : BOOLEAN]]
  <2>1. NotTold \in [level : 0..4, age : Nat, saved : BOOLEAN]
    BY DEF NotTold
  <2>2. \A k \in Items : told[k] \in [level : 0..4, age : Nat, saved : BOOLEAN]
    BY DEF LadderTypes
  <2> QED BY <2>1, <2>2
<1>3. manager.log \in Seq(Nat) /\ Fresh(manager.log) \in Seq(Nat)
  BY Times, FreshType DEF LadderTypes, ManagerOK
<1>4. \/ Flush(states, manager.log, {}, before)
      \/ \E first \in With("unread") : Flush(Submitted(states, first), Fresh(manager.log), Submittable, before)
  BY DEF Look
<1> HIDE DEF states, before
<1>5. CASE Flush(states, manager.log, {}, before)
  BY <1>1, <1>2, <1>3, <1>5, FlushTypes
<1>6. ASSUME NEW first \in With("unread"), Flush(Submitted(states, first), Fresh(manager.log), Submittable, before)
      PROVE  /\ ManagerOK(manager')
             /\ told' \in [Items -> [level : 0..4, age : Nat, saved : BOOLEAN]]
             /\ sent' \in [ages : Seq(Nat), saved : Nat] /\ sent'.saved = sent.saved
             /\ sent' = sent \/ (sent'.ages = Append(sent.ages, lag) /\ lag < Hour)
  <2>1. StatesOK(Submitted(states, first))
    BY <1>1, SubmittedTypes
  <2> QED BY <1>2, <1>3, <1>6, <2>1, FlushTypes
<1> QED BY <1>4, <1>5, <1>6

\* A manager whose times go on.
LEMMA OlderTypes ==
  ASSUME NEW m, ManagerOK(m)
  PROVE  ManagerOK(OlderState(m))
<1> DEFINE after == [k \in DOMAIN m.states |->
                 [first |-> Older(m.states[k].first, Highest), seen |-> Older(m.states[k].seen, Stale),
                  sent |-> Older(m.states[k].sent, Cooldown), level |-> m.states[k].level]]
           log == [i \in DOMAIN m.log |-> Older(m.log[i], Hour)]
<1>1. OlderState(m).states = after /\ OlderState(m).log = log
  BY DEF OlderState
<1>2. ASSUME NEW k \in DOMAIN m.states PROVE after[k] \in TriggerState
  <2>1. m.states[k] \in TriggerState
    BY DEF ManagerOK, StatesOK
  <2>2. /\ m.states[k].first \in Nat /\ m.states[k].seen \in Nat /\ m.states[k].sent \in Nat
        /\ m.states[k].level \in 0..4
    BY <2>1 DEF TriggerState
  <2>3. /\ Older(m.states[k].first, Highest) \in Nat /\ Older(m.states[k].seen, Stale) \in Nat
        /\ Older(m.states[k].sent, Cooldown) \in Nat
    BY <2>2, Times, HighestIs, OlderIs
  <2> QED BY <2>2, <2>3 DEF TriggerState
<1>3. StatesOK(after)
  BY <1>2 DEF StatesOK, ManagerOK
<1>4. log \in Seq(Nat)
  <2>1. m.log \in Seq(Nat) /\ DOMAIN m.log = 1..Len(m.log) /\ Len(m.log) \in Nat
    BY LenProperties DEF ManagerOK
  <2>2. ASSUME NEW i \in 1..Len(m.log) PROVE Older(m.log[i], Hour) \in Nat
    BY <2>1, Times, OlderIs, ElementOfSeq
  <2> QED BY <2>1, <2>2
<1> HIDE DEF after, log
<1> QED BY <1>1, <1>3, <1>4 DEF ManagerOK

\* The notifications of the last hour, when time goes on.
LEMMA SentLater ==
  ASSUME NEW ages \in Seq(Nat), NEW age \in Nat
  PROVE  /\ Younger([i \in DOMAIN ages |-> ages[i] + 1], age) \in Seq(Nat)
         /\ \E n \in 0..Len(ages) :
              /\ Len(Younger([i \in DOMAIN ages |-> ages[i] + 1], age)) = Len(ages) - n
              /\ \A i \in 1..(Len(ages) - n) :
                   /\ Younger([j \in DOMAIN ages |-> ages[j] + 1], age)[i] = ages[n + i] + 1
                   /\ ages[n + i] + 1 < age
<1> DEFINE later == [i \in DOMAIN ages |-> ages[i] + 1]
<1>1. Len(ages) \in Nat /\ DOMAIN ages = 1..Len(ages) /\ \A i \in 1..Len(ages) : ages[i] \in Nat
  BY LenProperties, ElementOfSeq
<1>2. later \in Seq(Nat) /\ Len(later) = Len(ages) /\ \A i \in 1..Len(ages) : later[i] = ages[i] + 1
  BY <1>1
<1> HIDE DEF later
<1>3. PICK n \in 0..Len(later) :
        /\ Younger(later, age) = SubSeq(later, n + 1, Len(later))
        /\ \A i \in (n + 1)..Len(later) : later[i] < age
  BY <1>2, YoungerIs
<1>4. /\ Younger(later, age) \in Seq(Nat) /\ Len(Younger(later, age)) = Len(ages) - n
      /\ \A i \in 1..(Len(ages) - n) : Younger(later, age)[i] = later[n + i]
  <2> DEFINE e == SubSeq(later, n + 1, Len(later))
  <2>1. /\ e \in Seq(Nat) /\ Len(e) = Len(later) - n
        /\ \A i \in 1..(Len(later) - n) : e[i] = later[n + i]
    BY <1>2, <1>3, EndOf
  <2> HIDE DEF e
  <2>2. Younger(later, age) = e
    BY <1>3 DEF e
  <2> QED BY <1>2, <2>1, <2>2
<1>5. ASSUME NEW i \in 1..(Len(ages) - n)
      PROVE  Younger(later, age)[i] = ages[n + i] + 1 /\ ages[n + i] + 1 < age
  <2>1. n + i \in 1..Len(ages) /\ n + i \in (n + 1)..Len(later)
    BY <1>1, <1>2, <1>3
  <2> QED BY <1>2, <1>3, <1>4, <2>1
<1> QED BY <1>2, <1>3, <1>4, <1>5 DEF later

\* The greater of two numbers.
LEMMA MaxOfTwo ==
  ASSUME NEW i \in Int, NEW j \in Int
  PROVE  Max({i, j}) = IF i >= j THEN i ELSE j
<1> DEFINE m == IF i >= j THEN i ELSE j
<1>1. m \in {i, j} /\ \A y \in {i, j} : m >= y
  OBVIOUS
<1>2. \A x \in {i, j} : (\A y \in {i, j} : x >= y) => x = m
  OBVIOUS
<1> HIDE DEF m
<1>3. Max({i, j}) = m
  BY <1>1, <1>2 DEF Max
<1> QED BY <1>3 DEF m

Tellings == [level : 0..4, age : Nat, saved : BOOLEAN]

\* A step of the other commands on some items.
LEMMA SetStatusTypes ==
  ASSUME LadderTypes, NEW ks, NEW status \in Statuses, SetStatus(ks, status), faults' \in Nat
  PROVE  LadderTypes'
<1>1. items' \in [Items -> [status : Statuses, age : Nat]]
  <2>1. ASSUME NEW k \in Items
        PROVE  (IF k \notin ks THEN items[k]
                ELSE [status |-> status, age |-> IF Kept(status) THEN items[k].age ELSE 0])
                 \in [status : Statuses, age : Nat]
    <3>1. items[k] \in [status : Statuses, age : Nat]
      BY DEF LadderTypes
    <3>2. (IF Kept(status) THEN items[k].age ELSE 0) \in Nat
      BY <3>1
    <3> QED BY <3>1, <3>2
  <2> QED BY <2>1 DEF SetStatus
<1>2. UNCHANGED <<pc, lag, manager, saved, told, sent>>
  BY DEF SetStatus
<1> QED BY <1>1, <1>2 DEF LadderTypes

\* What the daemon's steps do to the items.
LEMMA AddedTypes ==
  ASSUME LadderTypes, NEW k \in Items, NEW status \in Statuses, Added(k, status)
  PROVE  items' \in [Items -> [status : Statuses, age : Nat]]
<1>1. [status |-> status, age |-> 0] \in [status : Statuses, age : Nat]
  OBVIOUS
<1>2. items \in [Items -> [status : Statuses, age : Nat]]
  BY DEF LadderTypes
<1>3. items' = [items EXCEPT ![k] = [status |-> status, age |-> 0]]
  BY DEF Added
<1> QED BY <1>1, <1>2, <1>3

\* The empty state is that of a manager.
LEMMA NoStateOK == ManagerOK(NoState) /\ NoState.states = <<>> /\ NoState.log = <<>> /\ DOMAIN NoState.states = {}
<1>1. <<>> \in Seq(Nat) /\ DOMAIN <<>> = {}
  BY EmptySeq
<1> QED BY <1>1 DEF ManagerOK, StatesOK, NoState

\* One that was not told of anything.
LEMMA NotToldType == NotTold \in Tellings /\ NotTold.level = 0 /\ NotTold.saved = TRUE
BY DEF NotTold, Tellings

\* A start of the daemon.
LEMMA StartTypes ==
  ASSUME LadderTypes, Start
  PROVE  LadderTypes'
<1>1. pc' = "top" /\ pc = "down" /\ UNCHANGED <<items, lag, saved>>
  BY DEF Start, Goto
<1>2. CASE /\ manager' = saved
           /\ told' = [k \in Items |-> IF told[k].saved THEN told[k] ELSE NotTold]
           /\ sent' = [sent EXCEPT !.ages = SubSeq(@, 1, sent.saved)]
           /\ UNCHANGED faults
  <2>1. told' \in [Items -> Tellings]
    <3>1. \A k \in Items : told[k] \in Tellings
      BY DEF LadderTypes, Tellings
    <3> QED BY <1>2, <3>1, NotToldType
  <2>2. sent' \in [ages : Seq(Nat), saved : Nat] /\ sent'.saved <= Len(sent'.ages)
    <3> DEFINE x == SubSeq(sent.ages, 1, sent.saved)
    <3>1. sent \in [ages : Seq(Nat), saved : Nat] /\ sent.saved <= Len(sent.ages)
      BY DEF LadderTypes
    <3>2. x \in Seq(Nat) /\ Len(x) = sent.saved
      BY <3>1
    <3>3. sent' = [sent EXCEPT !.ages = x]
      BY <1>2
    <3> HIDE DEF x
    <3> QED BY <3>1, <3>2, <3>3
  <2> QED BY <1>1, <1>2, <2>1, <2>2 DEF LadderTypes, Tellings
<1>3. CASE /\ Fault
           /\ manager' = NoState
           /\ told' = [k \in Items |-> NotTold]
           /\ sent' = NotSent
  <2>1. told' \in [Items -> Tellings]
    BY <1>3, NotToldType
  <2>2. sent' \in [ages : Seq(Nat), saved : Nat] /\ sent'.saved <= Len(sent'.ages)
    BY <1>3, EmptySeq DEF NotSent
  <2>3. faults' \in Nat
    BY <1>3 DEF Fault, LadderTypes
  <2> QED BY <1>1, <1>3, <2>1, <2>2, <2>3, NoStateOK DEF LadderTypes, Tellings
<1> QED BY <1>2, <1>3 DEF Start

\* A refresh of the notifications.
LEMMA RefreshTypes ==
  ASSUME LadderTypes, Refresh
  PROVE  LadderTypes'
<1>1. pc = "top" /\ pc' = "plan" /\ UNCHANGED <<items, lag, saved>>
  BY DEF Refresh, Goto
<1>2. faults' \in Nat
  BY DEF Refresh, Fault, LadderTypes
<1>3. CASE Look
  <2>1. /\ ManagerOK(manager') /\ told' \in [Items -> Tellings]
        /\ sent' \in [ages : Seq(Nat), saved : Nat] /\ sent'.saved = sent.saved
        /\ sent' = sent \/ (sent'.ages = Append(sent.ages, lag) /\ lag < Hour)
    BY <1>3, LookTypes DEF Tellings
  <2>2. sent'.saved <= Len(sent'.ages)
    <3>1. sent.ages \in Seq(Nat) /\ lag \in Nat /\ sent.saved \in Nat /\ sent.saved <= Len(sent.ages)
      BY Times DEF LadderTypes
    <3>2. Len(Append(sent.ages, lag)) = Len(sent.ages) + 1 /\ Len(sent.ages) \in Nat
      BY <3>1
    <3> QED BY <2>1, <3>1, <3>2
  <2> QED BY <1>1, <1>2, <2>1, <2>2 DEF LadderTypes, Tellings
<1>4. CASE UNCHANGED <<manager, told, sent>>
  BY <1>1, <1>2, <1>4 DEF LadderTypes
<1> QED BY <1>3, <1>4 DEF Refresh

\* An escalation.
LEMMA EscalateTypes ==
  ASSUME LadderTypes, NEW k \in Items, Escalate(k)
  PROVE  LadderTypes'
<1>1. pc = "plan" /\ pc' = "save" /\ UNCHANGED <<lag, saved>>
  BY DEF Escalate, Goto
<1>2. faults' \in Nat
  BY DEF Escalate, Fault, LadderTypes
<1>3. items' \in [Items -> [status : Statuses, age : Nat]]
  BY AddedTypes DEF Escalate, Statuses
<1> DEFINE pending == IF Severity[k] >= Warning THEN {k} ELSE {}
           young == {j \in DOMAIN manager.states : Ago(manager.states[j].seen) < Stale}
           states == [j \in young \cup pending |-> IF j = k THEN FirstSeen(0) ELSE manager.states[j]]
<1>4. CASE Flush(states, Fresh(manager.log), pending, told)
  <2>1. StatesOK(states)
    <3>1. StatesOK(manager.states) /\ pending \in SUBSET {k} /\ young \subseteq DOMAIN manager.states
      BY DEF LadderTypes, ManagerOK
    <3> HIDE DEF pending, young
    <3> QED BY <3>1, EscalatedTypes
  <2>2. Fresh(manager.log) \in Seq(Nat) /\ told \in [Items -> Tellings]
    BY Times, FreshType DEF LadderTypes, ManagerOK, Tellings
  <2> HIDE DEF pending, states
  <2>3. /\ ManagerOK(manager') /\ told' \in [Items -> Tellings]
        /\ sent' \in [ages : Seq(Nat), saved : Nat] /\ sent'.saved = sent.saved
        /\ sent' = sent \/ (sent'.ages = Append(sent.ages, lag) /\ lag < Hour)
    BY <1>4, <2>1, <2>2, FlushTypes DEF Tellings
  <2>4. sent'.saved <= Len(sent'.ages)
    <3>1. sent.ages \in Seq(Nat) /\ lag \in Nat /\ sent.saved \in Nat /\ sent.saved <= Len(sent.ages)
      BY Times DEF LadderTypes
    <3>2. Len(Append(sent.ages, lag)) = Len(sent.ages) + 1 /\ Len(sent.ages) \in Nat
      BY <3>1
    <3> QED BY <2>3, <3>1, <3>2
  <2> QED BY <1>1, <1>2, <1>3, <2>3, <2>4 DEF LadderTypes, Tellings
<1>5. CASE UNCHANGED <<manager, told, sent>>
  BY <1>1, <1>2, <1>3, <1>5 DEF LadderTypes
<1> QED BY <1>4, <1>5 DEF Escalate

\* A save, and its failure.
LEMMA SaveTypes ==
  ASSUME LadderTypes, Save
  PROVE  LadderTypes'
<1>1. pc = "save" /\ pc' = "top" /\ lag' = 0 /\ UNCHANGED <<items, manager>>
  BY DEF Save, Goto
<1>2. CASE /\ saved' = manager
           /\ told' = [k \in Items |-> [told[k] EXCEPT !.saved = TRUE]]
           /\ sent' = [sent EXCEPT !.saved = Len(sent.ages)]
           /\ UNCHANGED faults
  <2>1. told' \in [Items -> Tellings]
    <3>1. ASSUME NEW k \in Items PROVE [told[k] EXCEPT !.saved = TRUE] \in Tellings
      <4>1. told[k] \in Tellings
        BY DEF LadderTypes, Tellings
      <4> QED BY <4>1 DEF Tellings
    <3> QED BY <1>2, <3>1
  <2>2. sent' \in [ages : Seq(Nat), saved : Nat] /\ sent'.saved <= Len(sent'.ages)
    <3>1. sent \in [ages : Seq(Nat), saved : Nat] /\ Len(sent.ages) \in Nat
      BY LenProperties DEF LadderTypes
    <3> QED BY <1>2, <3>1
  <2>3. 0 \in 0..MaxPlan
    BY Times
  <2>4. ManagerOK(saved') /\ ManagerOK(manager')
    BY <1>1, <1>2 DEF LadderTypes
  <2> QED BY <1>1, <1>2, <2>1, <2>2, <2>3, <2>4 DEF LadderTypes, Tellings
<1>3. CASE Fault /\ UNCHANGED <<saved, told, sent>>
  <2>1. faults' \in Nat
    BY <1>3 DEF Fault, LadderTypes
  <2> QED BY <1>1, <1>3, <2>1, Times DEF LadderTypes
<1> QED BY <1>2, <1>3 DEF Save

\* Time goes on.
LEMMA PassTypes ==
  ASSUME LadderTypes, Pass
  PROVE  LadderTypes'
<1> DEFINE ages == Younger([i \in DOMAIN sent.ages |-> sent.ages[i] + 1], Hour)
           gone == Len(sent.ages) - Len(ages)
<1>0. /\ sent \in [ages : Seq(Nat), saved : Nat] /\ sent.saved <= Len(sent.ages) /\ faults \in Nat
      /\ items \in [Items -> [status : Statuses, age : Nat]]
      /\ told \in [Items -> [level : 0..4, age : Nat, saved : BOOLEAN]]
  BY DEF LadderTypes
<1>1. /\ pc' = pc /\ faults' = faults
      /\ lag' \in 0..MaxPlan /\ (pc' \in {"down", "top"} => lag' = 0)
  <2>1. /\ pc \in {"down", "top"} \/ (pc = "plan" /\ lag < MaxPlan)
        /\ lag' = IF pc = "plan" THEN lag + 1 ELSE lag
        /\ pc' = pc /\ faults' = faults
    BY DEF Pass
  <2>2. lag \in 0..MaxPlan /\ (pc \in {"down", "top"} => lag = 0)
    BY DEF LadderTypes
  <2> QED BY <2>1, <2>2, Times
<1>2. items' \in [Items -> [status : Statuses, age : Nat]]
  <2>1. ASSUME NEW k \in Items
        PROVE  [items[k] EXCEPT !.age = IF Kept(items[k].status) THEN Older(@, Max({Stale, Highest})) ELSE 0]
                 \in [status : Statuses, age : Nat]
    <3>1. items[k] \in [status : Statuses, age : Nat] /\ items[k].age \in Nat
      BY <1>0
    <3>2. Older(items[k].age, Max({Stale, Highest})) \in Nat
      BY <3>1, HighestIs, OlderIs
    <3>3. (IF Kept(items[k].status) THEN Older(items[k].age, Max({Stale, Highest})) ELSE 0) \in Nat
      BY <3>2
    <3> QED BY <3>1, <3>3
  <2> QED BY <2>1 DEF Pass
<1>3. ManagerOK(manager') /\ ManagerOK(saved')
  BY OlderTypes DEF Pass, LadderTypes
<1>4. told' \in [Items -> Tellings]
  <2>1. ASSUME NEW k \in Items PROVE [told[k] EXCEPT !.age = Older(@, Cooldown)] \in Tellings
    <3>1. told[k] \in [level : 0..4, age : Nat, saved : BOOLEAN] /\ told[k].age \in Nat
      BY <1>0
    <3>2. Older(told[k].age, Cooldown) \in Nat
      BY <3>1, Times, OlderIs
    <3> QED BY <3>1, <3>2 DEF Tellings
  <2> QED BY <2>1, NotToldType DEF Pass
<1>5. sent' \in [ages : Seq(Nat), saved : Nat] /\ sent'.saved <= Len(sent'.ages)
  <2>1. PICK n \in 0..Len(sent.ages) : ages \in Seq(Nat) /\ Len(ages) = Len(sent.ages) - n
    BY <1>0, Times, SentLater
  <2>2. sent' = [ages |-> ages, saved |-> Max({0, sent.saved - gone})]
    BY DEF Pass
  <2>3. Max({0, sent.saved - gone}) \in Nat /\ Max({0, sent.saved - gone}) <= Len(sent.ages) - n
    <3> DEFINE i == sent.saved - gone
    <3>1. gone = n /\ Len(sent.ages) \in Nat /\ n \in Nat /\ sent.saved \in Nat
      BY <1>0, <2>1, LenProperties
    <3>2. i \in Int /\ i <= Len(sent.ages) - n /\ 0 <= Len(sent.ages) - n
      BY <1>0, <2>1, <3>1
    <3> HIDE DEF i
    <3>3. Max({0, i}) = IF 0 >= i THEN 0 ELSE i
      BY <3>2, MaxOfTwo
    <3>4. Max({0, i}) \in Nat /\ Max({0, i}) <= Len(sent.ages) - n
      BY <3>2, <3>3
    <3> QED BY <3>4 DEF i
  <2> HIDE DEF ages, gone
  <2> QED BY <2>1, <2>2, <2>3
<1> QED BY <1>1, <1>2, <1>3, <1>4, <1>5 DEF LadderTypes, Tellings

\* The daemon stops, or crashes.
LEMMA DownTypes ==
  ASSUME LadderTypes, Down, UNCHANGED <<items, saved, told, sent>>, faults' \in Nat
  PROVE  LadderTypes'
<1>1. pc' = "down" /\ lag' = 0 /\ manager' = NoState
  BY DEF Down
<1>2. 0 \in 0..MaxPlan
  BY Times
<1> QED BY <1>1, <1>2, NoStateOK DEF LadderTypes

\* Every step keeps the types.
LEMMA StepTypes ==
  ASSUME LadderTypes, [Next]_vars
  PROVE  LadderTypes'
<1>1. CASE UNCHANGED vars
  BY <1>1 DEF vars, LadderTypes
<1>2. faults \in Nat
  BY DEF LadderTypes
<1>3. CASE Start
  BY <1>3, StartTypes
<1>4. CASE Reload \/ Skip
  <2>1. /\ UNCHANGED <<items, lag, manager, saved, faults, told, sent>>
        /\ pc' \in {pc, "save"} /\ (pc' # pc => pc = "plan")
    BY <1>4 DEF Reload, Skip, Goto
  <2> QED BY <2>1 DEF LadderTypes
<1>5. CASE Refresh
  BY <1>5, RefreshTypes
<1>6. ASSUME NEW k \in Items, Defer(k) PROVE LadderTypes'
  <2>1. pc' = "save" /\ UNCHANGED <<lag, manager, saved, told, sent>> /\ faults' \in Nat
    BY <1>2, <1>6 DEF Defer, Goto, Fault
  <2>2. items' \in [Items -> [status : Statuses, age : Nat]]
    BY <1>6, AddedTypes DEF Defer, Statuses
  <2> QED BY <2>1, <2>2 DEF LadderTypes
<1>7. ASSUME NEW k \in Items, Escalate(k) PROVE LadderTypes'
  BY <1>7, EscalateTypes
<1>8. CASE Save
  BY <1>8, SaveTypes
<1>9. CASE Stop \/ Crash
  BY <1>2, <1>9, DownTypes DEF Stop, Crash, Fault
<1>10. ASSUME NEW k \in Items, Acknowledge(k) \/ Undo(k) \/ Lose(k) PROVE LadderTypes'
  BY <1>2, <1>10, SetStatusTypes DEF Acknowledge, Undo, Lose, Fault, Statuses
<1>11. CASE Clear \/ ClearAll
  BY <1>2, <1>11, SetStatusTypes DEF Clear, ClearAll, Statuses
<1>12. CASE Pass
  BY <1>12, PassTypes
<1> QED BY <1>1, <1>3, <1>4, <1>5, <1>6, <1>7, <1>8, <1>9, <1>10, <1>11, <1>12 DEF Next, Loop

\* The initial state.
LEMMA InitTypes == Init => LadderTypes
<1> SUFFICES ASSUME Init PROVE LadderTypes
  OBVIOUS
<1>1. 0 \in 0..MaxPlan
  BY Times
<1>2. told \in [Items -> Tellings]
  BY NotToldType DEF Init
<1>3. items \in [Items -> [status : Statuses, age : Nat]]
  BY DEF Init, Statuses
<1>4. sent \in [ages : Seq(Nat), saved : Nat] /\ sent.saved <= Len(sent.ages)
  BY EmptySeq DEF Init, NotSent
<1>5. ManagerOK(manager) /\ ManagerOK(saved) /\ pc = "down" /\ lag = 0 /\ faults = 0
  BY NoStateOK DEF Init
<1> QED BY <1>1, <1>2, <1>3, <1>4, <1>5 DEF LadderTypes, Tellings

\* The ladder's variables have their types in every reachable state (EscalationManager
\* and daemon_run_loop).
THEOREM LadderTyped == Spec => []LadderTypes
<1>1. LadderTypes /\ [Next]_vars => LadderTypes'
  BY StepTypes
<1> QED BY InitTypes, <1>1, PTL DEF Spec

------------------------------------------------------------------------------
(* The budget. *)

\* The notifications that are not forgotten are the last ones of the manager's log,
\* those that were saved are the last ones of the saved log.
BudgetInv ==
  /\ pc # "down" => Logged(sent.ages, Len(sent.ages), manager.log)
  /\ Logged(sent.ages, sent.saved, saved.log)
  /\ \A i \in 1..Len(sent.ages) : lag <= sent.ages[i] /\ sent.ages[i] < Hour
  /\ Len(sent.ages) <= Budget

\* A manager's log without what is older than an hour still holds the notifications.
LEMMA FreshLogged ==
  ASSUME LadderTypes, NEW log \in Seq(Nat), Logged(sent.ages, Len(sent.ages), log),
         \A i \in 1..Len(sent.ages) : sent.ages[i] < Hour
  PROVE  Fresh(log) \in Seq(Nat) /\ Logged(sent.ages, Len(sent.ages), Fresh(log))
<1> DEFINE n == Len(sent.ages)
           age == Hour + lag
<1>1. sent.ages \in Seq(Nat) /\ n \in Nat /\ n \in 0..Len(sent.ages) /\ lag \in Nat /\ age \in Nat /\ Hour \in Nat
  BY Times, LenProperties DEF LadderTypes
<1>2. \A i \in 1..n : sent.ages[i] < age
  <2>1. ASSUME NEW i \in 1..n PROVE sent.ages[i] < age
    <3>1. sent.ages[i] < Hour /\ sent.ages[i] \in Nat
      BY <1>1, ElementOfSeq
    <3> QED BY <1>1, <3>1
  <2> QED BY <2>1
<1>3. Logged(sent.ages, n, log)
  OBVIOUS
<1>4. Fresh(log) = Younger(log, age)
  BY DEF Fresh
<1> HIDE DEF n, age
<1>5. Younger(log, age) \in Seq(Nat) /\ Logged(sent.ages, n, Younger(log, age))
  BY <1>1, <1>2, <1>3, YoungerLogged
<1> QED BY <1>4, <1>5 DEF n

\* A flush notifies when the budget is not used up, and logs what it notified.
LEMMA FlushBudget ==
  ASSUME LadderTypes, BudgetInv, NEW states, StatesOK(states), NEW log \in Seq(Nat),
         NEW pending, NEW before, Logged(sent.ages, Len(sent.ages), log),
         Flush(states, log, pending, before)
  PROVE  /\ Logged(sent'.ages, Len(sent'.ages), manager'.log)
         /\ Logged(sent'.ages, sent.saved, saved.log)
         /\ \A i \in 1..Len(sent'.ages) : lag <= sent'.ages[i] /\ sent'.ages[i] < Hour
         /\ Len(sent'.ages) <= Budget
         /\ sent'.saved = sent.saved
<1> DEFINE fresh == IF pending = {} THEN log ELSE Fresh(log)
           due == {k \in pending \cap DOMAIN states : BudgetLeft(fresh) /\ Due(k, states[k])}
<1>1. /\ manager'.log = IF due = {} THEN fresh ELSE Append(fresh, lag)
      /\ sent' = IF due = {} \/ lag >= Hour THEN sent ELSE [sent EXCEPT !.ages = Append(@, lag)]
      /\ due # {} => BudgetLeft(fresh)
  BY DEF Flush
<1>2. /\ \A i \in 1..Len(sent.ages) : lag <= sent.ages[i] /\ sent.ages[i] < Hour
      /\ Len(sent.ages) <= Budget /\ Logged(sent.ages, sent.saved, saved.log)
  BY DEF BudgetInv
<1>3. fresh \in Seq(Nat) /\ Logged(sent.ages, Len(sent.ages), fresh)
  <2>1. Fresh(log) \in Seq(Nat) /\ Logged(sent.ages, Len(sent.ages), Fresh(log))
    BY <1>2, FreshLogged
  <2> QED BY <2>1
<1> HIDE DEF fresh, due
<1>4. /\ sent \in [ages : Seq(Nat), saved : Nat] /\ sent.saved \in 0..Len(sent.ages)
      /\ lag \in Nat /\ Hour \in Nat /\ Budget \in Nat
      /\ Len(sent.ages) \in Nat /\ Len(fresh) \in Nat /\ Len(sent.ages) <= Len(fresh)
  BY <1>3, Times, LenProperties DEF LadderTypes, Logged
<1>5. CASE due = {}
  BY <1>1, <1>2, <1>3, <1>5
<1>6. CASE due # {} /\ lag >= Hour
  <2>1. Len(sent.ages) = 0
    <3> SUFFICES ASSUME Len(sent.ages) # 0 PROVE FALSE
      OBVIOUS
    <3>1. 1 \in 1..Len(sent.ages) /\ sent.ages[1] \in Nat
      BY <1>4, ElementOfSeq
    <3>2. lag <= sent.ages[1] /\ sent.ages[1] < Hour
      BY <1>2, <3>1
    <3> QED BY <1>4, <1>6, <3>1, <3>2
  <2>2. sent' = sent /\ manager'.log = Append(fresh, lag)
    BY <1>1, <1>6
  <2>3. Len(Append(fresh, lag)) \in Nat
    BY <1>3, <1>4, AppendProperties, LenProperties
  <2>4. Logged(sent.ages, 0, Append(fresh, lag))
    BY <2>3 DEF Logged
  <2> QED BY <1>2, <1>4, <2>1, <2>2, <2>4
<1>7. CASE due # {} /\ lag < Hour
  <2> DEFINE x == Append(sent.ages, lag)
  <2>1. sent' = [sent EXCEPT !.ages = x] /\ manager'.log = Append(fresh, lag)
    BY <1>1, <1>4, <1>7
  <2>2. /\ x \in Seq(Nat) /\ Len(x) = Len(sent.ages) + 1 /\ x[Len(sent.ages) + 1] = lag
        /\ \A i \in 1..Len(sent.ages) : x[i] = sent.ages[i]
    BY <1>4, AppendProperties
  <2>3. Logged(x, Len(sent.ages) + 1, Append(fresh, lag))
    BY <1>3, <1>4, AppendLogged
  <2>4. Logged(x, sent.saved, saved.log)
    BY <1>2, <1>4, AppendUnlogged
  <2> HIDE DEF x
  <2>5. sent'.ages = x /\ sent'.saved = sent.saved
    BY <1>4, <2>1
  <2>6. Len(fresh) < Budget
    BY <1>1, <1>7 DEF BudgetLeft
  <2>7. Len(x) <= Budget
    BY <1>4, <2>2, <2>6
  <2>8. ASSUME NEW i \in 1..Len(x) PROVE lag <= x[i] /\ x[i] < Hour
    <3>1. CASE i = Len(sent.ages) + 1
      BY <1>4, <1>7, <2>2, <3>1
    <3>2. CASE i # Len(sent.ages) + 1
      <4>1. i \in 1..Len(sent.ages)
        BY <1>4, <2>2, <3>2
      <4> QED BY <1>2, <2>2, <4>1
    <3> QED BY <3>1, <3>2
  <2> QED BY <2>1, <2>2, <2>3, <2>4, <2>5, <2>7, <2>8
<1> QED BY <1>4, <1>5, <1>6, <1>7

\* A start of the daemon.
LEMMA StartBudget ==
  ASSUME LadderTypes, BudgetInv, Start
  PROVE  BudgetInv'
<1>1. UNCHANGED <<lag, saved>> /\ Len(sent.ages) \in Nat
  BY LenProperties DEF Start, LadderTypes
<1>2. CASE manager' = saved /\ sent' = [sent EXCEPT !.ages = SubSeq(@, 1, sent.saved)]
  <2> DEFINE x == SubSeq(sent.ages, 1, sent.saved)
  <2>1. sent \in [ages : Seq(Nat), saved : Nat] /\ sent.saved \in 0..Len(sent.ages)
    BY LenProperties DEF LadderTypes
  <2>2. x \in Seq(Nat) /\ Len(x) = sent.saved /\ \A i \in 1..sent.saved : x[i] = sent.ages[i]
    BY <2>1
  <2>3. sent' = [sent EXCEPT !.ages = x]
    BY <1>2
  <2> HIDE DEF x
  <2>4. sent'.ages = x /\ sent'.saved = sent.saved
    BY <2>1, <2>3
  <2>5. Logged(x, sent.saved, saved.log)
    BY <2>2 DEF BudgetInv, Logged
  <2>6. ASSUME NEW i \in 1..Len(x) PROVE lag <= x[i] /\ x[i] < Hour
    <3>1. i \in 1..sent.saved /\ i \in 1..Len(sent.ages)
      BY <1>1, <2>1, <2>2
    <3> QED BY <2>2, <3>1 DEF BudgetInv
  <2>7. Len(x) <= Budget
    BY <1>1, <2>1, <2>2, Times DEF BudgetInv
  <2> QED BY <1>1, <1>2, <2>2, <2>4, <2>5, <2>6, <2>7 DEF BudgetInv
<1>3. CASE manager' = NoState /\ sent' = NotSent
  <2>1. sent'.ages = <<>> /\ sent'.saved = 0 /\ Len(<<>>) = 0
    BY <1>3, EmptySeq DEF NotSent
  <2>2. Logged(<<>>, 0, saved.log) /\ Logged(<<>>, 0, NoState.log)
    BY NoStateOK, LenProperties DEF Logged, LadderTypes, ManagerOK
  <2> QED BY <1>1, <1>3, <2>1, <2>2, Times DEF BudgetInv
<1> QED BY <1>2, <1>3 DEF Start

\* A refresh of the notifications.
LEMMA RefreshBudget ==
  ASSUME LadderTypes, BudgetInv, Refresh
  PROVE  BudgetInv'
<1>1. pc = "top" /\ UNCHANGED <<lag, saved>>
  BY DEF Refresh, Goto
<1>2. Logged(sent.ages, Len(sent.ages), manager.log) /\ manager.log \in Seq(Nat) /\ StatesOK(manager.states)
  BY <1>1 DEF BudgetInv, LadderTypes, ManagerOK
<1>3. CASE Look
  <2> DEFINE acked == With("acked")
             states == Restrict(manager.states, DOMAIN manager.states \ acked)
             before == [k \in Items |-> IF k \in acked THEN NotTold ELSE told[k]]
  <2>1. StatesOK(states)
    BY <1>2 DEF StatesOK, Restrict
  <2>2. Fresh(manager.log) \in Seq(Nat) /\ Logged(sent.ages, Len(sent.ages), Fresh(manager.log))
    BY <1>2, FreshLogged DEF BudgetInv
  <2>3. \/ Flush(states, manager.log, {}, before)
        \/ \E first \in With("unread") : Flush(Submitted(states, first), Fresh(manager.log), Submittable, before)
    BY <1>3 DEF Look
  <2> HIDE DEF states, before
  <2>4. CASE Flush(states, manager.log, {}, before)
    BY <1>1, <1>2, <2>1, <2>4, FlushBudget DEF BudgetInv
  <2>5. ASSUME NEW first \in With("unread"), Flush(Submitted(states, first), Fresh(manager.log), Submittable, before)
        PROVE  BudgetInv'
    <3>1. StatesOK(Submitted(states, first))
      BY <2>1, SubmittedTypes
    <3> QED BY <1>1, <2>2, <2>5, <3>1, FlushBudget DEF BudgetInv
  <2> QED BY <2>3, <2>4, <2>5
<1>4. CASE UNCHANGED <<manager, told, sent>>
  BY <1>1, <1>4 DEF BudgetInv
<1> QED BY <1>3, <1>4 DEF Refresh

\* An escalation.
LEMMA EscalateBudget ==
  ASSUME LadderTypes, BudgetInv, NEW k \in Items, Escalate(k)
  PROVE  BudgetInv'
<1>1. pc = "plan" /\ UNCHANGED <<lag, saved>>
  BY DEF Escalate, Goto
<1> DEFINE pending == IF Severity[k] >= Warning THEN {k} ELSE {}
           young == {j \in DOMAIN manager.states : Ago(manager.states[j].seen) < Stale}
           states == [j \in young \cup pending |-> IF j = k THEN FirstSeen(0) ELSE manager.states[j]]
<1>2. CASE Flush(states, Fresh(manager.log), pending, told)
  <2>1. StatesOK(states)
    <3>1. StatesOK(manager.states) /\ pending \in SUBSET {k} /\ young \subseteq DOMAIN manager.states
      BY DEF LadderTypes, ManagerOK
    <3> HIDE DEF pending, young
    <3> QED BY <3>1, EscalatedTypes
  <2>2. Fresh(manager.log) \in Seq(Nat) /\ Logged(sent.ages, Len(sent.ages), Fresh(manager.log))
    BY <1>1, FreshLogged DEF BudgetInv, LadderTypes, ManagerOK
  <2> HIDE DEF pending, states
  <2> QED BY <1>1, <1>2, <2>1, <2>2, FlushBudget DEF BudgetInv
<1>3. CASE UNCHANGED <<manager, told, sent>>
  BY <1>1, <1>3 DEF BudgetInv, Escalate, Goto
<1> QED BY <1>2, <1>3 DEF Escalate

\* A save, and its failure.
LEMMA SaveBudget ==
  ASSUME LadderTypes, BudgetInv, Save
  PROVE  BudgetInv'
<1>1. pc = "save" /\ lag' = 0 /\ UNCHANGED manager
  BY DEF Save, Goto
<1>2. sent \in [ages : Seq(Nat), saved : Nat] /\ Len(sent.ages) \in Nat
  BY LenProperties DEF LadderTypes
<1>3. \A i \in 1..Len(sent.ages) : 0 <= sent.ages[i] /\ sent.ages[i] < Hour
  BY <1>2, ElementOfSeq DEF BudgetInv
<1>4. CASE saved' = manager /\ sent' = [sent EXCEPT !.saved = Len(sent.ages)]
  <2>1. sent'.ages = sent.ages /\ sent'.saved = Len(sent.ages)
    BY <1>2, <1>4
  <2> QED BY <1>1, <1>3, <1>4, <2>1 DEF BudgetInv
<1>5. CASE UNCHANGED <<saved, sent>>
  BY <1>1, <1>3, <1>5 DEF BudgetInv
<1> QED BY <1>4, <1>5 DEF Save

\* The entries of a log and the notifications grow older together.
LEMMA LoggedLater ==
  ASSUME NEW ages \in Seq(Nat), NEW m \in 0..Len(ages), NEW log \in Seq(Nat), Logged(ages, m, log),
         NEW later \in Seq(Nat), NEW n \in 0..Len(ages), Len(later) = Len(ages) - n,
         \A i \in 1..(Len(ages) - n) : later[i] = ages[n + i] + 1 /\ ages[n + i] + 1 < Hour,
         NEW p \in Nat, p = IF m >= n THEN m - n ELSE 0
  PROVE  Logged(later, p, [i \in DOMAIN log |-> Older(log[i], Hour)])
<1> DEFINE older == [i \in DOMAIN log |-> Older(log[i], Hour)]
<1>0. Len(ages) \in Nat /\ Len(log) \in Nat /\ DOMAIN log = 1..Len(log)
  BY LenProperties
<1>1. m \in Nat /\ n \in Nat /\ m <= Len(ages) /\ n <= Len(ages) /\ m <= Len(log)
  BY <1>0 DEF Logged
<1>2. Len(older) = Len(log) /\ \A i \in 1..Len(log) : older[i] = Older(log[i], Hour)
  BY <1>0
<1> HIDE DEF older
<1>3. p <= Len(older) /\ p <= m
  BY <1>0, <1>1, <1>2
<1>4. ASSUME NEW i \in 1..p PROVE later[i] = older[Len(older) - p + i]
  <2>0. p = m - n /\ i \in Nat /\ i >= 1 /\ i <= p
    <3>1. CASE m >= n
      BY <3>1
    <3>2. CASE ~(m >= n)
      BY <3>2
    <3> QED BY <3>1, <3>2
  <2>1. /\ i \in 1..(Len(ages) - n) /\ n + i \in 1..m /\ n + i \in 1..Len(ages)
        /\ Len(log) - m + (n + i) \in 1..Len(log) /\ Len(older) - p + i = Len(log) - m + (n + i)
    <3> DEFINE a == Len(ages)
               b == Len(log)
    <3>1. a \in Nat /\ b \in Nat /\ m <= a /\ m <= b /\ Len(older) = b /\ m \in Nat /\ n \in Nat
      BY <1>0, <1>1, <1>2
    <3> HIDE DEF a, b
    <3>2. i \in 1..(a - n) /\ n + i \in 1..m /\ n + i \in 1..a
      BY <2>0, <3>1
    <3>3. b - m + (n + i) \in 1..b /\ Len(older) - p + i = b - m + (n + i)
      BY <2>0, <3>1
    <3> QED BY <3>2, <3>3 DEF a, b
  <2>2. ages[n + i] = log[Len(log) - m + (n + i)]
    BY <2>1 DEF Logged
  <2>3. later[i] = ages[n + i] + 1 /\ ages[n + i] + 1 < Hour /\ ages[n + i] \in Nat
    BY <2>1, ElementOfSeq
  <2>4. Older(ages[n + i], Hour) = ages[n + i] + 1
    <3> DEFINE a == ages[n + i]
    <3>0. Hour \in Nat /\ MaxPlan \in Nat
      BY Times
    <3>1. a \in Nat /\ a + 1 < Hour
      BY <2>3
    <3> HIDE DEF a
    <3>2. Older(a, Hour) = a + 1
      BY <3>0, <3>1, OlderIs
    <3> QED BY <3>2 DEF a
  <2> QED BY <1>2, <2>1, <2>2, <2>3, <2>4
<1> QED BY <1>3, <1>4 DEF Logged, older

\* Time goes on.
LEMMA PassBudget ==
  ASSUME LadderTypes, BudgetInv, Pass
  PROVE  BudgetInv'
<1> DEFINE ages == Younger([i \in DOMAIN sent.ages |-> sent.ages[i] + 1], Hour)
           gone == Len(sent.ages) - Len(ages)
<1>1. /\ sent' = [ages |-> ages, saved |-> Max({0, sent.saved - gone})]
      /\ pc' = pc /\ lag' \in {lag, lag + 1}
      /\ manager' = OlderState(manager) /\ saved' = OlderState(saved)
  BY DEF Pass
<1>2. /\ sent.ages \in Seq(Nat) /\ Len(sent.ages) \in Nat /\ sent.saved \in 0..Len(sent.ages)
      /\ manager.log \in Seq(Nat) /\ saved.log \in Seq(Nat) /\ lag \in Nat /\ Hour \in Nat /\ Budget \in Nat
  BY Times, LenProperties DEF LadderTypes, ManagerOK
<1>3. PICK n \in 0..Len(sent.ages) :
        /\ ages \in Seq(Nat) /\ Len(ages) = Len(sent.ages) - n
        /\ \A i \in 1..(Len(sent.ages) - n) : ages[i] = sent.ages[n + i] + 1 /\ sent.ages[n + i] + 1 < Hour
  BY <1>2, SentLater
<1>4. gone = n
  BY <1>2, <1>3
<1> HIDE DEF ages, gone
<1>5. Logged(ages, sent'.saved, OlderState(saved).log)
  <2> DEFINE p == IF sent.saved >= n THEN sent.saved - n ELSE 0
             q == sent.saved - n
  <2>1. p \in Nat
    BY <1>2
  <2>2. sent'.saved = p
    <3>1. q \in Int
      BY <1>2
    <3>2. Max({0, sent.saved - gone}) = Max({0, q})
      BY <1>4
    <3>3. 0 >= q <=> ~(sent.saved > n)
      BY <1>2
    <3> HIDE DEF q
    <3>4. Max({0, q}) = IF 0 >= q THEN 0 ELSE q
      BY <3>1, MaxOfTwo
    <3>5. sent'.saved = Max({0, q})
      BY <1>1, <3>2
    <3>6. (IF 0 >= q THEN 0 ELSE q) = p
      BY <1>2, <3>3 DEF q
    <3> QED BY <3>4, <3>5, <3>6
  <2>3. Logged(sent.ages, sent.saved, saved.log)
    BY DEF BudgetInv
  <2>4. p = IF sent.saved >= n THEN sent.saved - n ELSE 0
    OBVIOUS
  <2> HIDE DEF p
  <2>5. Logged(ages, p, [i \in DOMAIN saved.log |-> Older(saved.log[i], Hour)])
    BY <1>2, <1>3, <2>1, <2>3, <2>4, LoggedLater
  <2> QED BY <2>2, <2>5 DEF OlderState
<1>6. ASSUME pc # "down" PROVE Logged(ages, Len(ages), OlderState(manager).log)
  <2> DEFINE p == Len(sent.ages) - n
             m == Len(sent.ages)
  <2>1. p \in Nat /\ p = IF m >= n THEN m - n ELSE 0
    BY <1>2
  <2>2. Logged(sent.ages, m, manager.log) /\ m \in 0..Len(sent.ages) /\ Len(ages) = p
    BY <1>2, <1>3, <1>6 DEF BudgetInv
  <2> HIDE DEF p, m
  <2>3. Logged(ages, p, [i \in DOMAIN manager.log |-> Older(manager.log[i], Hour)])
    BY <1>2, <1>3, <2>1, <2>2, LoggedLater
  <2> QED BY <2>2, <2>3 DEF OlderState
<1>7. \A i \in 1..Len(ages) : lag' <= ages[i] /\ ages[i] < Hour
  <2>1. ASSUME NEW i \in 1..Len(ages) PROVE lag' <= ages[i] /\ ages[i] < Hour
    <3>1. i \in 1..(Len(sent.ages) - n) /\ n + i \in 1..Len(sent.ages)
      BY <1>2, <1>3
    <3>2. ages[i] = sent.ages[n + i] + 1 /\ sent.ages[n + i] + 1 < Hour /\ sent.ages[n + i] \in Nat
      BY <1>2, <1>3, <3>1, ElementOfSeq
    <3>3. lag <= sent.ages[n + i]
      BY <3>1 DEF BudgetInv
    <3>4. lag' <= sent.ages[n + i] + 1
      <4>1. lag' \in {lag, lag + 1}
        BY <1>1
      <4>2. lag \in Nat
        BY <1>2
      <4> DEFINE a == sent.ages[n + i]
      <4>3. a \in Nat /\ lag <= a
        BY <3>2, <3>3
      <4> HIDE DEF a
      <4>4. lag' <= a + 1
        BY <4>1, <4>2, <4>3
      <4> QED BY <4>4 DEF a
    <3> QED BY <3>2, <3>4
  <2> QED BY <2>1
<1>8. Len(ages) <= Budget
  BY <1>2, <1>3 DEF BudgetInv
<1>9. sent'.ages = ages
  BY <1>1
<1> QED BY <1>1, <1>5, <1>6, <1>7, <1>8, <1>9 DEF BudgetInv

\* Every step keeps the invariant of the budget.
LEMMA StepBudget ==
  ASSUME LadderTypes, BudgetInv, [Next]_vars
  PROVE  BudgetInv'
<1>1. CASE UNCHANGED <<lag, manager, saved, sent>> /\ (pc' # "down" => pc # "down")
  BY <1>1 DEF BudgetInv
<1>2. CASE UNCHANGED vars
  BY <1>1, <1>2 DEF vars
<1>3. CASE Start
  BY <1>3, StartBudget
<1>4. CASE Reload \/ Skip
  BY <1>1, <1>4 DEF Reload, Skip, Goto
<1>5. CASE Refresh
  BY <1>5, RefreshBudget
<1>6. CASE \E k \in Items : Defer(k)
  BY <1>1, <1>6 DEF Defer, Goto
<1>7. CASE \E k \in Items : Escalate(k)
  BY <1>7, EscalateBudget
<1>8. CASE Save
  BY <1>8, SaveBudget
<1>9. CASE Stop \/ Crash
  <2>1. pc' = "down" /\ lag' = 0 /\ UNCHANGED <<saved, sent>>
    BY <1>9 DEF Stop, Crash, Down
  <2>2. \A i \in 1..Len(sent.ages) : 0 <= sent.ages[i]
    BY LenProperties, ElementOfSeq DEF LadderTypes
  <2> QED BY <2>1, <2>2 DEF BudgetInv
<1>10. CASE (\E k \in Items : Acknowledge(k) \/ Undo(k) \/ Lose(k)) \/ Clear \/ ClearAll
  <2>1. UNCHANGED <<pc, lag, manager, saved, sent>>
    BY <1>10 DEF Acknowledge, Undo, Lose, Clear, ClearAll, SetStatus
  <2> QED BY <1>1, <2>1
<1>11. CASE Pass
  BY <1>11, PassBudget
<1> QED BY <1>2, <1>3, <1>4, <1>5, <1>6, <1>7, <1>8, <1>9, <1>10, <1>11 DEF Next, Loop

\* No more notifications in an hour than the budget, over restarts of the daemon
\* (can_send_notification, persist and the log of EscalationManager).
THEOREM BudgetHolds == Spec => []BudgetKept
<1>1. Init => BudgetInv
  <2>1. Logged(<<>>, 0, <<>>) /\ Len(<<>>) = 0
    BY EmptySeq DEF Logged
  <2> QED BY <2>1, NoStateOK, Times DEF Init, NotSent, BudgetInv
<1>2. LadderTypes /\ BudgetInv /\ [Next]_vars => BudgetInv'
  BY StepBudget
<1>3. BudgetInv => BudgetKept
  BY DEF BudgetInv, BudgetKept
<1> QED BY <1>1, <1>2, <1>3, LadderTyped, PTL DEF Spec

------------------------------------------------------------------------------
(* What was told of an item is remembered. *)

Item == [status : Statuses, age : Nat]

\* An item that is never unread again: lost, or cleared when no rewriting of the inbox
\* undoes that any more.
Dead(item, f) == item.status = "lost" \/ (item.status = "gone" /\ f >= MaxFaults)

\* An item is at least of an age, or as old as anything.
AsOld(item, age) == item.age >= age \/ item.age >= Stale + MaxPlan

\* What was told is not later than what the item's state says.
NotBefore(t, st) ==
  t.level # 0 => t.level < st.level \/ (t.level = st.level /\ t.age >= st.sent)

\* Some states remember what was told of an item, or the item is too old, or gone for
\* good, so that it never gets a state again.
Remembers(item, f, states, k, t) ==
  /\ k \in DOMAIN states =>
       /\ item.status # "none"
       /\ NotBefore(t, states[k])
       /\ AsOld(item, states[k].seen) \/ Dead(item, f)
  /\ k \notin DOMAIN states /\ t.level # 0 => item.age >= Stale \/ Dead(item, f)

\* What a restart of the daemon leaves of what was told.
Lasting(t) == IF t.saved THEN t ELSE NotTold

\* Of each item, the manager remembers what was told, and the saved state what was saved.
KeyInv(k) ==
  /\ items[k].status = "none" => told[k] = NotTold
  /\ pc # "down" => Remembers(items[k], faults, manager.states, k, told[k])
  /\ Remembers(items[k], faults, saved.states, k, Lasting(told[k]))

RepeatInv == \A k \in Items : KeyInv(k)

\* What is forgotten is remembered.
LEMMA Forgotten ==
  ASSUME NEW item, NEW f, NEW states, NEW k, NEW t, Remembers(item, f, states, k, t)
  PROVE  Remembers(item, f, states, k, NotTold)
BY NotToldType DEF Remembers, NotBefore

\* Only the level and the age of what was told are remembered.
LEMMA SameTelling ==
  ASSUME NEW item, NEW f, NEW states, NEW k, NEW t, NEW u, Remembers(item, f, states, k, t),
         u.level = t.level, u.age = t.age
  PROVE  Remembers(item, f, states, k, u)
BY DEF Remembers, NotBefore

\* What is left when something is told that is not saved, or forgotten.
LEMMA LastingIs ==
  ASSUME NEW t \in Tellings
  PROVE  /\ Lasting(t) \in Tellings /\ Lasting(t).saved = TRUE /\ Lasting(Lasting(t)) = Lasting(t)
         /\ Lasting(t) \in {t, NotTold} /\ Lasting(NotTold) = NotTold
BY NotToldType DEF Lasting, Tellings

\* An item that gets older, or that is dead, is remembered as it was.
LEMMA ItemLater ==
  ASSUME NEW item \in Item, NEW f \in Nat, NEW states, StatesOK(states), NEW k, NEW t,
         Remembers(item, f, states, k, t),
         NEW later \in Item, NEW g \in Nat,
         later.status = "none" => item.status = "none",
         later.age >= item.age \/ Dead(later, g),
         Dead(item, f) => Dead(later, g)
  PROVE  Remembers(later, g, states, k, t)
<1>1. item.age \in Nat /\ later.age \in Nat /\ Stale \in Nat /\ MaxPlan \in Nat
  BY Times DEF Item
<1>2. ASSUME k \in DOMAIN states
      PROVE  /\ later.status # "none"
             /\ NotBefore(t, states[k])
             /\ AsOld(later, states[k].seen) \/ Dead(later, g)
  <2>1. states[k].seen \in Nat
    BY <1>2 DEF StatesOK, TriggerState
  <2>2. AsOld(item, states[k].seen) \/ Dead(item, f)
    BY <1>2 DEF Remembers
  <2>3. later.age >= item.age /\ AsOld(item, states[k].seen) => AsOld(later, states[k].seen)
    BY <1>1, <2>1 DEF AsOld
  <2> QED BY <1>2, <2>2, <2>3 DEF Remembers
<1>3. ASSUME k \notin DOMAIN states, t.level # 0
      PROVE  later.age >= Stale \/ Dead(later, g)
  BY <1>1, <1>3 DEF Remembers
<1> QED BY <1>2, <1>3 DEF Remembers

\* An item stays, and there may be another fault.
LEMMA FaultLater ==
  ASSUME NEW item \in Item, NEW f \in Nat, NEW states, StatesOK(states), NEW k, NEW t,
         Remembers(item, f, states, k, t), NEW g \in Nat, g >= f
  PROVE  Remembers(item, g, states, k, t)
<1>1. Dead(item, f) => Dead(item, g)
  BY Times DEF Dead
<1>2. item.age >= item.age
  BY DEF Item
<1> QED BY <1>1, <1>2, ItemLater

\* An item that was never added, of which nothing was told, has no state.
LEMMA NewItem ==
  ASSUME NEW item, item.status = "none", NEW f, NEW states, NEW k, NEW t,
         Remembers(item, f, states, k, t), NEW later, NEW g
  PROVE  k \notin DOMAIN states /\ Remembers(later, g, states, k, NotTold)
BY NotToldType DEF Remembers

\* The ages of two things stay in their order.
LEMMA OlderOrder ==
  ASSUME NEW a \in Nat, NEW b \in Nat, NEW l \in Nat, a >= b
  PROVE  Older(a, l) >= Older(b, l)
BY Times DEF Older

\* Time goes on for an item, the states and what was told.
LEMMA RememberedLater ==
  ASSUME NEW item \in Item, NEW f \in Nat, NEW m, ManagerOK(m), NEW k, NEW t \in Tellings,
         Remembers(item, f, m.states, k, t),
         item.status = "none" => t = NotTold,
         NEW kept \in BOOLEAN, kept \/ item.status = "none" \/ Dead(item, f),
         NEW later \in Item, later.status = item.status,
         later.age = IF kept THEN Older(item.age, Max({Stale, Highest})) ELSE 0,
         NEW u \in Tellings, u.level = t.level, t.level # 0 => u.age = Older(t.age, Cooldown)
  PROVE  Remembers(later, f, OlderState(m).states, k, u)
<1> DEFINE h == Max({Stale, Highest})
<1>1. /\ item.age \in Nat /\ later.age \in Nat /\ t.age \in Nat /\ u.age \in Nat
      /\ Stale \in Nat /\ MaxPlan \in Nat /\ Cooldown \in Nat
      /\ h \in Nat /\ h >= Stale
  BY Times, HighestIs DEF Item, Tellings
<1>2. later.age = IF kept THEN Older(item.age, h) ELSE 0
  OBVIOUS
<1> HIDE DEF h
<1>3. Dead(item, f) => Dead(later, f)
  BY DEF Dead
<1>4. kept => later.age >= item.age
  <2> DEFINE a == item.age
             b == Older(a, h)
  <2>1. a \in Nat /\ h \in Nat
    BY <1>1
  <2> HIDE DEF a
  <2>2. b \in Nat /\ b \in {a, a + 1}
    BY <2>1, OlderIs
  <2> HIDE DEF b
  <2>3. b >= a
    BY <2>1, <2>2
  <2>4. kept => later.age = b
    BY <1>2 DEF a, b
  <2> QED BY <2>3, <2>4 DEF a
<1>5. ASSUME k \in DOMAIN m.states
      PROVE  /\ later.status # "none"
             /\ NotBefore(u, OlderState(m).states[k])
             /\ AsOld(later, OlderState(m).states[k].seen) \/ Dead(later, f)
  <2>1. /\ m.states[k].seen \in Nat /\ m.states[k].sent \in Nat
    BY <1>5 DEF ManagerOK, StatesOK, TriggerState
  <2>2. /\ OlderState(m).states[k].seen = Older(m.states[k].seen, Stale)
        /\ OlderState(m).states[k].sent = Older(m.states[k].sent, Cooldown)
        /\ OlderState(m).states[k].level = m.states[k].level
    BY <1>5 DEF OlderState
  <2>3. /\ item.status # "none" /\ NotBefore(t, m.states[k])
        /\ AsOld(item, m.states[k].seen) \/ Dead(item, f)
    BY <1>5 DEF Remembers
  <2>4. NotBefore(u, OlderState(m).states[k])
    <3> DEFINE s == m.states[k].sent
    <3>1. s \in Nat
      BY <2>1
    <3> HIDE DEF s
    <3>2. t.age >= s => Older(t.age, Cooldown) >= Older(s, Cooldown)
      BY <1>1, <3>1, OlderOrder
    <3> QED BY <2>2, <2>3, <3>2 DEF NotBefore, s
  <2>5. kept /\ AsOld(item, m.states[k].seen) => AsOld(later, Older(m.states[k].seen, Stale))
    <3> DEFINE s == m.states[k].seen
    <3>1. s \in Nat
      BY <2>1
    <3> HIDE DEF s
    <3>2. ASSUME kept, AsOld(item, s) PROVE AsOld(later, Older(s, Stale))
      <4>1. Older(s, Stale) \in Nat /\ Older(s, Stale) <= s + 1
        <5> DEFINE o == Older(s, Stale)
        <5>1. o \in Nat /\ o \in {s, s + 1}
          BY <1>1, <3>1, OlderIs
        <5> HIDE DEF o
        <5>2. o \in Nat /\ o <= s + 1
          BY <3>1, <5>1
        <5> QED BY <5>2 DEF o
      <4>2. CASE item.age < h + MaxPlan
        <5>1. later.age = item.age + 1
          BY <1>1, <1>2, <3>2, <4>2, OlderIs
        <5> QED BY <1>1, <3>1, <3>2, <4>1, <5>1 DEF AsOld
      <4>3. CASE ~(item.age < h + MaxPlan)
        <5>1. later.age >= Stale + MaxPlan
          BY <1>1, <1>4, <3>2, <4>3
        <5> QED BY <5>1 DEF AsOld
      <4> QED BY <4>2, <4>3
    <3> QED BY <3>2 DEF s
  <2> QED BY <1>3, <2>2, <2>3, <2>4, <2>5
<1>6. ASSUME k \notin DOMAIN m.states, u.level # 0
      PROVE  later.age >= Stale \/ Dead(later, f)
  <2>1. item.age >= Stale \/ Dead(item, f)
    BY <1>6 DEF Remembers
  <2>2. item.status # "none"
    BY <1>6, NotToldType
  <2> QED BY <1>1, <1>3, <1>4, <2>1, <2>2
<1>7. DOMAIN OlderState(m).states = DOMAIN m.states
  BY DEF OlderState
<1> QED BY <1>5, <1>6, <1>7 DEF Remembers

\* A flush remembers what it tells.
LEMMA FlushRemembers ==
  ASSUME LadderTypes, NEW states, StatesOK(states), NEW log, NEW pending, NEW before \in [Items -> Tellings],
         Flush(states, log, pending, before),
         NEW k \in Items, NEW item, NEW f, Remembers(item, f, states, k, before[k])
  PROVE  /\ Remembers(item, f, manager'.states, k, told'[k])
         /\ told'[k] = before[k] \/ (k \in pending /\ Lasting(told'[k]) = NotTold)
<1> DEFINE fresh == IF pending = {} THEN log ELSE Fresh(log)
           due == {j \in pending \cap DOMAIN states : BudgetLeft(fresh) /\ Due(j, states[j])}
<1>1. /\ manager'.states = [j \in DOMAIN states |->
                         IF j \in due THEN [states[j] EXCEPT !.sent = lag, !.level = Desired(j, states[j])]
                         ELSE states[j]]
      /\ told'[k] = IF k \in due THEN [level |-> Desired(k, states[k]), age |-> lag, saved |-> FALSE]
                    ELSE before[k]
  BY DEF Flush
<1>2. due \subseteq pending \cap DOMAIN states
  OBVIOUS
<1> HIDE DEF due
<1>3. lag \in Nat
  BY Times DEF LadderTypes
<1>4. CASE k \in due
  <2> DEFINE l == Desired(k, states[k])
  <2>1. k \in DOMAIN states /\ states[k] \in TriggerState /\ l \in 1..4
    BY <1>2, <1>4, Levels DEF StatesOK
  <2>2. /\ told'[k] = [level |-> l, age |-> lag, saved |-> FALSE]
        /\ manager'.states[k] = [states[k] EXCEPT !.sent = lag, !.level = l]
        /\ DOMAIN manager'.states = DOMAIN states
    BY <1>1, <1>4, <2>1
  <2> HIDE DEF l
  <2>3. /\ manager'.states[k].sent = lag /\ manager'.states[k].level = l
        /\ manager'.states[k].seen = states[k].seen
    BY <2>1, <2>2 DEF TriggerState
  <2>4. NotBefore(told'[k], manager'.states[k])
    BY <1>3, <2>1, <2>2, <2>3 DEF NotBefore
  <2>5. Lasting(told'[k]) = NotTold /\ k \in pending
    BY <1>2, <1>4, <2>2 DEF Lasting
  <2> QED BY <2>1, <2>2, <2>3, <2>4, <2>5 DEF Remembers
<1>5. CASE k \notin due
  <2>1. told'[k] = before[k] /\ DOMAIN manager'.states = DOMAIN states
    BY <1>1, <1>5
  <2>2. k \in DOMAIN states => manager'.states[k] = states[k]
    BY <1>1, <1>5
  <2> QED BY <2>1, <2>2 DEF Remembers
<1> QED BY <1>4, <1>5

\* Items that are submitted are remembered.
LEMMA SubmittedRemembers ==
  ASSUME LadderTypes, lag = 0, NEW states, StatesOK(states), NEW first,
         NEW k \in Items, NEW f \in Nat, NEW t \in Tellings, Remembers(items[k], f, states, k, t)
  PROVE  Remembers(items[k], f, Submitted(states, first), k, t)
<1> DEFINE young(age) == Ago(age) < Stale
           known == {j \in DOMAIN states : young(states[j].seen) \/ (j = first /\ j \in Submittable)}
           new == {j \in Submittable \ known : young(items[j].age)}
           after == [j \in known \cup new |->
                      IF j \notin known THEN FirstSeen(items[j].age)
                      ELSE IF j \in Submittable THEN Seen(states[j], lag) ELSE states[j]]
<1>1. Submitted(states, first) = after
  BY DEF Submitted
<1>2. items[k] \in Item /\ items[k].age \in Nat /\ Stale \in Nat /\ MaxPlan \in Nat
  BY Times DEF LadderTypes, Item
<1>3. k \in DOMAIN states => states[k] \in TriggerState /\ states[k].seen \in Nat
  BY DEF StatesOK, TriggerState
<1>4. k \in Submittable => items[k].status = "unread" /\ ~Dead(items[k], f)
  BY DEF Submittable, With, Dead
<1>5. k \in known => k \in DOMAIN states
  OBVIOUS
<1>6. k \in DOMAIN states /\ k \notin known => states[k].seen >= Stale
  BY <1>2, <1>3 DEF Ago
<1>7. k \in new => k \in Submittable /\ k \notin known /\ items[k].age < Stale
  BY <1>2 DEF Ago
<1>8. DOMAIN after = known \cup new
  OBVIOUS
<1>9. /\ k \in known /\ k \in Submittable => after[k] = Seen(states[k], 0)
      /\ k \in known /\ k \notin Submittable => after[k] = states[k]
      /\ k \in new => after[k] = FirstSeen(items[k].age)
  OBVIOUS
<1>10. k \notin known /\ t.level # 0 => items[k].age >= Stale \/ Dead(items[k], f)
  <2>1. CASE k \in DOMAIN states
    BY <1>2, <1>3, <1>6, <2>1 DEF Remembers, AsOld
  <2>2. CASE k \notin DOMAIN states
    BY <2>2 DEF Remembers
  <2> QED BY <2>1, <2>2
<1> HIDE DEF known, new, after
<1>11. CASE k \in known /\ k \in Submittable
  <2>1. /\ after[k].seen = 0 /\ after[k].sent = states[k].sent /\ after[k].level = states[k].level
    BY <1>3, <1>5, <1>9, <1>11 DEF Seen, TriggerState
  <2>2. NotBefore(t, states[k])
    BY <1>5, <1>11 DEF Remembers
  <2> QED BY <1>1, <1>2, <1>4, <1>8, <1>11, <2>1, <2>2 DEF Remembers, NotBefore, AsOld
<1>12. CASE k \in known /\ k \notin Submittable
  BY <1>1, <1>5, <1>8, <1>9, <1>12 DEF Remembers
<1>13. CASE k \in new
  <2>1. t.level = 0
    BY <1>2, <1>4, <1>7, <1>10, <1>13
  <2>2. after[k].seen = items[k].age
    BY <1>9, <1>13 DEF FirstSeen
  <2> QED BY <1>1, <1>2, <1>4, <1>7, <1>8, <1>13, <2>1, <2>2 DEF Remembers, NotBefore, AsOld
<1>14. CASE k \notin known \cup new
  BY <1>1, <1>8, <1>10, <1>14 DEF Remembers
<1> QED BY <1>11, <1>12, <1>13, <1>14

\* The items of a key, and what was told of it.
LEMMA KeyTypes ==
  ASSUME LadderTypes, NEW k \in Items
  PROVE  /\ items[k] \in Item /\ told[k] \in Tellings /\ faults \in Nat
         /\ ManagerOK(manager) /\ ManagerOK(saved) /\ StatesOK(manager.states) /\ StatesOK(saved.states)
BY DEF LadderTypes, Item, Tellings, ManagerOK

\* A step on the items: one that is not new gets older, dies, or stays.
LEMMA KeyItems ==
  ASSUME LadderTypes, LadderTypes', NEW k \in Items, KeyInv(k),
         UNCHANGED <<saved, told>>,
         pc' = "down" \/ (pc # "down" /\ manager' = manager),
         items'[k].status = "none" => items[k].status = "none",
         items'[k].age >= items[k].age \/ Dead(items'[k], faults'),
         Dead(items[k], faults) => Dead(items'[k], faults')
  PROVE  KeyInv(k)'
<1>1. /\ items[k] \in Item /\ items'[k] \in Item /\ faults \in Nat /\ faults' \in Nat
      /\ StatesOK(manager.states) /\ StatesOK(saved.states)
  BY KeyTypes DEF LadderTypes, Item
<1>2. Remembers(items'[k], faults', saved.states, k, Lasting(told[k]))
  BY <1>1, ItemLater DEF KeyInv
<1>3. pc # "down" => Remembers(items'[k], faults', manager.states, k, told[k])
  BY <1>1, ItemLater DEF KeyInv
<1> QED BY <1>2, <1>3 DEF KeyInv

\* The items stay.
LEMMA KeySame ==
  ASSUME LadderTypes, LadderTypes', NEW k \in Items, KeyInv(k),
         UNCHANGED <<items, saved, told>>, faults' >= faults,
         pc' = "down" \/ (pc # "down" /\ manager' = manager)
  PROVE  KeyInv(k)'
<1>1. items[k] \in Item /\ items'[k] = items[k] /\ items'[k].age >= items[k].age
  BY KeyTypes DEF Item
<1>2. Dead(items[k], faults) => Dead(items'[k], faults')
  BY <1>1, Times DEF Dead, LadderTypes
<1> QED BY <1>1, <1>2, KeyItems

\* The other commands.
LEMMA SetStatusKey ==
  ASSUME LadderTypes, LadderTypes', NEW k \in Items, KeyInv(k),
         NEW ks, NEW status \in {"unread", "acked", "gone"}, SetStatus(ks, status), faults' >= faults,
         status = "unread" => faults < MaxFaults,
         k \in ks => items[k].status \in {"unread", "acked", "gone"},
         k \in ks /\ items[k].status = "gone" => faults < MaxFaults,
         pc # "down" \/ pc' = "down"
  PROVE  KeyInv(k)'
<1>1. UNCHANGED <<pc, manager, saved, told>>
  BY DEF SetStatus
<1>2. items'[k] = IF k \notin ks THEN items[k]
                  ELSE [status |-> status, age |-> IF Kept(status) THEN items[k].age ELSE 0]
  BY DEF SetStatus
<1>3. items[k].age \in Nat /\ faults \in Nat /\ faults' \in Nat /\ MaxFaults \in Nat
  BY KeyTypes, Times DEF Item, LadderTypes
<1>4. CASE k \notin ks
  <2>1. Dead(items[k], faults) => Dead(items'[k], faults')
    BY <1>2, <1>3, <1>4 DEF Dead
  <2>2. items'[k].age >= items[k].age
    BY <1>2, <1>3, <1>4
  <2> QED BY <1>1, <1>2, <1>4, <2>1, <2>2, KeyItems
<1>5. CASE k \in ks
  <2>1. items'[k].status = status /\ items'[k].age = IF Kept(status) THEN items[k].age ELSE 0
    BY <1>2, <1>5
  <2>2. ~Dead(items[k], faults)
    BY <1>3, <1>5 DEF Dead
  <2>3. Kept(status) \/ Dead(items'[k], faults')
    BY <1>3, <2>1 DEF Kept, Dead
  <2>4. items'[k].age >= items[k].age \/ Dead(items'[k], faults')
    BY <1>3, <2>1, <2>3
  <2> QED BY <1>1, <2>1, <2>2, <2>4, KeyItems
<1> QED BY <1>4, <1>5

\* A start of the daemon.
LEMMA StartKey ==
  ASSUME LadderTypes, LadderTypes', NEW k \in Items, KeyInv(k), Start
  PROVE  KeyInv(k)'
<1>1. /\ items[k] \in Item /\ told[k] \in Tellings /\ faults \in Nat /\ faults' \in Nat
      /\ StatesOK(saved.states) /\ UNCHANGED <<items, saved>>
  BY KeyTypes DEF Start, LadderTypes
<1>2. faults' >= faults
  BY <1>1 DEF Start, Fault
<1>3. Remembers(items[k], faults', saved.states, k, Lasting(told[k]))
  BY <1>1, <1>2, FaultLater DEF KeyInv
<1>4. items[k].status = "none" => Lasting(told[k]) = NotTold
  BY <1>1, LastingIs DEF KeyInv
<1>5. CASE manager' = saved /\ told' = [j \in Items |-> IF told[j].saved THEN told[j] ELSE NotTold]
  <2>1. told'[k] = Lasting(told[k])
    BY <1>5 DEF Lasting
  <2>2. Lasting(told'[k]) = Lasting(told[k])
    BY <1>1, <2>1, LastingIs
  <2> QED BY <1>1, <1>3, <1>4, <1>5, <2>1, <2>2 DEF KeyInv
<1>6. CASE manager' = NoState /\ told' = [j \in Items |-> NotTold]
  <2>1. told'[k] = NotTold /\ Lasting(told'[k]) = NotTold
    BY <1>1, <1>6, LastingIs
  <2>2. Remembers(items[k], faults', saved.states, k, NotTold)
    BY <1>3, Forgotten
  <2>3. Remembers(items[k], faults', NoState.states, k, NotTold)
    BY NoStateOK, NotToldType DEF Remembers
  <2> QED BY <1>1, <1>6, <2>1, <2>2, <2>3 DEF KeyInv
<1> QED BY <1>5, <1>6 DEF Start

\* A refresh of the notifications.
LEMMA RefreshKey ==
  ASSUME LadderTypes, LadderTypes', NEW k \in Items, KeyInv(k), Refresh
  PROVE  KeyInv(k)'
<1>1. /\ items[k] \in Item /\ told[k] \in Tellings /\ faults \in Nat /\ faults' \in Nat
      /\ StatesOK(manager.states) /\ UNCHANGED <<items, saved>>
      /\ pc = "top" /\ pc' = "plan" /\ lag = 0
  BY KeyTypes DEF Refresh, Goto, LadderTypes
<1>2. CASE Look /\ UNCHANGED faults
  <2> DEFINE acked == With("acked")
             states == Restrict(manager.states, DOMAIN manager.states \ acked)
             before == [j \in Items |-> IF j \in acked THEN NotTold ELSE told[j]]
  <2>1. StatesOK(states)
    BY <1>1 DEF StatesOK, Restrict
  <2>2. before \in [Items -> Tellings]
    BY NotToldType DEF LadderTypes, Tellings
  <2>3. /\ before[k] \in {NotTold, told[k]}
        /\ items[k].status = "none" => before[k] = told[k]
        /\ Remembers(items[k], faults, states, k, before[k])
    <3>1. Remembers(items[k], faults, manager.states, k, told[k])
      BY <1>1 DEF KeyInv
    <3>2. CASE k \in acked
      <4>1. before[k] = NotTold /\ k \notin DOMAIN states /\ items[k].status = "acked"
        BY <3>2 DEF Restrict, With
      <4> QED BY <4>1, NotToldType DEF Remembers
    <3>3. CASE k \notin acked
      <4>1. /\ before[k] = told[k] /\ (k \in DOMAIN states <=> k \in DOMAIN manager.states)
            /\ k \in DOMAIN states => states[k] = manager.states[k]
        BY <3>3 DEF Restrict
      <4> QED BY <3>1, <4>1 DEF Remembers
    <3> QED BY <3>2, <3>3
  <2>4. \/ Flush(states, manager.log, {}, before)
        \/ \E first \in With("unread") : Flush(Submitted(states, first), Fresh(manager.log), Submittable, before)
    BY <1>2 DEF Look
  <2> HIDE DEF states, before
  <2>5. /\ Remembers(items[k], faults, manager'.states, k, told'[k])
        /\ told'[k] = before[k] \/ (k \in Submittable /\ Lasting(told'[k]) = NotTold)
    <3>1. CASE Flush(states, manager.log, {}, before)
      BY <2>1, <2>2, <2>3, <3>1, FlushRemembers
    <3>2. ASSUME NEW first \in With("unread"), Flush(Submitted(states, first), Fresh(manager.log), Submittable, before)
          PROVE  /\ Remembers(items[k], faults, manager'.states, k, told'[k])
                 /\ told'[k] = before[k] \/ (k \in Submittable /\ Lasting(told'[k]) = NotTold)
      <4>1. StatesOK(Submitted(states, first))
        BY <2>1, SubmittedTypes
      <4>2. before[k] \in Tellings
        BY <2>2
      <4>3. Remembers(items[k], faults, Submitted(states, first), k, before[k])
        BY <1>1, <2>1, <2>3, <4>2, SubmittedRemembers
      <4> QED BY <2>2, <3>2, <4>1, <4>3, FlushRemembers
    <3> QED BY <2>4, <3>1, <3>2
  <2>6. Lasting(told'[k]) \in {NotTold, Lasting(told[k])}
    BY <1>1, <2>3, <2>5, LastingIs
  <2>7. Remembers(items[k], faults, saved.states, k, Lasting(told'[k]))
    BY <2>6, Forgotten DEF KeyInv
  <2>8. items[k].status = "none" => told'[k] = NotTold
    BY <2>3, <2>5 DEF KeyInv, Submittable, With
  <2> QED BY <1>1, <1>2, <2>5, <2>7, <2>8 DEF KeyInv
<1>3. CASE UNCHANGED <<manager, told>> /\ (Fault \/ UNCHANGED faults)
  <2>1. faults' >= faults
    BY <1>1, <1>3 DEF Fault
  <2> QED BY <1>1, <1>3, <2>1, KeySame
<1> QED BY <1>2, <1>3 DEF Refresh

\* What the daemon adds to the inbox is a new item.
LEMMA AddedItem ==
  ASSUME LadderTypes, NEW j \in Items, items[j].status = "none",
         NEW status \in {"unread", "lost"}, Added(j, status), NEW k \in Items
  PROVE  items'[k] = IF k = j THEN [status |-> status, age |-> 0] ELSE items[k]
BY DEF LadderTypes, Added

\* A deferred escalation.
LEMMA DeferKey ==
  ASSUME LadderTypes, LadderTypes', NEW k \in Items, KeyInv(k), NEW j \in Items, Defer(j)
  PROVE  KeyInv(k)'
<1>1. /\ items[k] \in Item /\ told[k] \in Tellings /\ faults \in Nat /\ faults' \in Nat
      /\ pc = "plan" /\ pc' = "save" /\ UNCHANGED <<manager, saved, told>> /\ items[j].status = "none"
  BY KeyTypes DEF Defer, Goto, LadderTypes
<1>2. faults' >= faults
  BY <1>1 DEF Defer, Fault
<1>3. PICK status \in {"unread", "lost"} : Added(j, status)
  BY DEF Defer
<1>4. items'[k] = IF k = j THEN [status |-> status, age |-> 0] ELSE items[k]
  BY <1>1, <1>3, AddedItem
<1>5. CASE k = j
  <2>1. told[k] = NotTold /\ Lasting(told[k]) = NotTold
    BY <1>1, <1>5, LastingIs DEF KeyInv
  <2>2. /\ Remembers(items'[k], faults', manager.states, k, NotTold)
        /\ Remembers(items'[k], faults', saved.states, k, NotTold)
    BY <1>1, <1>5, NewItem DEF KeyInv
  <2> QED BY <1>1, <2>1, <2>2 DEF KeyInv
<1>6. CASE k # j
  <2>1. items'[k] = items[k] /\ items[k].age \in Nat
    BY <1>1, <1>4, <1>6 DEF Item
  <2>2. Dead(items[k], faults) => Dead(items'[k], faults')
    BY <1>1, <1>2, <2>1, Times DEF Dead
  <2>3. items'[k].age >= items[k].age
    BY <2>1
  <2> QED BY <1>1, <2>1, <2>2, <2>3, KeyItems
<1> QED BY <1>5, <1>6

\* An escalation.
LEMMA EscalateKey ==
  ASSUME LadderTypes, LadderTypes', NEW k \in Items, KeyInv(k), NEW j \in Items, Escalate(j)
  PROVE  KeyInv(k)'
<1>1. /\ items[k] \in Item /\ items'[k] \in Item /\ told[k] \in Tellings /\ faults \in Nat /\ faults' \in Nat
      /\ StatesOK(manager.states) /\ StatesOK(saved.states) /\ told \in [Items -> Tellings]
      /\ lag \in Nat /\ Stale \in Nat /\ MaxPlan \in Nat
      /\ pc = "plan" /\ pc' = "save" /\ UNCHANGED saved /\ items[j].status = "none"
  <2>1. pc = "plan" /\ pc' = "save" /\ UNCHANGED saved /\ items[j].status = "none"
    BY DEF Escalate, Goto
  <2>2. items'[k] \in Item /\ faults' \in Nat /\ told \in [Items -> Tellings] /\ lag \in Nat
    BY Times DEF LadderTypes, Item, Tellings
  <2> QED BY <2>1, <2>2, KeyTypes, Times
<1>2. faults' >= faults
  <2>1. UNCHANGED faults \/ Fault
    BY DEF Escalate
  <2> QED BY <1>1, <2>1 DEF Fault
<1>3. PICK status \in {"unread", "lost"} : Added(j, status)
  BY DEF Escalate
<1>4. items'[k] = IF k = j THEN [status |-> status, age |-> 0] ELSE items[k]
  BY <1>1, <1>3, AddedItem
<1>5. /\ Remembers(items'[k], faults', manager.states, k, told[k])
      /\ Remembers(items'[k], faults', saved.states, k, Lasting(told[k]))
      /\ k = j => told[k] = NotTold /\ k \notin DOMAIN manager.states
      /\ items'[k].status = "none" => told[k] = NotTold
  <2>1. CASE k = j
    <3>1. told[k] = NotTold /\ Lasting(told[k]) = NotTold
      BY <1>1, <2>1, LastingIs DEF KeyInv
    <3>2. /\ Remembers(items'[k], faults', manager.states, k, NotTold) /\ k \notin DOMAIN manager.states
          /\ Remembers(items'[k], faults', saved.states, k, NotTold)
      BY <1>1, <2>1, NewItem DEF KeyInv
    <3> QED BY <3>1, <3>2
  <2>2. CASE k # j
    <3>1. items'[k] = items[k]
      BY <1>4, <2>2
    <3> QED BY <1>1, <1>2, <2>2, <3>1, FaultLater DEF KeyInv
  <2> QED BY <2>1, <2>2
<1> DEFINE pending == IF Severity[j] >= Warning THEN {j} ELSE {}
           young == {i \in DOMAIN manager.states : Ago(manager.states[i].seen) < Stale}
           states == [i \in young \cup pending |-> IF i = j THEN FirstSeen(0) ELSE manager.states[i]]
<1>6. CASE Flush(states, Fresh(manager.log), pending, told)
  <2>1. StatesOK(states)
    <3>1. pending \in SUBSET {j} /\ young \subseteq DOMAIN manager.states
      OBVIOUS
    <3> HIDE DEF pending, young
    <3> QED BY <1>1, <3>1, EscalatedTypes
  <2>2. pending \subseteq {j}
    OBVIOUS
  <2>3. Remembers(items'[k], faults', states, k, told[k])
    <3>1. CASE k = j
      <4>1. told[k].level = 0 /\ items'[k].status # "none" /\ items'[k].age \in Nat
        BY <1>1, <1>4, <1>5, <3>1, NotToldType DEF Item
      <4>2. k \in DOMAIN states => states[k] = FirstSeen(0)
        BY <3>1
      <4>3. AsOld(items'[k], FirstSeen(0).seen)
        BY <4>1 DEF AsOld, FirstSeen
      <4> HIDE DEF states
      <4> QED BY <4>1, <4>2, <4>3 DEF Remembers, NotBefore
    <3>2. CASE k # j
      <4>1. /\ k \in DOMAIN states <=> k \in young
            /\ k \in young => k \in DOMAIN manager.states /\ states[k] = manager.states[k]
        BY <3>2
      <4>2. ASSUME k \notin DOMAIN states, told[k].level # 0
            PROVE  items'[k].age >= Stale \/ Dead(items'[k], faults')
        <5>1. CASE k \in DOMAIN manager.states
          <6>1. manager.states[k].seen \in Nat
            BY <1>1, <5>1 DEF StatesOK, TriggerState
          <6>2. k \notin young
            BY <4>1, <4>2
          <6>3. manager.states[k].seen >= Stale
            BY <1>1, <5>1, <6>1, <6>2 DEF Ago
          <6>4. AsOld(items'[k], manager.states[k].seen) \/ Dead(items'[k], faults')
            BY <1>5, <5>1 DEF Remembers
          <6>5. items'[k].age \in Nat
            BY <1>1 DEF Item
          <6> QED BY <1>1, <6>1, <6>3, <6>4, <6>5 DEF AsOld
        <5>2. CASE k \notin DOMAIN manager.states
          BY <1>5, <4>2, <5>2 DEF Remembers
        <5> QED BY <5>1, <5>2
      <4> HIDE DEF states, young
      <4> QED BY <1>5, <4>1, <4>2 DEF Remembers
    <3> QED BY <3>1, <3>2
  <2> HIDE DEF pending, states
  <2>4. /\ Remembers(items'[k], faults', manager'.states, k, told'[k])
        /\ told'[k] = told[k] \/ (k \in pending /\ Lasting(told'[k]) = NotTold)
    BY <1>1, <1>6, <2>1, <2>3, FlushRemembers
  <2>5. Remembers(items'[k], faults', saved.states, k, Lasting(told'[k]))
    BY <1>5, <2>4, Forgotten
  <2>6. items'[k].status = "none" => told'[k] = NotTold
    <3>1. k \in pending => items'[k].status # "none"
      BY <1>4, <2>2
    <3> QED BY <1>5, <2>4, <3>1
  <2> QED BY <1>1, <2>4, <2>5, <2>6 DEF KeyInv
<1>7. CASE UNCHANGED <<manager, told, sent>>
  BY <1>1, <1>5, <1>7 DEF KeyInv
<1> QED BY <1>6, <1>7 DEF Escalate

\* A save, and its failure.
LEMMA SaveKey ==
  ASSUME LadderTypes, LadderTypes', NEW k \in Items, KeyInv(k), Save
  PROVE  KeyInv(k)'
<1>1. /\ items[k] \in Item /\ told[k] \in Tellings /\ faults \in Nat /\ faults' \in Nat
      /\ pc = "save" /\ pc' = "top" /\ UNCHANGED <<items, manager>>
  BY KeyTypes DEF Save, Goto, LadderTypes
<1>2. CASE /\ saved' = manager /\ UNCHANGED faults
           /\ told' = [j \in Items |-> [told[j] EXCEPT !.saved = TRUE]]
  <2>1. told'[k] = [told[k] EXCEPT !.saved = TRUE]
    BY <1>2
  <2>2. told'[k].level = told[k].level /\ told'[k].age = told[k].age /\ told'[k].saved
    BY <1>1, <2>1 DEF Tellings
  <2>3. Lasting(told'[k]) = told'[k]
    BY <2>2 DEF Lasting
  <2>4. Remembers(items[k], faults, manager.states, k, told'[k])
    BY <1>1, <2>2, SameTelling DEF KeyInv
  <2>5. items[k].status = "none" => told'[k] = NotTold
    <3>1. items[k].status = "none" => told[k] = NotTold
      BY DEF KeyInv
    <3>2. ASSUME told[k] = NotTold PROVE told'[k] = NotTold
      <4>1. told'[k] \in Tellings /\ told'[k].level = 0 /\ told'[k].age = 0 /\ told'[k].saved
        <5>1. told'[k] \in Tellings
          BY DEF LadderTypes, Tellings
        <5> QED BY <2>2, <3>2, <5>1, NotToldType DEF NotTold
      <4> DEFINE t == told'[k]
      <4>2. t = [level |-> t.level, age |-> t.age, saved |-> t.saved]
        BY <4>1 DEF Tellings
      <4>3. t.level = 0 /\ t.age = 0 /\ t.saved
        BY <4>1
      <4>4. t.saved = TRUE
        BY <4>1, ZenonT(20) DEF Tellings
      <4> HIDE DEF t
      <4> QED BY <4>2, <4>3, <4>4 DEF NotTold, t
    <3> QED BY <3>1, <3>2
  <2> QED BY <1>1, <1>2, <2>3, <2>4, <2>5 DEF KeyInv
<1>3. CASE Fault /\ UNCHANGED <<saved, told, sent>>
  <2>1. faults' >= faults
    BY <1>1, <1>3 DEF Fault
  <2> QED BY <1>1, <1>3, <2>1, KeySame
<1> QED BY <1>2, <1>3 DEF Save

\* Time goes on.
LEMMA PassKey ==
  ASSUME LadderTypes, LadderTypes', NEW k \in Items, KeyInv(k), Pass
  PROVE  KeyInv(k)'
<1> DEFINE kept == Kept(items[k].status)
           age == IF kept THEN Older(items[k].age, Max({Stale, Highest})) ELSE 0
<1>1. /\ items[k] \in Item /\ items'[k] \in Item /\ told[k] \in Tellings /\ told'[k] \in Tellings
      /\ faults \in Nat /\ ManagerOK(manager) /\ ManagerOK(saved)
  BY KeyTypes DEF LadderTypes, Item, Tellings
<1>2. /\ UNCHANGED <<pc, faults>> /\ manager' = OlderState(manager) /\ saved' = OlderState(saved)
      /\ items'[k] = [items[k] EXCEPT !.age = age]
      /\ told'[k] = IF told[k] = NotTold THEN NotTold ELSE [told[k] EXCEPT !.age = Older(@, Cooldown)]
  BY DEF Pass
<1>3. kept \in BOOLEAN /\ (kept \/ items[k].status = "none" \/ Dead(items[k], faults))
  BY <1>1, <1>2, Times DEF Kept, Dead, Item, Statuses
<1>4. items'[k].status = items[k].status /\ items'[k].age = age
  <2> HIDE DEF age
  <2> QED BY <1>1, <1>2 DEF Item
<1>5. /\ told'[k].level = told[k].level
      /\ told[k].level # 0 => told'[k].age = Older(told[k].age, Cooldown)
      /\ Lasting(told'[k]).level = Lasting(told[k]).level
      /\ Lasting(told[k]).level # 0 => Lasting(told'[k]).age = Older(Lasting(told[k]).age, Cooldown)
  <2>1. CASE told[k] = NotTold
    BY <1>1, <1>2, <2>1, NotToldType, LastingIs
  <2>2. CASE told[k] # NotTold
    <3> DEFINE o == Older(told[k].age, Cooldown)
    <3>1. told'[k] = [told[k] EXCEPT !.age = o]
      BY <1>2, <2>2
    <3> HIDE DEF o
    <3>2. told'[k].level = told[k].level /\ told'[k].age = o /\ told'[k].saved = told[k].saved
      BY <1>1, <3>1 DEF Tellings
    <3> QED BY <3>2, NotToldType DEF Lasting, o
  <2> QED BY <2>1, <2>2
<1>6. items[k].status = "none" => told[k] = NotTold /\ Lasting(told[k]) = NotTold
  BY <1>1, LastingIs DEF KeyInv
<1>7. Lasting(told[k]) \in Tellings /\ Lasting(told'[k]) \in Tellings
  BY <1>1, LastingIs
<1> HIDE DEF kept
<1>8. items'[k].age = IF kept THEN Older(items[k].age, Max({Stale, Highest})) ELSE 0
  BY <1>4
<1> HIDE DEF age
<1>9. Remembers(items'[k], faults, OlderState(saved).states, k, Lasting(told'[k]))
  <2>1. Remembers(items[k], faults, saved.states, k, Lasting(told[k]))
    BY DEF KeyInv
  <2> QED BY <1>1, <1>3, <1>4, <1>5, <1>6, <1>7, <1>8, <2>1, RememberedLater
<1>10. pc # "down" => Remembers(items'[k], faults, OlderState(manager).states, k, told'[k])
  <2>1. pc # "down" => Remembers(items[k], faults, manager.states, k, told[k])
    BY DEF KeyInv
  <2> QED BY <1>1, <1>3, <1>4, <1>5, <1>6, <1>8, <2>1, RememberedLater
<1>11. items'[k].status = "none" => told'[k] = NotTold
  BY <1>2, <1>4, <1>6
<1> QED BY <1>2, <1>9, <1>10, <1>11 DEF KeyInv

\* Every step keeps what is remembered of an item.
LEMMA StepKey ==
  ASSUME LadderTypes, LadderTypes', NEW k \in Items, KeyInv(k), [Next]_vars
  PROVE  KeyInv(k)'
<1>1. faults \in Nat /\ items[k].status \in Statuses
  BY KeyTypes DEF Item
<1>2. CASE UNCHANGED vars
  BY <1>2 DEF vars, KeyInv
<1>3. CASE Start
  BY <1>3, StartKey
<1>4. CASE Reload \/ Skip
  <2>1. UNCHANGED <<items, saved, told, manager, faults>> /\ pc # "down"
    BY <1>4 DEF Reload, Skip, Goto
  <2> QED BY <1>1, <2>1, KeySame
<1>5. CASE Refresh
  BY <1>5, RefreshKey
<1>6. CASE \E j \in Items : Defer(j)
  BY <1>6, DeferKey
<1>7. CASE \E j \in Items : Escalate(j)
  BY <1>7, EscalateKey
<1>8. CASE Save
  BY <1>8, SaveKey
<1>9. CASE Stop \/ Crash
  <2>1. UNCHANGED <<items, saved, told>> /\ pc' = "down" /\ faults' >= faults
    BY <1>1, <1>9 DEF Stop, Crash, Down, Fault
  <2> QED BY <2>1, KeySame
<1>10. ASSUME NEW ks, NEW status \in {"unread", "acked", "gone"}, SetStatus(ks, status), faults' >= faults,
              status = "unread" => faults < MaxFaults,
              k \in ks => items[k].status \in {"unread", "acked", "gone"},
              k \in ks /\ items[k].status = "gone" => faults < MaxFaults
       PROVE  KeyInv(k)'
  <2>1. UNCHANGED <<pc, manager, saved, told>>
    BY <1>10 DEF SetStatus
  <2> QED BY <1>10, <2>1, SetStatusKey
<1>11. ASSUME NEW j \in Items, Acknowledge(j) PROVE KeyInv(k)'
  <2>1. SetStatus({j}, "acked") /\ UNCHANGED faults /\ items[j].status = "unread"
    BY <1>11 DEF Acknowledge, With
  <2> QED BY <1>1, <1>10, <2>1
<1>12. ASSUME NEW j \in Items, Undo(j) PROVE KeyInv(k)'
  <2>1. SetStatus({j}, "unread") /\ Fault /\ items[j].status \in {"acked", "gone"}
    BY <1>12 DEF Undo, With
  <2>2. faults < MaxFaults /\ faults' >= faults
    BY <1>1, <2>1 DEF Fault
  <2> QED BY <1>10, <2>1, <2>2
<1>13. ASSUME NEW j \in Items, Lose(j) PROVE KeyInv(k)'
  <2>1. SetStatus({j}, "gone") /\ Fault /\ items[j].status = "unread"
    BY <1>13 DEF Lose, With
  <2>2. faults' >= faults
    BY <1>1, <2>1 DEF Fault
  <2> QED BY <1>10, <2>1, <2>2
<1>14. CASE Clear \/ ClearAll
  <2>1. PICK ks \in SUBSET (With("acked") \cup With("unread")) : SetStatus(ks, "gone") /\ UNCHANGED faults
    BY <1>14 DEF Clear, ClearAll
  <2>2. k \in ks => items[k].status \in {"acked", "unread"}
    BY <2>1 DEF With
  <2> QED BY <1>1, <1>10, <2>1, <2>2
<1>15. CASE Pass
  BY <1>15, PassKey
<1> QED BY <1>2, <1>3, <1>4, <1>5, <1>6, <1>7, <1>8, <1>9, <1>11, <1>12, <1>13, <1>14, <1>15 DEF Next, Loop

\* What is told in a step of the daemon is higher than before, or as high after the
\* cooldown.
LEMMA FlushRepeats ==
  ASSUME LadderTypes, NEW states, NEW log, NEW pending, NEW before,
         Flush(states, log, pending, before), NEW k \in Items, before[k] \in Tellings,
         k \in pending \cap DOMAIN states => states[k] \in TriggerState /\ NotBefore(before[k], states[k])
  PROVE  \/ told'[k] = before[k]
         \/ told'[k].level > before[k].level
         \/ told'[k].level = before[k].level /\ before[k].age - lag >= Cooldown
<1> DEFINE fresh == IF pending = {} THEN log ELSE Fresh(log)
           due == {j \in pending \cap DOMAIN states : BudgetLeft(fresh) /\ Due(j, states[j])}
<1>1. told'[k] = IF k \in due THEN [level |-> Desired(k, states[k]), age |-> lag, saved |-> FALSE]
                 ELSE before[k]
  BY DEF Flush
<1>2. k \in due => k \in pending \cap DOMAIN states /\ Due(k, states[k])
  OBVIOUS
<1> HIDE DEF due
<1>3. CASE k \in due
  <2> DEFINE l == Desired(k, states[k])
  <2>1. l \in 1..4 /\ told'[k].level = l
    BY <1>1, <1>3, Levels
  <2>2. /\ states[k].level \in 0..4 /\ states[k].sent \in Nat /\ NotBefore(before[k], states[k])
        /\ before[k].level \in 0..4 /\ before[k].age \in Nat /\ lag \in Nat /\ Cooldown \in Nat
    BY <1>2, <1>3, Times DEF TriggerState, Tellings, LadderTypes
  <2>3. \/ states[k].level = 0 \/ l > states[k].level
        \/ l = states[k].level /\ states[k].sent - lag >= Cooldown
    BY <1>2, <1>3 DEF Due, Ago
  <2> HIDE DEF l
  <2> QED BY <2>1, <2>2, <2>3 DEF NotBefore
<1>4. CASE k \notin due
  BY <1>1, <1>4
<1> QED BY <1>3, <1>4

\* A step of the daemon tells nothing too early.
LEMMA StepRepeats ==
  ASSUME LadderTypes, NEW k \in Items, KeyInv(k), [Next]_vars,
         told'[k].level # 0, told'[k] # told[k], pc \in {"top", "plan"}, pc' # pc
  PROVE  \/ told'[k].level > told[k].level
         \/ told'[k].level = told[k].level /\ told[k].age - lag >= Cooldown
<1>1. told[k] \in Tellings /\ faults \in Nat /\ StatesOK(manager.states) /\ told \in [Items -> Tellings]
  BY KeyTypes DEF LadderTypes, Tellings
<1>2. (Look /\ pc = "top") \/ \E j \in Items : Escalate(j)
  <2>1. ~UNCHANGED told
    OBVIOUS
  <2>2. CASE Refresh
    BY <2>1, <2>2 DEF Refresh, Goto
  <2>3. CASE \E j \in Items : Escalate(j)
    BY <2>1, <2>3
  <2>4. CASE Start \/ Save \/ Pass
    BY <2>4 DEF Start, Save, Pass, Goto
  <2>5. CASE Reload \/ Skip \/ Stop \/ Crash \/ Clear \/ ClearAll \/ UNCHANGED vars
    BY <2>1, <2>5 DEF Reload, Skip, Stop, Crash, Clear, ClearAll, SetStatus, vars
  <2>6. CASE \E j \in Items : Defer(j) \/ Acknowledge(j) \/ Undo(j) \/ Lose(j)
    BY <2>1, <2>6 DEF Defer, Acknowledge, Undo, Lose, SetStatus
  <2> QED BY <2>2, <2>3, <2>4, <2>5, <2>6 DEF Next, Loop
<1>3. CASE Look /\ pc = "top"
  <2> DEFINE acked == With("acked")
             states == Restrict(manager.states, DOMAIN manager.states \ acked)
             before == [i \in Items |-> IF i \in acked THEN NotTold ELSE told[i]]
  <2>1. lag = 0 /\ StatesOK(states)
    BY <1>1, <1>3 DEF LadderTypes, StatesOK, Restrict
  <2>2. /\ before[k] \in {NotTold, told[k]} /\ before[k] \in Tellings
        /\ k \notin acked => before[k] = told[k]
    BY <1>1, NotToldType
  <2>3. k \notin acked => Remembers(items[k], faults, states, k, told[k])
    <3> SUFFICES ASSUME k \notin acked PROVE Remembers(items[k], faults, states, k, told[k])
      OBVIOUS
    <3>1. Remembers(items[k], faults, manager.states, k, told[k])
      BY <1>3 DEF KeyInv
    <3>2. /\ k \in DOMAIN states <=> k \in DOMAIN manager.states
          /\ k \in DOMAIN states => states[k] = manager.states[k]
      BY DEF Restrict
    <3> HIDE DEF states
    <3> QED BY <3>1, <3>2 DEF Remembers
  <2>4. k \in Submittable => k \notin acked
    BY DEF Submittable, With
  <2>5. \/ Flush(states, manager.log, {}, before)
        \/ \E first \in With("unread") : Flush(Submitted(states, first), Fresh(manager.log), Submittable, before)
    BY <1>3 DEF Look
  <2> HIDE DEF states, before, acked
  <2>6. \/ told'[k] = before[k]
        \/ k \in Submittable /\ told'[k].level > before[k].level
        \/ k \in Submittable /\ told'[k].level = before[k].level /\ before[k].age - lag >= Cooldown
    <3>1. CASE Flush(states, manager.log, {}, before)
      <4>1. told'[k] = before[k]
        BY <3>1 DEF Flush
      <4> QED BY <4>1
    <3>2. ASSUME NEW first \in With("unread"), Flush(Submitted(states, first), Fresh(manager.log), Submittable, before)
          PROVE  \/ told'[k] = before[k]
                 \/ k \in Submittable /\ told'[k].level > before[k].level
                 \/ k \in Submittable /\ told'[k].level = before[k].level /\ before[k].age - lag >= Cooldown
      <4>1. CASE k \notin Submittable
        <5>1. told'[k] = before[k]
          BY <3>2, <4>1 DEF Flush
        <5> QED BY <5>1
      <4>2. CASE k \in Submittable
        <5>1. StatesOK(Submitted(states, first))
          BY <2>1, SubmittedTypes
        <5>2. Remembers(items[k], faults, Submitted(states, first), k, before[k])
          BY <1>1, <2>1, <2>2, <2>3, <2>4, <4>2, SubmittedRemembers
        <5>3. k \in DOMAIN Submitted(states, first) =>
                 Submitted(states, first)[k] \in TriggerState /\ NotBefore(before[k], Submitted(states, first)[k])
          BY <5>1, <5>2 DEF Remembers, StatesOK
        <5> QED BY <2>2, <3>2, <4>2, <5>3, FlushRepeats
      <4> QED BY <4>1, <4>2
    <3> QED BY <2>5, <3>1, <3>2
  <2> QED BY <2>2, <2>4, <2>6, NotToldType
<1>4. ASSUME NEW j \in Items, Escalate(j)
      PROVE  \/ told'[k].level > told[k].level
             \/ told'[k].level = told[k].level /\ told[k].age - lag >= Cooldown
  <2> DEFINE pending == IF Severity[j] >= Warning THEN {j} ELSE {}
             young == {i \in DOMAIN manager.states : Ago(manager.states[i].seen) < Stale}
             states == [i \in young \cup pending |-> IF i = j THEN FirstSeen(0) ELSE manager.states[i]]
  <2>1. Flush(states, Fresh(manager.log), pending, told)
    BY <1>4 DEF Escalate
  <2>2. items[j].status = "none"
    BY <1>4 DEF Escalate
  <2>3. k \in pending \cap DOMAIN states => states[k] \in TriggerState /\ NotBefore(told[k], states[k])
    <3> SUFFICES ASSUME k \in pending, k \in DOMAIN states
                 PROVE  states[k] \in TriggerState /\ NotBefore(told[k], states[k])
      OBVIOUS
    <3>1. k = j /\ states[k] = FirstSeen(0)
      OBVIOUS
    <3>2. told[k].level = 0
      BY <2>2, <3>1, NotToldType DEF KeyInv
    <3>3. FirstSeen(0) \in TriggerState
      BY DEF FirstSeen, TriggerState
    <3> QED BY <3>1, <3>2, <3>3 DEF NotBefore
  <2> HIDE DEF pending, states
  <2> QED BY <1>1, <2>1, <2>3, FlushRepeats
<1> QED BY <1>2, <1>3, <1>4

\* An item is told again only on a higher level, or on the same one after the cooldown
\* (submit_trigger, flush, forget_key, prune_stale, persist).
THEOREM NoneRepeated == Spec => NoEarlyRepeat
<1>1. Init => RepeatInv
  <2> SUFFICES ASSUME Init, NEW k \in Items PROVE KeyInv(k)
    BY DEF RepeatInv
  <2>1. told[k] = NotTold /\ Lasting(told[k]) = NotTold /\ pc = "down" /\ saved = NoState
    BY LastingIs, NotToldType DEF Init
  <2>2. Remembers(items[k], faults, NoState.states, k, NotTold)
    BY NoStateOK, NotToldType DEF Remembers
  <2> QED BY <2>1, <2>2 DEF KeyInv
<1>2. LadderTypes /\ LadderTypes' /\ RepeatInv /\ [Next]_vars => RepeatInv'
  BY StepKey DEF RepeatInv
<1>3. LadderTypes /\ RepeatInv /\ [Next]_vars =>
        [\A k \in Items : told'[k].level # 0 /\ told'[k].age = lag /\ told'[k] # told[k] /\ ~told'[k].saved
           /\ pc \in {"top", "plan"} /\ pc' # pc =>
           \/ told'[k].level > told[k].level
           \/ told'[k].level = told[k].level /\ told[k].age - lag >= Cooldown]_vars
  BY StepRepeats DEF RepeatInv
<1> QED BY <1>1, <1>2, <1>3, LadderTyped, PTL DEF Spec, NoEarlyRepeat

------------------------------------------------------------------------------
(* The order of the notification logs. *)

\* A log is in the order of time, and nothing in it is later than an age.
InOrder(log, age) ==
  /\ \A i \in 1..Len(log) : log[i] >= age
  /\ \A i, j \in 1..Len(log) : i <= j => log[i] >= log[j]

\* Both logs are in the order of time, and what is in the manager's log was sent before
\* now_secs.
OrderInv == InOrder(manager.log, lag) /\ InOrder(saved.log, 0)

\* What is left of a log are exactly its entries that are younger than an age.
Retained(log, age) ==
  \E n \in 0..Len(log) :
    /\ Younger(log, age) = SubSeq(log, n + 1, Len(log))
    /\ \A i \in 1..Len(log) : log[i] < age <=> i > n

\* A log in order is filtered by Younger.
LEMMA OrderRetains ==
  ASSUME NEW log \in Seq(Nat), NEW a, InOrder(log, a), NEW age \in Nat
  PROVE  Retained(log, age)
<1>1. PICK n \in 0..Len(log) :
        /\ Younger(log, age) = SubSeq(log, n + 1, Len(log))
        /\ n # 0 => log[n] >= age
        /\ \A i \in (n + 1)..Len(log) : log[i] < age
  BY YoungerIs
<1>2. Len(log) \in Nat /\ n \in Nat /\ n <= Len(log)
  BY <1>1, LenProperties
<1>3. ASSUME NEW i \in 1..Len(log) PROVE log[i] < age <=> i > n
  <2>1. log[i] \in Nat /\ i \in Nat /\ i >= 1
    BY <1>2, ElementOfSeq
  <2>2. CASE i > n
    <3>1. i \in (n + 1)..Len(log)
      BY <1>2, <2>1, <2>2
    <3> QED BY <1>1, <2>2, <3>1
  <2>3. CASE ~(i > n)
    <3>1. n # 0 /\ n \in 1..Len(log) /\ i <= n
      BY <1>2, <2>1, <2>3
    <3>2. log[n] \in Nat
      BY <3>1, ElementOfSeq
    <3>3. log[i] >= log[n] /\ log[n] >= age
      BY <1>1, <3>1 DEF InOrder
    <3> QED BY <2>1, <2>3, <3>2, <3>3
  <2> QED BY <2>2, <2>3
<1> QED BY <1>1, <1>3 DEF Retained

\* The end of a log in order is in order.
LEMMA YoungerOrder ==
  ASSUME NEW log \in Seq(Nat), NEW a, InOrder(log, a), NEW age \in Nat
  PROVE  Younger(log, age) \in Seq(Nat) /\ InOrder(Younger(log, age), a)
<1>1. PICK n \in 0..Len(log) : Younger(log, age) = SubSeq(log, n + 1, Len(log))
  BY YoungerIs
<1> DEFINE y == Younger(log, age)
<1>2. y \in Seq(Nat) /\ Len(y) = Len(log) - n /\ \A i \in 1..(Len(log) - n) : y[i] = log[n + i]
  BY <1>1, EndOf
<1> HIDE DEF y
<1>3. Len(log) \in Nat /\ n \in Nat /\ n <= Len(log)
  BY LenProperties
<1>4. ASSUME NEW i \in 1..Len(y) PROVE n + i \in 1..Len(log) /\ y[i] = log[n + i]
  BY <1>2, <1>3
<1>5. \A i \in 1..Len(y) : y[i] >= a
  BY <1>4 DEF InOrder
<1>6. ASSUME NEW i \in 1..Len(y), NEW j \in 1..Len(y), i <= j PROVE y[i] >= y[j]
  <2>1. n + i <= n + j
    BY <1>2, <1>3, <1>6
  <2> QED BY <1>4, <2>1 DEF InOrder
<1> QED BY <1>2, <1>5, <1>6 DEF InOrder, y

\* What is new is the youngest.
LEMMA AppendOrder ==
  ASSUME NEW log \in Seq(Nat), NEW a \in Nat, InOrder(log, a)
  PROVE  InOrder(Append(log, a), a)
<1> DEFINE x == Append(log, a)
<1>1. /\ Len(log) \in Nat /\ Len(x) = Len(log) + 1 /\ x[Len(log) + 1] = a
      /\ \A i \in 1..Len(log) : x[i] = log[i]
  BY LenProperties, AppendProperties
<1> HIDE DEF x
<1>2. ASSUME NEW i \in 1..Len(x) PROVE x[i] >= a
  <2>1. CASE i = Len(log) + 1
    BY <1>1, <2>1
  <2>2. CASE i # Len(log) + 1
    <3>1. i \in 1..Len(log)
      BY <1>1, <2>2
    <3> QED BY <1>1, <3>1 DEF InOrder
  <2> QED BY <2>1, <2>2
<1>3. ASSUME NEW i \in 1..Len(x), NEW j \in 1..Len(x), i <= j PROVE x[i] >= x[j]
  <2>1. CASE j = Len(log) + 1
    BY <1>1, <1>2, <2>1
  <2>2. CASE j # Len(log) + 1
    <3>1. i \in 1..Len(log) /\ j \in 1..Len(log)
      BY <1>1, <1>3, <2>2
    <3> QED BY <1>1, <1>3, <3>1 DEF InOrder
  <2> QED BY <2>1, <2>2
<1> QED BY <1>2, <1>3 DEF InOrder, x

\* Time goes on for a log in order.
LEMMA OlderLogOrder ==
  ASSUME NEW log \in Seq(Nat), NEW a \in 0..MaxPlan, InOrder(log, a), NEW b \in {a, a + 1}, b <= MaxPlan
  PROVE  InOrder([i \in DOMAIN log |-> Older(log[i], Hour)], b)
<1> DEFINE older == [i \in DOMAIN log |-> Older(log[i], Hour)]
<1>1. Len(log) \in Nat /\ DOMAIN log = 1..Len(log) /\ Hour \in Nat /\ MaxPlan \in Nat
  BY Times, LenProperties
<1>2. Len(older) = Len(log) /\ \A i \in 1..Len(log) : older[i] = Older(log[i], Hour)
  BY <1>1
<1> HIDE DEF older
<1>3. ASSUME NEW i \in 1..Len(older) PROVE older[i] >= b
  <2> DEFINE c == log[i]
  <2>1. c \in Nat /\ c >= a /\ older[i] = Older(c, Hour)
    BY <1>2, ElementOfSeq DEF InOrder
  <2> HIDE DEF c
  <2>2. Older(c, Hour) >= b
    BY <1>1, <2>1 DEF Older
  <2> QED BY <2>1, <2>2
<1>4. ASSUME NEW i \in 1..Len(older), NEW j \in 1..Len(older), i <= j PROVE older[i] >= older[j]
  <2> DEFINE c == log[i]
             d == log[j]
  <2>1. c \in Nat /\ d \in Nat /\ c >= d /\ older[i] = Older(c, Hour) /\ older[j] = Older(d, Hour)
    BY <1>2, <1>4, ElementOfSeq DEF InOrder
  <2> HIDE DEF c, d
  <2>2. Older(c, Hour) >= Older(d, Hour)
    BY <1>1, <2>1, OlderOrder
  <2> QED BY <2>1, <2>2
<1> QED BY <1>3, <1>4 DEF InOrder, older

\* A log is in order with respect to any younger age.
LEMMA OrderFromStart ==
  ASSUME NEW log \in Seq(Nat), NEW a \in Nat, InOrder(log, a)
  PROVE  InOrder(log, 0)
BY LenProperties, ElementOfSeq DEF InOrder

\* A flush adds to the end of the log.
LEMMA FlushOrder ==
  ASSUME LadderTypes, NEW states, NEW log \in Seq(Nat), InOrder(log, lag), NEW pending, NEW before,
         Flush(states, log, pending, before)
  PROVE  InOrder(manager'.log, lag)
<1> DEFINE fresh == IF pending = {} THEN log ELSE Fresh(log)
           due == {k \in pending \cap DOMAIN states : BudgetLeft(fresh) /\ Due(k, states[k])}
<1>1. manager'.log = IF due = {} THEN fresh ELSE Append(fresh, lag)
  BY DEF Flush
<1>2. lag \in Nat /\ Hour + lag \in Nat
  BY Times DEF LadderTypes
<1>3. fresh \in Seq(Nat) /\ InOrder(fresh, lag)
  BY <1>2, YoungerOrder DEF Fresh
<1> HIDE DEF fresh, due
<1> QED BY <1>1, <1>2, <1>3, AppendOrder

\* Every step keeps the logs in order.
LEMMA StepOrder ==
  ASSUME LadderTypes, LadderTypes', OrderInv, [Next]_vars
  PROVE  OrderInv'
<1>1. /\ manager.log \in Seq(Nat) /\ saved.log \in Seq(Nat) /\ lag \in Nat /\ lag \in 0..MaxPlan
      /\ InOrder(manager.log, lag) /\ InOrder(saved.log, 0) /\ 0 \in 0..MaxPlan
  BY Times DEF LadderTypes, ManagerOK, OrderInv
<1>2. Fresh(manager.log) \in Seq(Nat) /\ InOrder(Fresh(manager.log), lag)
  <2>1. Hour + lag \in Nat
    BY <1>1, Times
  <2> QED BY <1>1, <2>1, YoungerOrder DEF Fresh
<1>3. InOrder(NoState.log, 0)
  BY NoStateOK, EmptySeq DEF InOrder
<1>4. CASE UNCHANGED <<lag, manager, saved>>
  BY <1>4 DEF OrderInv
<1>5. CASE Start
  <2>1. lag = 0 /\ UNCHANGED <<lag, saved>> /\ manager' \in {saved, NoState}
    BY <1>5 DEF Start, Goto, LadderTypes
  <2> QED BY <1>1, <1>3, <2>1 DEF OrderInv
<1>6. CASE Refresh
  <2>1. UNCHANGED <<lag, saved>>
    BY <1>6 DEF Refresh
  <2>2. CASE Look
    BY <1>1, <1>2, <2>1, <2>2, FlushOrder DEF Look, OrderInv
  <2>3. CASE UNCHANGED manager
    BY <1>4, <2>1, <2>3
  <2> QED BY <1>6, <2>2, <2>3 DEF Refresh
<1>7. ASSUME NEW k \in Items, Escalate(k) PROVE OrderInv'
  <2>1. UNCHANGED <<lag, saved>>
    BY <1>7 DEF Escalate
  <2>2. UNCHANGED manager \/ \E states, pending : Flush(states, Fresh(manager.log), pending, told)
    BY <1>7 DEF Escalate
  <2>3. ASSUME NEW states, NEW pending, Flush(states, Fresh(manager.log), pending, told)
        PROVE  InOrder(manager'.log, lag)
    BY <1>2, <2>3, FlushOrder
  <2> QED BY <1>1, <2>1, <2>2, <2>3 DEF OrderInv
<1>8. CASE Save
  <2>1. lag' = 0 /\ manager' = manager /\ saved' \in {manager, saved}
    BY <1>8 DEF Save
  <2>2. InOrder(manager.log, 0)
    BY <1>1, OrderFromStart
  <2> QED BY <1>1, <2>1, <2>2 DEF OrderInv
<1>9. CASE Stop \/ Crash
  <2>1. lag' = 0 /\ manager' = NoState /\ saved' = saved
    BY <1>9 DEF Stop, Crash, Down
  <2> QED BY <1>1, <1>3, <2>1 DEF OrderInv
<1>10. CASE Pass
  <2>1. manager' = OlderState(manager) /\ saved' = OlderState(saved) /\ lag' \in {lag, lag + 1}
    BY <1>10 DEF Pass
  <2>2. lag' <= MaxPlan
    BY Times DEF LadderTypes
  <2>3. InOrder([i \in DOMAIN manager.log |-> Older(manager.log[i], Hour)], lag')
    BY <1>1, <2>1, <2>2, OlderLogOrder
  <2>4. InOrder([i \in DOMAIN saved.log |-> Older(saved.log[i], Hour)], 0)
    BY <1>1, Times, OlderLogOrder
  <2> QED BY <2>1, <2>3, <2>4 DEF OrderInv, OlderState
<1>11. CASE Reload \/ Skip \/ Clear \/ ClearAll
  BY <1>4, <1>11 DEF Reload, Skip, Clear, ClearAll, SetStatus
<1>12. CASE \E k \in Items : Defer(k) \/ Acknowledge(k) \/ Undo(k) \/ Lose(k)
  BY <1>4, <1>12 DEF Defer, Acknowledge, Undo, Lose, SetStatus
<1> QED BY <1>4, <1>5, <1>6, <1>7, <1>8, <1>9, <1>10, <1>11, <1>12 DEF Next, Loop, vars

\* The notifications that count are those of the hour before now_secs: what is cut off
\* from the log at its front is what notification_log.retain drops.
THEOREM LogRetained == Spec => [](\A age \in Nat : Retained(manager.log, age))
<1>1. Init => OrderInv
  BY NoStateOK, EmptySeq DEF Init, OrderInv, InOrder
<1>2. LadderTypes /\ LadderTypes' /\ OrderInv /\ [Next]_vars => OrderInv'
  BY StepOrder
<1>3. LadderTypes /\ OrderInv => \A age \in Nat : Retained(manager.log, age)
  BY OrderRetains DEF LadderTypes, ManagerOK, OrderInv
<1> QED BY <1>1, <1>2, <1>3, LadderTyped, PTL DEF Spec
=============================================================================
