-------------------------- MODULE NotificationLadder --------------------------
(***************************************************************************)
(* The notifications of the dormant daemon (decision/escalation.rs and the  *)
(* daemon's loop): unread inbox items are told on a ladder of four levels    *)
(* that rises with their age, with a cooldown per level and a budget per     *)
(* hour, over restarts of the daemon.                                        *)
(*                                                                         *)
(* Times are kept as ages, counted from now and cut off where nothing        *)
(* depends on them any more, so that the clock never has to end.  What other *)
(* commands do to the inbox between two looks of the daemon is free: items   *)
(* are acknowledged and cleared, and come back when a rewriting of the file  *)
(* undoes that (module InboxFile).                                           *)
(***************************************************************************)
EXTENDS Integers, FiniteSetsExt, SequencesExt, Functions, TLC

CONSTANTS
  Items,       \* inbox items; the session id, or the id, is the dedupe key
  Severity,    \* Items -> 0..2 (info, warning, critical), from the candidates
  Configs,     \* [enabled, confident]: notifications.enabled, and whether the
               \* confidence 0.95 reaches min_confidence_for_escalation
  Budget,      \* max_notifications_per_hour
  Hour,        \* 3600 seconds
  Cooldown,    \* trigger_cooldown_secs
  After,       \* 2..4 -> level2_after_secs, level3_after_secs, level4_after_secs
  Stale,       \* seven days
  MaxPlan,     \* bound: time that the plans of one tick take
  MaxFaults    \* bound: crashes, failing files, changes of the inbox undone

ASSUME TimesAssumption ==
  /\ {Budget, Hour, Cooldown, Stale, MaxPlan, MaxFaults} \subseteq Nat
  /\ After \in [2..4 -> Nat] /\ Severity \in [Items -> 0..2]

VARIABLES
  items,     \* the inbox: status and age of each item
  pc,        \* where the daemon is
  config,    \* its configuration
  lag,       \* age of now_secs, which is read at the top of the loop
  manager,   \* EscalationManager: the TriggerState of each key, and notification_log
  saved,     \* the manager's state in state.json
  faults,
  told,      \* history: the last level told of an item, its age, whether it was saved
  sent       \* history: the notifications of the last hour that are not forgotten: their
             \* ages, and how many of them, the first ones, were saved

vars == <<items, pc, config, lag, manager, saved, faults, told, sent>>

Warning == 1
Critical == 2
Top == 4
NotTold == [level |-> 0, age |-> 0, saved |-> TRUE]
NoState == [states |-> <<>>, log |-> <<>>]
NotSent == [ages |-> <<>>, saved |-> 0]
NoConfig == [enabled |-> FALSE, confident |-> FALSE]

Fault == faults < MaxFaults /\ faults' = faults + 1

Init ==
  /\ items = [k \in Items |-> [status |-> "none", age |-> 0]]
  /\ pc = "down" /\ config = NoConfig /\ lag = 0
  /\ manager = NoState /\ saved = NoState
  /\ faults = 0
  /\ told = [k \in Items |-> NotTold]
  /\ sent = NotSent

------------------------------------------------------------------------------
(* EscalationManager.  What happened at age a was a - lag ago at now_secs. *)

Ago(age) == age - lag

\* The entries of a log that are younger than an age: it is in the order of time, so
\* that the others come first.
Younger(log, age) ==
  SubSeq(log, Max({0} \cup {i \in DOMAIN log : log[i] >= age}) + 1, Len(log))

\* notification_log.retain: an hour before now_secs; the ages are those of the notifications.
Fresh(log) == Younger(log, Hour + lag)

\* A state of an item that is pending for the first time.
FirstSeen(age) == [first |-> age, seen |-> age, sent |-> 0, level |-> 0]

\* Slip: every submission starts the ladder again.
SeenAnew(st, age) == FirstSeen(age)

\* submit_trigger for a key that has a state.
Seen(st, age) == [st EXCEPT !.seen = age]

\* desired_level
Desired(k, st) ==
  Max({1} \cup {l \in 2..4 : /\ Ago(st.first) >= After[l]
                             /\ config.confident \/ Severity[k] >= Critical})

\* Slip: what was told once is told again, at a lower level too.
DueAlsoLower(k, st) ==
  st.level = 0 \/ Desired(k, st) > st.level \/ Ago(st.sent) >= Cooldown

Due(k, st) ==
  \/ st.level = 0 \/ Desired(k, st) > st.level
  \/ Desired(k, st) = st.level /\ Ago(st.sent) >= Cooldown

BudgetLeft(log) == Len(log) < Budget

\* flush and the delivery: what is due among the pending triggers makes one
\* notification, which takes one unit of the budget; the rest is dropped.
Flush(states, log, pending, before) ==
  LET fresh == IF pending = {} THEN log ELSE Fresh(log)
      due == {k \in pending \cap DOMAIN states : BudgetLeft(fresh) /\ Due(k, states[k])}
      level(k) == Desired(k, states[k])
  IN /\ manager' =
          [states |-> [k \in DOMAIN states |->
                         IF k \in due THEN [states[k] EXCEPT !.sent = lag, !.level = level(k)]
                         ELSE states[k]],
           log |-> IF due = {} THEN fresh ELSE Append(fresh, lag)]
     /\ told' = [k \in Items |->
                   IF k \in due THEN [level |-> level(k), age |-> lag, saved |-> FALSE] ELSE before[k]]
     /\ sent' = IF due = {} \/ lag >= Hour THEN sent ELSE [sent EXCEPT !.ages = Append(@, lag)]

------------------------------------------------------------------------------
(* The daemon's loop: sleep, reload, refresh, escalate, save. *)

Goto(from, to) == pc = from /\ pc' = to

With(status) == {k \in Items : items[k].status = status}
Submittable == {k \in With("unread") : Severity[k] >= Warning}

\* A daemon takes up the saved state, or none when it cannot be read; what was told
\* and not saved is forgotten.
Start ==
  /\ Goto("down", "top")
  /\ config' \in Configs
  /\ \/ /\ manager' = saved
        /\ told' = [k \in Items |-> IF told[k].saved THEN told[k] ELSE NotTold]
        /\ sent' = [sent EXCEPT !.ages = SubSeq(@, 1, sent.saved)]
        /\ UNCHANGED faults
     \/ /\ Fault
        /\ manager' = NoState
        /\ told' = [k \in Items |-> NotTold]
        /\ sent' = NotSent
  /\ UNCHANGED <<items, lag, saved>>

\* SIGHUP: the manager is made anew from its own state.
Reload ==
  /\ pc = "top" /\ config' \in Configs \ {config}
  /\ UNCHANGED <<items, pc, lag, manager, saved, faults, told, sent>>

\* The states after the unread items were submitted, newest first, with a prune after
\* each: only the first is seen before the prune drops what was not seen for a week.
Submitted(states, first) ==
  LET young(age) == Ago(age) < Stale
      known == {k \in DOMAIN states : young(states[k].seen) \/ (k = first /\ k \in Submittable)}
      new == {k \in Submittable \ known : young(items[k].age)}
  IN [k \in known \cup new |->
        IF k \notin known THEN FirstSeen(items[k].age)
        ELSE IF k \in Submittable THEN Seen(states[k], lag) ELSE states[k]]

\* The acknowledged items are forgotten, the unread ones are submitted and flushed.
Look ==
  LET acked == With("acked")
      unread == With("unread")
      states == Restrict(manager.states, DOMAIN manager.states \ acked)
      before == [k \in Items |-> IF k \in acked THEN NotTold ELSE told[k]]
  IN \/ unread = {} /\ Flush(states, manager.log, {}, before)
     \/ \E first \in unread :
          /\ \A k \in unread : items[first].age <= items[k].age
          /\ Flush(Submitted(states, first), Fresh(manager.log), Submittable, before)

\* daemon_refresh_inbox_notifications; an inbox that cannot be read is left alone.
Refresh ==
  /\ Goto("top", "plan")
  /\ \/ config.enabled /\ Look /\ UNCHANGED faults
     \/ ~config.enabled /\ UNCHANGED <<manager, faults, told, sent>>
     \/ config.enabled /\ Fault /\ UNCHANGED <<manager, told, sent>>
  /\ UNCHANGED <<items, config, lag, saved>>

\* The tick goes on without an escalation.
Skip ==
  /\ Goto("plan", "save")
  /\ UNCHANGED <<items, config, lag, manager, saved, faults, told, sent>>

Added(k, status) == items' = [items EXCEPT ![k] = [status |-> status, age |-> 0]]

\* An escalation is deferred, which is noted in the inbox as a warning.
Defer(k) ==
  /\ Goto("plan", "save")
  /\ items[k].status = "none" /\ Severity[k] = Warning
  /\ \/ Added(k, "unread") /\ UNCHANGED faults
     \/ Added(k, "lost") /\ Fault
  /\ UNCHANGED <<config, lag, manager, saved, told, sent>>

\* An escalation, whose item is notified at once, whether it was added or not.
Escalate(k) ==
  /\ Goto("plan", "save")
  /\ items[k].status = "none"
  /\ \/ Added(k, "unread") /\ UNCHANGED faults
     \/ Added(k, "lost") /\ Fault
  /\ LET pending == IF Severity[k] >= Warning THEN {k} ELSE {}
         young == {j \in DOMAIN manager.states : Ago(manager.states[j].seen) < Stale}
         states == [j \in young \cup pending |-> IF j = k THEN FirstSeen(0) ELSE manager.states[j]]
     IN IF config.enabled THEN Flush(states, Fresh(manager.log), pending, told)
        ELSE UNCHANGED <<manager, told, sent>>
  /\ UNCHANGED <<config, lag, saved>>

\* Slip: the notifications are left out of the saved state after the first time.
SaveOnce ==
  /\ Goto("save", "top")
  /\ saved' = IF saved = NoState THEN manager ELSE saved
  /\ told' = [k \in Items |-> [told[k] EXCEPT !.saved = TRUE]]
  /\ sent' = [sent EXCEPT !.saved = Len(sent.ages)]
  /\ lag' = 0
  /\ UNCHANGED <<items, config, manager, faults>>

\* save_daemon_state, whose failure is ignored.
Save ==
  /\ Goto("save", "top")
  /\ \/ /\ saved' = manager
        /\ told' = [k \in Items |-> [told[k] EXCEPT !.saved = TRUE]]
        /\ sent' = [sent EXCEPT !.saved = Len(sent.ages)]
        /\ UNCHANGED faults
     \/ Fault /\ UNCHANGED <<saved, told, sent>>
  /\ lag' = 0
  /\ UNCHANGED <<items, config, manager>>

Down == pc' = "down" /\ manager' = NoState /\ lag' = 0 /\ config' = NoConfig

\* "daemon stop" is honoured after the save, in the sleep and at the top of the loop.
Stop == pc = "top" /\ Down /\ UNCHANGED <<items, saved, faults, told, sent>>

Crash == pc # "down" /\ Down /\ Fault /\ UNCHANGED <<items, saved, told, sent>>

------------------------------------------------------------------------------
(* The other commands, and time. *)

\* The age of a cleared item is of use only if the item can come back.
Kept(status) == status \in {"unread", "acked"} \/ (status = "gone" /\ faults' < MaxFaults)

SetStatus(ks, status) ==
  /\ ks # {}
  /\ items' = [k \in Items |->
       IF k \notin ks THEN items[k]
       ELSE [status |-> status, age |-> IF Kept(status) THEN items[k].age ELSE 0]]
  /\ UNCHANGED <<pc, config, lag, manager, saved, told, sent>>

Acknowledge(k) == k \in With("unread") /\ UNCHANGED faults /\ SetStatus({k}, "acked")
Clear == UNCHANGED faults /\ SetStatus(With("acked"), "gone")
ClearAll == UNCHANGED faults /\ SetStatus(With("acked") \cup With("unread"), "gone")

\* A rewriting of the inbox undoes what was done to it since it was read (InboxFile):
\* an item that was acknowledged or cleared is unread again, an added one is lost.
Undo(k) == k \in With("acked") \cup With("gone") /\ Fault /\ SetStatus({k}, "unread")
Lose(k) == k \in With("unread") /\ Fault /\ SetStatus({k}, "gone")

\* Ages stop where no comparison tells them apart.
Older(age, limit) == IF age < limit + MaxPlan THEN age + 1 ELSE age
Highest == Max({After[l] : l \in 2..4})

OlderState(m) ==
  [states |-> [k \in DOMAIN m.states |->
                 [first |-> Older(m.states[k].first, Highest), seen |-> Older(m.states[k].seen, Stale),
                  sent |-> Older(m.states[k].sent, Cooldown), level |-> m.states[k].level]],
   log |-> [i \in DOMAIN m.log |-> Older(m.log[i], Hour)]]

\* Time passes while nothing runs or the daemon sleeps, and while it waits for its plans.
Pass ==
  /\ pc \in {"down", "top"} \/ (pc = "plan" /\ lag < MaxPlan)
  /\ lag' = IF pc = "plan" THEN lag + 1 ELSE lag
  /\ UNCHANGED <<pc, config, faults>>
  /\ items' = [k \in Items |-> [items[k] EXCEPT !.age = IF Kept(items[k].status) THEN Older(@, Max({Stale, Highest})) ELSE 0]]
  /\ manager' = OlderState(manager)
  /\ saved' = OlderState(saved)
  /\ told' = [k \in Items |-> IF told[k] = NotTold THEN NotTold ELSE [told[k] EXCEPT !.age = Older(@, Cooldown)]]
  /\ LET ages == Younger([i \in DOMAIN sent.ages |-> sent.ages[i] + 1], Hour)
         gone == Len(sent.ages) - Len(ages)
     IN sent' = [ages |-> ages, saved |-> Max({0, sent.saved - gone})]

Loop == Refresh \/ Skip \/ (\E k \in Items : Defer(k) \/ Escalate(k)) \/ Save

Next ==
  \/ Start \/ Reload \/ Loop \/ Stop \/ Crash
  \/ (\E k \in Items : Acknowledge(k) \/ Undo(k) \/ Lose(k)) \/ Clear \/ ClearAll
  \/ Pass

Spec == Init /\ [][Next]_vars

\* A daemon in its loop goes on, and time passes.
FairSpec == Spec /\ WF_vars(Loop) /\ SF_vars(Pass)

------------------------------------------------------------------------------
(* Properties. *)

\* No more notifications in an hour than the budget, counting those of earlier runs
\* of the daemon, except the ones that were lost with a state that was not saved.
BudgetKept == Len(sent.ages) <= Budget

\* An item is told again only on a higher level, or on the same one after the
\* cooldown, never on a lower one, over restarts, reloads and commands of the user,
\* until it was acknowledged or the state was lost.
NoEarlyRepeat ==
  [][\A k \in Items : told'[k].level # 0 /\ told'[k].age = lag /\ told'[k] # told[k] /\ ~told'[k].saved
        /\ pc \in {"top", "plan"} /\ pc' # pc =>
        \/ told'[k].level > told[k].level
        \/ told'[k].level = told[k].level /\ told[k].age - lag >= Cooldown]_vars

Tellable(k) ==
  /\ pc # "down" /\ config.enabled /\ k \in Submittable
  /\ config.confident \/ Severity[k] >= Critical

\* An item that stays unread is told at the top of the ladder, however many others
\* use up the budget, when the daemon knows it or it is not a week old.
TopReached ==
  \A k \in Items :
    <>[](Tellable(k) /\ (k \in DOMAIN manager.states \/ items[k].age < Stale)) => <>(told[k].level = Top)
=============================================================================
