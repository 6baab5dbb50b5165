-------------------------------- MODULE Daemon --------------------------------
(***************************************************************************)
(* "pt daemon": run_daemon_foreground of pt-core/src/main.rs with the tick  *)
(* of daemon/mod.rs, the triggers of daemon/triggers.rs and the escalation  *)
(* decision of daemon/escalation.rs; "daemon stop"; signals to the daemon;  *)
(* and the other pt runs it shares the global lock with.                    *)
(*                                                                          *)
(* The pid file, state.json and the inbox are files.  Both locks are flocks *)
(* and go when their holder dies.  A plan is a child process; one that      *)
(* outlives a daemon that was killed is out of the model.  Of the state      *)
(* that is saved, the counters that only inform are left out.  One unit of  *)
(* time is one tick interval.                                               *)
(***************************************************************************)
EXTENDS Integers, FiniteSets

CONSTANTS
  Daemons,    \* processes that run "daemon start --foreground"
  Nobody,     \* no process
  OtherRun,   \* a manual or agent run, as the holder of the global lock
  Never,      \* last_escalation_at is None
  Kinds,      \* TriggerKind
  Configs,    \* contents daemon.json may have
  MinInterval, \* a lower bound of their min_interval_secs
  Faults,     \* whether files and locks may fail
  MaxNow,     \* bound: time
  MaxStarts,  \* bound: daemon starts
  MaxSignals  \* bound: SIGHUP and SIGUSR1

ASSUME NameAssumption ==
  /\ Nobody \notin Daemons \cup {OtherRun} /\ OtherRun \notin Daemons
  /\ Never \notin Nat
ASSUME ConfigAssumption ==
  /\ Configs # {} /\ Configs \subseteq [sustained: Nat, cooldown: Nat, interval: Nat]
  /\ MinInterval \in Nat /\ \A c \in Configs : MinInterval <= c.interval
  /\ Faults \in BOOLEAN /\ MaxNow \in Nat /\ MaxStarts \in Nat /\ MaxSignals \in Nat

Times == Nat \cup {Never}

\* The parts of DaemonStateBundle that decide what the daemon does.
Bundles == [sustained: [Kinds -> Nat], cooldown: [Kinds -> Nat], last: Times]

NewBundle ==
  [sustained |-> [k \in Kinds |-> 0], cooldown |-> [k \in Kinds |-> 0], last |-> Never]

AnyConfig == CHOOSE c \in Configs : TRUE

Items == {"lock_contention", "dormant_escalation"}

VARIABLES
  now,       \* wall clock
  lock,      \* holder of the global lock
  pidLock,   \* holder of daemon.pid.lock
  pidFile,   \* the process daemon.pid names
  stateFile, \* state.json
  inbox,     \* the types of unread items
  stopper,   \* "daemon stop": what it does next, and to which process
  pc,        \* where in run_daemon_foreground each daemon is
  mem,       \* state_bundle
  cfg,       \* config
  flags,     \* DAEMON_SIGNALS
  wake,      \* when its sleep is over
  fired,     \* the triggers of this tick
  escalated, \* history: when the last escalation that was not forgotten began
  streak,    \* history: for each kind, the evaluated ticks in a row above the threshold
  unsaved,   \* history: the kinds with a tick below it since state.json was written
  resumed,   \* history: the kinds whose streak began after such a tick was lost
  starts, signals  \* history: bounds

fileVars == <<pidFile, stateFile, inbox>>
lockVars == <<lock, pidLock>>
memVars == <<mem, cfg, wake, fired>>
boundVars == <<starts, signals>>
tickVars == <<streak, unsaved, resumed>>
historyVars == <<escalated, tickVars>>
vars == <<now, lock, pidLock, pidFile, stateFile, inbox, stopper, pc, mem, cfg, flags,
          wake, fired, escalated, streak, unsaved, resumed, starts, signals>>

PCs == {"off", "start", "pid", "top", "fired", "decide", "quick", "deep", "save", "sleep"}
Planning == {"quick", "deep"}
Looping == {"top", "fired", "decide", "save", "sleep"} \cup Planning
FlagNames == {"stop", "reload", "force"}

At(d, l) == pc[d] = l
Goto(d, l) == pc' = [pc EXCEPT ![d] = l]
Drop(d) == lock' = IF lock = d THEN Nobody ELSE lock

\* The memory of a process that ends is gone.
Forget(d) ==
  /\ mem' = [mem EXCEPT ![d] = NewBundle] /\ flags' = [flags EXCEPT ![d] = {}]
  /\ wake' = [wake EXCEPT ![d] = 0] /\ fired' = [fired EXCEPT ![d] = {}]
  /\ cfg' = [cfg EXCEPT ![d] = AnyConfig]

----------------------------------------------------------------------------
(* Starting. *)

Start(d) ==
  /\ At(d, "off") /\ starts < MaxStarts
  /\ Goto(d, "start")
  /\ \E c \in Configs : cfg' = [cfg EXCEPT ![d] = c]
  /\ flags' = [flags EXCEPT ![d] = {}]
  /\ starts' = starts + 1
  /\ UNCHANGED <<now, lock, pidLock, stopper, mem, wake, fired, signals>>
  /\ UNCHANGED fileVars /\ UNCHANGED historyVars

\* Slip: the pid file alone keeps daemons apart.
TakePidLockRegardless(d) ==
  /\ At(d, "start")
  /\ pidLock' = d /\ Goto(d, "pid")
  /\ UNCHANGED <<now, lock, stopper, flags>>
  /\ UNCHANGED fileVars /\ UNCHANGED memVars /\ UNCHANGED historyVars /\ UNCHANGED boundVars

TakePidLock(d) ==
  /\ At(d, "start")
  /\ \/ /\ pidLock = Nobody /\ pidLock' = d
        /\ Goto(d, "pid") /\ UNCHANGED memVars /\ UNCHANGED flags
     \/ /\ pidLock # Nobody \/ Faults
        /\ UNCHANGED pidLock /\ Goto(d, "off") /\ Forget(d)
  /\ UNCHANGED <<now, lock, stopper>>
  /\ UNCHANGED fileVars /\ UNCHANGED historyVars /\ UNCHANGED boundVars

(* A pid file that names another process: is_process_running asks whether    *)
(* any process has that pid, so a dead daemon may look alive; a file that    *)
(* cannot be read names nobody.  A state.json that cannot be read counts as  *)
(* none, which the history records as having forgotten the escalation.       *)
ClaimPidFile(d) ==
  /\ At(d, "pid")
  /\ \/ /\ pidFile \notin {Nobody, d}
        /\ Goto(d, "off") /\ pidLock' = Nobody /\ Forget(d)
        /\ UNCHANGED <<pidFile, escalated>>
     \/ /\ pidFile \notin {Nobody, d} => At(pidFile, "off") \/ Faults
        /\ pidFile' = d \/ (Faults /\ pidFile' \in {pidFile, Nobody})
        /\ \/ mem' = [mem EXCEPT ![d] = stateFile] /\ UNCHANGED escalated
           \/ Faults /\ mem' = [mem EXCEPT ![d] = NewBundle] /\ escalated' = Never
        /\ Goto(d, "top") /\ UNCHANGED <<pidLock, cfg, flags, wake, fired>>
  /\ UNCHANGED <<now, lock, stateFile, inbox, stopper, tickVars>> /\ UNCHANGED boundVars

----------------------------------------------------------------------------
(* One tick. *)

Cooling(m, k) == m.cooldown[k] > 0

\* Slip: a tick below the threshold does not end the streak.
CountKept(m, k, breach) ==
  IF Cooling(m, k) THEN 0 ELSE IF k \in breach THEN m.sustained[k] + 1 ELSE m.sustained[k]

\* load_sustained, memory_sustained, orphan_sustained after the comparison.
Count(m, k, breach) == IF Cooling(m, k) \/ k \notin breach THEN 0 ELSE m.sustained[k] + 1

\* Slip: the cooldown counts down without a floor.
EvaluatedDown(m, breach, c) ==
  [m EXCEPT
    !.sustained = [k \in Kinds |-> 0],
    !.cooldown = [k \in Kinds |-> m.cooldown[k] - 1]]

\* evaluate_triggers: what fires, and the counters afterwards.
Fires(m, breach, c) ==
  {k \in breach : ~Cooling(m, k) /\ Count(m, k, breach) >= c.sustained}

Evaluated(m, breach, c) ==
  [m EXCEPT
    !.sustained = [k \in Kinds |-> IF k \in Fires(m, breach, c) THEN 0 ELSE Count(m, k, breach)],
    !.cooldown = [k \in Kinds |-> IF k \in Fires(m, breach, c) THEN c.cooldown
                                  ELSE IF Cooling(m, k) THEN m.cooldown[k] - 1 ELSE 0]]

(* The head of the loop up to the evaluation of the triggers.  "breach" are  *)
(* the kinds whose metric is above its threshold; a tick over the overhead   *)
(* budget evaluates nothing.                                                 *)
Tick(d) ==
  /\ At(d, "top") /\ "stop" \notin flags[d]
  /\ \/ "reload" \in flags[d] /\ \E c \in Configs : cfg' = [cfg EXCEPT ![d] = c]
     \/ "reload" \notin flags[d] /\ UNCHANGED cfg
  /\ flags' = [flags EXCEPT ![d] = @ \ {"reload"}]
  /\ \/ /\ Goto(d, "save") /\ UNCHANGED <<mem, fired, tickVars>>
     \/ \E breach \in SUBSET Kinds :
          /\ fired' = [fired EXCEPT ![d] = Fires(mem[d], breach, cfg'[d])]
          /\ mem' = [mem EXCEPT ![d] = Evaluated(mem[d], breach, cfg'[d])]
          /\ streak' = [k \in Kinds |-> IF k \in breach THEN streak[k] + 1 ELSE 0]
          /\ unsaved' = unsaved \cup (Kinds \ breach) /\ resumed' = resumed \cap breach
          /\ Goto(d, IF fired'[d] = {} THEN "save" ELSE "fired")
  /\ UNCHANGED <<now, stopper, wake, escalated>>
  /\ UNCHANGED fileVars /\ UNCHANGED lockVars /\ UNCHANGED boundVars

\* GlobalLock::try_acquire comes before the decision.
TryLock(d) ==
  /\ At(d, "fired")
  /\ \/ lock = Nobody /\ lock' = d /\ Goto(d, "decide")
     \/ lock # Nobody /\ UNCHANGED lock /\ Goto(d, "decide")
     \/ Faults /\ UNCHANGED lock /\ Goto(d, "save")
  /\ UNCHANGED <<now, pidLock, stopper, flags>>
  /\ UNCHANGED fileVars /\ UNCHANGED memVars /\ UNCHANGED historyVars /\ UNCHANGED boundVars

\* InboxStore::add, whose failure is ignored.
Report(item) == inbox' = inbox \cup {item} \/ (Faults /\ UNCHANGED inbox)

\* check_cooldown
TooSoon(d) == mem[d].last # Never /\ now - mem[d].last < cfg[d].interval

Defer(d) ==
  /\ At(d, "decide") /\ (TooSoon(d) \/ lock # d)
  /\ IF TooSoon(d) THEN UNCHANGED inbox ELSE Report("lock_contention")
  /\ Drop(d) /\ Goto(d, "save")
  /\ UNCHANGED <<now, pidLock, pidFile, stateFile, stopper, flags>>
  /\ UNCHANGED memVars /\ UNCHANGED historyVars /\ UNCHANGED boundVars

\* Slip: the escalation is dated by the tick of the trigger that led to it.
EscalateUndated(d) ==
  /\ At(d, "decide") /\ ~TooSoon(d) /\ lock = d
  /\ escalated' = now
  /\ Goto(d, "quick")
  /\ UNCHANGED <<now, stopper, flags, mem, cfg, wake, fired, tickVars>>
  /\ UNCHANGED fileVars /\ UNCHANGED lockVars /\ UNCHANGED boundVars

\* Slip: an escalation that found the lock taken goes on.
EscalateUnlocked(d) ==
  /\ At(d, "decide") /\ ~TooSoon(d)
  /\ mem' = [mem EXCEPT ![d].last = now]
  /\ escalated' = now
  /\ Goto(d, "quick")
  /\ UNCHANGED <<now, stopper, flags, cfg, wake, fired, tickVars>>
  /\ UNCHANGED fileVars /\ UNCHANGED lockVars /\ UNCHANGED boundVars

\* decide_escalation goes ahead, and run_daemon_escalation starts the quick plan.
Escalate(d) ==
  /\ At(d, "decide") /\ ~TooSoon(d) /\ lock = d
  /\ mem' = [mem EXCEPT ![d].last = now]
  /\ escalated' = now
  /\ Goto(d, "quick")
  /\ UNCHANGED <<now, stopper, flags, cfg, wake, fired, tickVars>>
  /\ UNCHANGED fileVars /\ UNCHANGED lockVars /\ UNCHANGED boundVars

\* Slip: an escalation that fails returns without dropping the lock.
QuickEndsHolding(d) ==
  /\ At(d, "quick")
  /\ UNCHANGED <<inbox, lock>> /\ Goto(d, "save")
  /\ UNCHANGED <<now, pidLock, pidFile, stateFile, stopper, flags>>
  /\ UNCHANGED memVars /\ UNCHANGED historyVars /\ UNCHANGED boundVars

(* The quick plan fails, finds nothing (an item is added all the same), or   *)
(* finds candidates, for which a deep plan is made.                          *)
QuickEnds(d) ==
  /\ At(d, "quick")
  /\ \/ UNCHANGED inbox /\ Drop(d) /\ Goto(d, "save")
     \/ Report("dormant_escalation") /\ Drop(d) /\ Goto(d, "save")
     \/ UNCHANGED <<inbox, lock>> /\ Goto(d, "deep")
  /\ UNCHANGED <<now, pidLock, pidFile, stateFile, stopper, flags>>
  /\ UNCHANGED memVars /\ UNCHANGED historyVars /\ UNCHANGED boundVars

\* Whether the deep plan fails or not, an item is added.
DeepEnds(d) ==
  /\ At(d, "deep")
  /\ Report("dormant_escalation") /\ Drop(d) /\ Goto(d, "save")
  /\ UNCHANGED <<now, pidLock, pidFile, stateFile, stopper, flags>>
  /\ UNCHANGED memVars /\ UNCHANGED historyVars /\ UNCHANGED boundVars

\* save_daemon_state writes a temporary file and renames it; failures are ignored.
Save(d) ==
  /\ At(d, "save")
  /\ \/ stateFile' = mem[d] /\ unsaved' = {}
     \/ Faults /\ UNCHANGED <<stateFile, unsaved>>
  /\ Goto(d, IF "stop" \in flags[d] THEN "top" ELSE "sleep")
  /\ wake' = [wake EXCEPT ![d] = now + 1]
  /\ fired' = [fired EXCEPT ![d] = {}]
  /\ UNCHANGED <<now, pidFile, inbox, stopper, mem, cfg, flags, escalated, streak, resumed>>
  /\ UNCHANGED lockVars /\ UNCHANGED boundVars

\* Slip: only the clock and a forced tick end the sleep, and the next tick follows.
WakeDeaf(d) ==
  /\ At(d, "sleep")
  /\ "force" \in flags[d] \/ now >= wake[d]
  /\ flags' = [flags EXCEPT ![d] = @ \ {"force", "stop"}]
  /\ Goto(d, "top")
  /\ UNCHANGED <<now, stopper>> /\ UNCHANGED memVars
  /\ UNCHANGED fileVars /\ UNCHANGED lockVars /\ UNCHANGED historyVars /\ UNCHANGED boundVars

\* daemon_sleep_with_interrupt
Wake(d) ==
  /\ At(d, "sleep")
  /\ \/ "stop" \in flags[d] /\ UNCHANGED flags
     \/ /\ "stop" \notin flags[d] /\ "force" \in flags[d]
        /\ flags' = [flags EXCEPT ![d] = @ \ {"force"}]
     \/ now >= wake[d] /\ UNCHANGED flags
  /\ Goto(d, "top")
  /\ UNCHANGED <<now, stopper>> /\ UNCHANGED memVars
  /\ UNCHANGED fileVars /\ UNCHANGED lockVars /\ UNCHANGED historyVars /\ UNCHANGED boundVars

----------------------------------------------------------------------------
(* Ending. *)

(* What a daemon that ends, in the loop, leaves behind it: the file.  The    *)
(* escalations it did not save are forgotten.  So are its ticks: where one   *)
(* of them was below the threshold and the file still has a count, the next  *)
(* daemon goes on from that count.  The streak is what it is.                *)
LeaveBehind(d) ==
  IF pc[d] \in Looping
  THEN /\ escalated' = stateFile.last
       /\ resumed' = {k \in resumed \cup unsaved : stateFile.sustained[k] > 0}
       /\ unsaved' = {} /\ UNCHANGED streak
  ELSE UNCHANGED historyVars

\* The loop is left: cleanup_daemon_pid_if_owned, and the pid lock is dropped.
Exit(d) ==
  /\ At(d, "top") /\ "stop" \in flags[d]
  /\ pidFile' = IF pidFile = d THEN Nobody ELSE pidFile
  /\ pidLock' = Nobody
  /\ Goto(d, "off") /\ LeaveBehind(d) /\ Forget(d)
  /\ UNCHANGED <<now, lock, stateFile, inbox, stopper>> /\ UNCHANGED boundVars

\* SIGKILL, or a crash of the machine: locks go, files stay.
Crash(d) ==
  /\ pc[d] # "off"
  /\ Drop(d)
  /\ pidLock' = IF pidLock = d THEN Nobody ELSE pidLock
  /\ Goto(d, "off") /\ LeaveBehind(d) /\ Forget(d)
  /\ UNCHANGED <<now, stopper>> /\ UNCHANGED fileVars /\ UNCHANGED boundVars

----------------------------------------------------------------------------
(* "daemon stop": three steps, each of which may find another world. *)

StopRead ==
  /\ stopper.at = "idle" /\ pidFile # Nobody
  /\ stopper' = [at |-> "term", pid |-> pidFile]
  /\ UNCHANGED <<now, pc, flags>> /\ UNCHANGED fileVars /\ UNCHANGED lockVars
  /\ UNCHANGED memVars /\ UNCHANGED historyVars /\ UNCHANGED boundVars

(* terminate_process fails when there is no such process, and the file       *)
(* stays.  A process that got the pid of a dead daemon is signalled instead. *)
StopTerm ==
  /\ stopper.at = "term"
  /\ \/ /\ pc[stopper.pid] # "off"
        /\ flags' = [flags EXCEPT ![stopper.pid] = @ \cup {"stop"}]
        /\ stopper' = [stopper EXCEPT !.at = "remove"]
     \/ /\ pc[stopper.pid] = "off" /\ UNCHANGED flags
        /\ \/ stopper' = [at |-> "idle", pid |-> Nobody]
           \/ stopper' = [stopper EXCEPT !.at = "remove"]
  /\ UNCHANGED <<now, pc>> /\ UNCHANGED fileVars /\ UNCHANGED lockVars
  /\ UNCHANGED memVars /\ UNCHANGED historyVars /\ UNCHANGED boundVars

StopRemove ==
  /\ stopper.at = "remove"
  /\ pidFile' = Nobody /\ stopper' = [at |-> "idle", pid |-> Nobody]
  /\ UNCHANGED <<now, pc, stateFile, inbox, flags>> /\ UNCHANGED lockVars
  /\ UNCHANGED memVars /\ UNCHANGED historyVars /\ UNCHANGED boundVars

----------------------------------------------------------------------------
(* The world. *)

\* SIGHUP and SIGUSR1
Signal(d) ==
  /\ pc[d] # "off" /\ signals < MaxSignals
  /\ \E raised \in {{"reload", "force"}, {"force"}} :
       flags' = [flags EXCEPT ![d] = @ \cup raised]
  /\ signals' = signals + 1
  /\ UNCHANGED <<now, stopper, pc, starts>> /\ UNCHANGED fileVars /\ UNCHANGED lockVars
  /\ UNCHANGED memVars /\ UNCHANGED historyVars

\* Another pt run takes and releases the global lock.
OtherLocks ==
  /\ \/ lock = Nobody /\ lock' = OtherRun
     \/ lock = OtherRun /\ lock' = Nobody
  /\ UNCHANGED <<now, pidLock, stopper, pc, flags>> /\ UNCHANGED fileVars
  /\ UNCHANGED memVars /\ UNCHANGED historyVars /\ UNCHANGED boundVars

\* The inbox is read and cleared.
ReadInbox ==
  /\ inbox # {} /\ inbox' = {}
  /\ UNCHANGED <<now, pidFile, stateFile, stopper, pc, flags>> /\ UNCHANGED lockVars
  /\ UNCHANGED memVars /\ UNCHANGED historyVars /\ UNCHANGED boundVars

Clock ==
  /\ now < MaxNow /\ now' = now + 1
  /\ UNCHANGED <<stopper, pc, flags>> /\ UNCHANGED fileVars /\ UNCHANGED lockVars
  /\ UNCHANGED memVars /\ UNCHANGED historyVars /\ UNCHANGED boundVars

----------------------------------------------------------------------------
Init ==
  /\ now = 0 /\ lock = Nobody /\ pidLock = Nobody /\ pidFile = Nobody
  /\ stateFile = NewBundle /\ inbox = {}
  /\ stopper = [at |-> "idle", pid |-> Nobody]
  /\ pc = [d \in Daemons |-> "off"]
  /\ mem = [d \in Daemons |-> NewBundle]
  /\ cfg = [d \in Daemons |-> AnyConfig]
  /\ flags = [d \in Daemons |-> {}] /\ wake = [d \in Daemons |-> 0]
  /\ fired = [d \in Daemons |-> {}]
  /\ escalated = Never
  /\ streak = [k \in Kinds |-> 0] /\ unsaved = {} /\ resumed = {}
  /\ starts = 0 /\ signals = 0

DaemonStep(d) ==
  \/ TakePidLock(d) \/ ClaimPidFile(d) \/ Tick(d) \/ TryLock(d) \/ Defer(d)
  \/ Escalate(d) \/ QuickEnds(d) \/ DeepEnds(d) \/ Save(d) \/ Wake(d) \/ Exit(d)

Stop == StopRead \/ StopTerm \/ StopRemove

Next ==
  \/ \E d \in Daemons : DaemonStep(d) \/ Start(d) \/ Crash(d) \/ Signal(d)
  \/ Stop \/ OtherLocks \/ ReadInbox \/ Clock

Spec == Init /\ [][Next]_vars

\* A daemon is scheduled, its plans end, and its sleep ends early on a signal.
FairSpec == Spec /\ \A d \in Daemons : WF_vars(DaemonStep(d))
----------------------------------------------------------------------------
(* Type invariant. *)
TypeOK ==
  /\ now \in Nat /\ lock \in Daemons \cup {Nobody, OtherRun}
  /\ pidLock \in Daemons \cup {Nobody} /\ pidFile \in Daemons \cup {Nobody}
  /\ stateFile \in Bundles /\ inbox \subseteq Items
  /\ stopper \in [at: {"idle", "term", "remove"}, pid: Daemons \cup {Nobody}]
  /\ stopper.at # "idle" => stopper.pid \in Daemons
  /\ pc \in [Daemons -> PCs] /\ mem \in [Daemons -> Bundles]
  /\ cfg \in [Daemons -> Configs] /\ flags \in [Daemons -> SUBSET FlagNames]
  /\ wake \in [Daemons -> Nat] /\ fired \in [Daemons -> SUBSET Kinds]
  /\ escalated \in Times /\ streak \in [Kinds -> Nat]
  /\ unsaved \subseteq Kinds /\ resumed \subseteq Kinds
  /\ starts \in 0..MaxStarts /\ signals \in 0..MaxSignals

(* Two daemons are never in the loop at once, though "daemon stop" removes   *)
(* the pid file of a daemon that goes on for a while, and a dead daemon's    *)
(* file may stay: state.json has one writer.                                 *)
OneDaemon == \A d, e \in Daemons : pc[d] \in Looping /\ pc[e] \in Looping => d = e

(* While the daemon makes a plan, no other run holds the global lock: plans  *)
(* of the daemon and manual or agent runs exclude each other, with           *)
(* PT_SKIP_GLOBAL_LOCK set for the daemon's own children.                    *)
PlansUnderLock == \A d \in Daemons : pc[d] \in Planning => lock = d

(* A trigger fires only when its metric was above the threshold in as many   *)
(* evaluated ticks in a row as the configuration in force asks for, across   *)
(* restarts, reloads, forced ticks, failing saves and ticks that were        *)
(* skipped for the overhead budget, with one exception: when a daemon ended  *)
(* before a tick below the threshold was in state.json, the next one takes   *)
(* up the older count (evaluate_triggers on what load_daemon_state finds),   *)
(* and the first streak after that may be too short.                         *)
FiresOnlySustained ==
  \A d \in Daemons : At(d, "fired") =>
    \A k \in fired[d] : streak[k] >= cfg[d].sustained \/ k \in resumed

(* The inductive invariant behind these: the pid lock is held from before    *)
(* the pid file is read to the end of the loop, the global lock while a plan *)
(* is made, and a daemon in the loop remembers the last escalation and the   *)
(* streaks, while state.json does when there is none.                        *)
LocksHeld ==
  \A d \in Daemons : /\ pc[d] \in {"pid"} \cup Looping => pidLock = d
                     /\ pc[d] \in Planning => lock = d

Remembered ==
  /\ \A d \in Daemons : pc[d] \in Looping => mem[d].last = escalated
  /\ (\A d \in Daemons : pc[d] \notin Looping) => stateFile.last = escalated

\* The counters never run ahead of the ticks they count, but where ticks were lost.
Counted ==
  /\ \A d \in Daemons : pc[d] \in Looping =>
       \A k \in Kinds : mem[d].sustained[k] <= streak[k] \/ k \in resumed
  /\ \A k \in Kinds : stateFile.sustained[k] <= streak[k] \/ k \in unsaved \cup resumed
  /\ (\A d \in Daemons : pc[d] \notin Looping) => unsaved = {}

Inv == TypeOK /\ LocksHeld /\ Remembered /\ Counted /\ FiresOnlySustained

(* The daemon implements the gate: one plan at a time, escalations at least  *)
(* the smallest configured interval apart, also over restarts, and nothing   *)
(* forgotten but what was not saved.                                         *)
Gate == INSTANCE EscalationGate WITH
  Interval <- MinInterval, last <- escalated, saved <- stateFile.last,
  planning <- \E d \in Daemons : pc[d] \in Planning

ImplementsGate == Gate!Spec

(* A daemon that was told to stop does, whatever it was doing.               *)
StopHonoured == \A d \in Daemons : "stop" \in flags[d] /\ pc[d] # "off" ~> pc[d] = "off"

(* A daemon that took the global lock gives it back.                         *)
LockReturned == \A d \in Daemons : lock = d ~> lock # d
=============================================================================
