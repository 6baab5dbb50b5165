# process_triage in TLA+

process_triage (`pt`) scans the processes of a machine, infers which are abandoned or useless, plans an action for each
(keep, pause, throttle, restart, kill, ...), and carries the plan out under a set of safety gates. These modules specify
the parts of it that act and that keep state between runs: what happens between a plan on disk and a signal delivered to
a process, the daemon with its inbox and its notifications, the telemetry, the audit log, and the updating of the binary. All paths below are
under `src/upstream/crates/pt-core/src/` unless they say otherwise.

## Inventory

| Component | State | Operations | Interacts with | What is hard | What makes it correct |
|---|---|---|---|---|---|
| Signal runner (`action/signal.rs`) | none of its own; a call in progress | execute, verify, revalidate | the kernel's process table | every read of `/proc` is stale when used; pids are reused; D state; grace period and timeouts | SIGKILL only after the re-validation and the grace period; success only if the target cannot survive; calls return |
| Action executor (`action/executor.rs`, `dispatch.rs`) | session lock file, outcomes | execute_plan | runner, identity provider, pre-checks | targets change between the plan, the check and the signal | signals reach checked processes only; recorded successes are facts; the plan ends |
| Pre-checks (`action/prechecks.rs`) | none | run_checks | `/proc`, policy | checks go stale before the action | protected and unsafe targets are blocked |
| Agent apply (`main.rs`, `decision/robot_constraints.rs`) | global lock, session manifest, plan.json, outcomes.jsonl, constraint counters | run_agent_apply, --resume, --dry-run | runner, session store | crash between acting and recording; concurrent invocations; resume; reboot | resume trusts the file, budget per run, only permitted actions, session settled, lock freed |
| Planner (`plan/mod.rs`) | pure | generate_plan | decisions | zombies routed to parents, staging, order | a zombie or a kernel thread is never killed directly, ids distinct, tiers ordered |
| Rate limiter (`decision/rate_limit.rs`) | sliding log of kills, in memory and in a file | check, record, load, persist | several processes share the file | last writer wins, window boundaries | limits per run, minute, hour, day |
| Enforcer (`decision/enforcer.rs`) | policy, rate limiter | check_action | rate limiter | order of gates | no gate is skipped |
| Daemon (`daemon/`, `main.rs`) | trigger counters, cooldown, escalation state, daemon lock | tick, escalate, reload, stop | child `pt` process, inbox | hysteresis, cooldown, overhead budget, signals during a tick | escalations only on sustained triggers, one at a time, outside the cooldown |
| Notification ladder (`decision/escalation.rs`) | per-item level and times, notification log, both in `state.json` | submit, flush, prune, forget | inbox, daemon | a budget that drops triggers; restarts; time that passes during a tick | nobody is told too often, and an unread item reaches the top |
| Inbox (`inbox.rs`) | items in a JSONL file | add, acknowledge, clear, list | daemon, agents | a shared file rewritten through one temporary name, without a lock | it stays readable, and unread items do not vanish |
| Sessions (`session/`) | manifests, snapshots, typestate, fleet sessions | create, open, update_state, resume, verify | every command | interrupted runs, stale snapshots | legal state transitions, resume only if consistent |
| Recovery (`action/recovery.rs`, `recovery_tree.rs`) | attempt counts | plan_recovery, next alternative | executor | retries of what half worked | bounded retries, alternatives in order |
| Throttle, freeze, quarantine, renice (`action/*.rs`) | saved previous cgroup settings | execute, verify, restore | cgroupfs, setpriority | restore after partial failure | restore brings back what was there |
| Sequential decisions (`decision/{alpha_investing,fdr_selection,fleet_fdr,martingale_gates,sequential,respawn_loop}.rs`) | alpha wealth, e-values, respawn history | invest, select, gate | decision core | wealth shared by commands, persisted | wealth never negative, FDR selection maximal |
| Fleet (`fleet/`, `decision/fleet_registry.rs`, `session/fleet.rs`) | host inventory, priors, host sessions | transfer, merge, aggregate | ssh | partial failure of hosts, merges | merges commute, budget shared |
| Install (`install/`) | binaries, backups | backup, prune, replace, verify, roll back | file system, clock | crash in the middle of an update, two updates at once, a clock set back | a working build is installed or can be rolled back to |
| Plugins (`plugin/`) | manifests, failure counts | load, run | child processes | timeouts, failing plugins disabled | a failing plugin is disabled, not retried forever |
| Shadow mode (`shadow.rs`) | observations | record, resolve | calibration | pid reuse between observation and outcome | outcomes match the observed process |
| Audit log (`audit/`) | hash-chained JSONL | append, checkpoint, rotate, verify | nothing yet but tests | crash or failure during an append, rotation, concurrent writers | a fault costs one entry and one break of the chain at most |
| Telemetry (`pt-telemetry`) | ring buffer, batches, Parquet files | publish, drain, flush, prune | every command | wait-free publication, a full buffer, failing files, shutdown | nothing overwritten before it is read, nothing read is lost |
| Capabilities cache (`capabilities/`), configuration (`config/`, `pt-config`), bundles (`pt-bundle`), redaction (`pt-redact`), reports (`pt-report`) | files | load, save, export | every command | stale caches | integrity of what is exported |
| Collection (`collect/`), supervision (`supervision/`), inference (`inference/`), calibration (`calibrate/`), mathematics (`pt-math`), remaining decision theory (`decision/`) | evidence, posteriors | pure functions of samples | planner | floating point, parsing | numerical; out of reach of a model checker |
| Front ends: CLI (`main.rs`, `cli.rs`), TUI (`tui/`), MCP server (`mcp/`), agent set-up (`agent_init/`), output, logging, events, replay, learn, schema | screens and streams | render, dispatch | all | message loops | presentation |
| Shell wrapper `pt`, installer scripts, Nix packaging | - | - | - | - | outside this project |

## The modules

| Module | Models | Read with |
|---|---|---|
| `ProcTable` | the kernel's process table: what `/proc/<pid>/stat` shows and what `kill(2)` does. Outside the repository | `action/signal.rs` |
| `SignalRunner` | `SignalActionRunner::execute` and `verify` for one action, every look at `/proc` and every signal a step | `action/signal.rs` |
| `KillContract` | what the caller of a kill may conclude from the answers | - |
| `ActionExecutor`, `MCActionExecutor` | `execute_plan` on top of the runner: identity, pre-checks, dispatch, verification, outcomes | `action/executor.rs`, `action/signal.rs`, `action/prechecks.rs` |
| `AgentApply`, `MCAgentApply` | `run_agent_apply`: the global lock, the plan, `--resume`, the gates, the outcomes and the session | `main.rs` 13591-14518, `decision/robot_constraints.rs` |
| `Daemon`, `MCDaemon` | `run_daemon_foreground`, ticks, triggers, escalation, `daemon stop`, signals | `main.rs` 7710-8320 and 9300-9740, `daemon/*.rs`, `inbox.rs` |
| `EscalationGate` | what escalation promises: one plan at a time, the interval, what may be forgotten | - |
| `NotificationLadder`, `MCNotificationLadder` | the daemon's notifications of unread inbox items, over restarts | `decision/escalation.rs`, `main.rs` 7878-8060 |
| `InboxFile`, `MCInboxFile` | the inbox as calls of the file system: `add` by the daemon, list, acknowledge and clear by any number of commands | `inbox.rs` |
| `InboxCommands` | what the inbox promises: each command reads once and replaces once | - |
| `TelemetryRing` | the ring buffer, every access of an atomic a step | `pt-telemetry/src/disruptor.rs` |
| `TelemetryRecorder`, `MCTelemetry` | `record_event`, the flusher thread, the batched writer and the shutdown, on top of the ring | `pt-telemetry/src/recorder.rs`, `writer.rs` |
| `EventQueue` | what the ring promises: a bounded queue | - |
| `SelfUpdate`, `MCSelfUpdate` | `atomic_update` and `update rollback` by any number of processes; the walk that lists the backups is one step, and so are the two `unlink`s of a removal, every other file operation is a step of its own | `install/rollback.rs`, `install/backup.rs`, `install/verification.rs` |
| `AuditLog`, `MCAuditLog` | the audit log as calls of the file system, by any number of `AuditLog`s, and how many places of the chain `verify_log` would report | `audit/writer.rs`, `audit/verify.rs` |
| `ActionExecutorProofs` (the runner too), `AgentApplyProofs`, `DaemonProofs`, `NotificationLadderProofs`, `InboxProofs`, `TelemetryProofs`, `SelfUpdateProofs`, `AuditLogProofs` | the theorems | - |

`ActionExecutor` extends `SignalRunner` and drives it; `AgentApply` uses the runner's contract instead (`execute` is one
step there that answers Ok and leaves the target doomed or gone, or fails), because its questions are about crashes,
files and concurrent invocations, and the runner's answers are established in `SignalRunner`. `Daemon` shares the
global lock with `AgentApply`; each has the other as `OtherRun` or as a second agent. `Daemon` keeps of the inbox only which
kinds of items were added; `InboxFile` is the file itself, and `NotificationLadder` lets other commands change the items
between two looks of the daemon, as `InboxFile` shows that they may. `TelemetryRecorder` extends `TelemetryRing`.

In every module the operators whose comment starts with "Slip" are mistakes the code could have made, next to the
definition they would replace. Nothing uses them; they show that each property notices a mistake.

### How state corresponds

*SignalRunner.* `proc` is the process table; a slot of it is a pid, `inc` numbers the processes that had the pid, which
no code can see. `call` is the `PlanAction`, `rpc` the place in `execute` or `verify`, `waited` the polls of
`wait_for_state_change`, `result` the returned `Result`. `seen` and `hits` record what was checked and what was
signalled. A process in state D keeps SIGKILL and SIGSTOP pending. Start times are ticks; `Tol` is the 150 of
`ids_match_starttime`.

*ActionExecutor.* `plan`, the position in it, the place in `execute_action` and the outcomes. A pre-check may
block whatever it likes, except that the process-state gate looks at the process table.

*AgentApply.* `lock` is `.pt-lock`, `session` the state in the manifest, `file` the lines of `outcomes.jsonl`; per agent
`opt` is the command line, `todo` the part of `actions_to_apply` that is left, `buf` the outcomes in memory,
`written` how many of them are in the file, `kills` and `blast` the counters of the `ConstraintChecker`. `acted`,
`struck`, `cut` and `runs` are histories. A reboot restarts the ticks and changes the boot id.

*Daemon.* `lock` and `pidLock` are `.pt-lock` and `daemon.pid.lock`, `pidFile`, `stateFile` and `inbox` the files,
`mem` the `DaemonStateBundle` of each process, `flags` its `DAEMON_SIGNALS`, `pc` its place in the loop: `top` (head of
the loop), `fired` (triggers fired), `decide` (lock tried), `quick` and `deep` (plans running), `save`, `sleep`. A pid is
the name of a daemon, so a daemon that starts again has a pid that a file may still name. `escalated` is the last
escalation that has not been forgotten, `streak` the evaluated ticks in a row above the threshold, whoever loops, `unsaved` the
kinds with a tick below it since `state.json` was written, and `resumed` those whose streak began after such a tick was lost with
the daemon; these four are histories.

*NotificationLadder.* The inbox is the status and the age of each item, `manager` the `EscalationManager` with the
`TriggerState` of each key and the `notification_log`, `saved` its copy in `state.json`. Times are ages, cut off where nothing
depends on them any more, so the clock never ends and liveness is checked without a horizon. `lag` is the age of `now_secs`,
which is read at the top of a tick and used after the plans of the tick. `told` and `sent` are histories; `sent` are the ages of the
notifications of the last hour and how many of them, the first ones, are in the saved state. `retain` is modelled as cutting off the
front of the log (`Younger`), which `LogRetained` shows to be the same.

*InboxFile.* Two names, the inbox and the temporary file of `write_all`, lead to files of entries; an open file is known by the
name that it has now, since a rename moves it, or is gone. An item of `writeln!` is two writes, the line and the newline, and a
file may end in a line without its newline, or in a part of a line, which does not parse (`open`, `Part`): a daemon that is killed,
or whose write fails, in the middle of `writeln!` leaves it, and it is not `torn`. `torn` is the history that two commands had the
temporary file open at once, or that the daemon appended to an unfinished line, whole or not; from then on any line may not parse.

*TelemetryRing and TelemetryRecorder.* `producer` and `consumer` are the two sequence counters, a slot is its event and its
`committed_sequence`. The acquire and release accesses are taken in one total order, and a load that returns an older value is
the load of an earlier moment. An event is the number of its call, `Torn` while it is overwritten. `log` is the events in the
order of their claims, `drained` those that were read. `pending`, the buffer of the writer and its file hold the rows.

*SelfUpdate.* A build is its bytes, its checksum and its version. Backups have the names 1, 2, ... in the order of the
timestamps in their names; `at` is the `created_at` of the metadata, from a clock that may be set back. `overlapped` is the
history that two processes ran at once, which nothing in the code prevents.

*AuditLog.* `files` are all files that there ever were, `named` the one called `audit.jsonl`; `log[l].file` is what the writer of
an `AuditLog` has open, which a rename moves. An entry is its number, which stands for its hash. What follows the last newline of a file
is its `tail`, a part of an entry or (`whole`) all of it; `buffer` and `rest` are what a failed write leaves in the `BufWriter`, `rest` if
a part of its first line is in the file. `acked` and `overlapped` (two logs were open at once) are histories.

## The runs

| Run | Question | Bounds, and why they suffice |
|---|---|---|
| `signal_call` | may a kill, pause or resume hit the wrong process, answer wrongly or hang? | one pid with three occupants (the target, its successor, and the successor's), two uids, five ticks, grace period and timeout of two polls: the pid changes hands before, between and after any two steps |
| `executor_plans` | the same over a plan, and does the plan end? | two pids, four plans: pause then kill of one process, two targets with a state check, restarts and blocked actions, and resumes |
| `apply_resume` | can two agents on one session repeat work, overrun the kill budget, or leave the session unsettled? | two agents (the lock is between pairs), two invocations each started anywhere, plain or `--resume`, crashes anywhere, pids reused |
| `apply_gates` | can a combination of options reach a blocked or forbidden action; is the lock freed? | one agent, five command lines, one for each way through the gates (apply, resume, abort on unknown with targets, a dry run, no `--yes`), not every combination of options; failing writes, one reboot |
| `daemon_loop` | one daemon at a time, plans under the lock, triggers only when sustained (or resumed from a stale count), and `EscalationGate` | two daemons, two starts, so that one starts while another runs, was stopped or was killed; two configurations that differ in every limit, so that a reload or a restart changes them; three clock values, enough for the longer interval; one kind of trigger, since the three kinds are evaluated alike and independently; failing files and locks. Daemons are interchangeable, so symmetry is used, and the properties are safety properties |
| `daemon_progress` | does a daemon that is told to stop end, and does it give the lock back? | two clock values; no failing files, whose failures only shorten the paths; no symmetry |
| `telemetry_drain` | is the ring a bounded queue, are rows lost, does Drop return? | two threads, a ring of two slots and four calls, so that it wraps around twice; batches of two rows, so that a batch ends inside a drain; two failures |
| `ladder_tells` | is the hourly budget kept over restarts, is anybody told too early? | a warning and a critical item, a budget of one per hour of two units, cooldown one, ages up to stale; plans that outlast the reading of the clock by one unit; one crash, failing file or undone change |
| `ladder_top` | does an unread item reach the top although others use up the budget? | the same, with plans that take no time and one configuration that notifies; liveness, no symmetry |
| `inbox_shared` | when can the inbox not be read, and can commands that share it lose items or bring back those that are done? | two items, two commands and the daemon, two kills or failing writes, so that a daemon is cut off and the next one as well, or a command after it; symmetry is used, the properties are safety properties |
| `update_crashes` | does an interrupted, failing or concurrent update leave a working build in reach? | a good and a broken build, two processes, four backups of which two are kept, one kill, failure or clock set back; symmetry is used |
| `audit_chain` | what do kills, failing calls and rotations cost? | two logs, two lines per file before it rotates, four entries, two files, two faults: a log is reopened after a cut-off line, rotates under another, and writes on after a failed write; symmetry is used |

Distinct states: `signal_call` 101,439; `executor_plans` 1,844,752; `apply_resume` 2,329,884; `apply_gates` 489,464;
`daemon_loop` 2,768,732; `daemon_progress` 347,134; `telemetry_drain` 269,823; `ladder_tells` 2,406,728; `ladder_top` 152,911;
`inbox_shared` 2,130,705; `update_crashes` 2,011,886; `audit_chain` 3,349,285. Each run takes less than three minutes with two workers.

Deadlock is not an error in any run: a call returns, a plan ends, and invocations, starts, signals, updates, entries and the clock are
bounded, and an audit log that was cut off cannot be opened again, so every model may stop. The bounds are `MaxClock`, `MaxInc`, `MaxStart`, `MaxBoot`, `MaxRuns`, `MaxNow`,
`MaxStarts`, `MaxSignals`, `MaxCalls`, `MaxFaults`, `MaxPlan`, `MaxBackups`, `MaxEntries`, `MaxFiles`; they only stop the environment, and no theorem depends
on their values.

### Fairness

Only steps of the program are fair. The runner and the executor are scheduled (`WF` on their steps): their waits are
bounded polls of the clock they sleep on. An invocation of agent apply is scheduled and has no unbounded wait. A daemon is
scheduled, its sleep ends, and its plans end: `Command::output` has no timeout, so `LockReturned` is about the daemon
and not about a plan that hangs. Nothing is assumed of processes, other agents, other holders of the lock, the clock,
crashes or signals. `StopHonoured` and `LockReturned` do not need the clock: a flag ends the sleep. `DropReturns` needs only that the
flusher thread runs: Drop joins it, and the rest is about what the flusher does. `TopReached` needs the daemon's loop (`WF`) and
that time passes (`SF` on `Pass`, which is disabled during a step of the loop): the ladder is a matter of ages.

## What is proved

The proofs hold for all values of the constants; they assume the `ASSUME`s of the modules and nothing else.

*`ActionExecutorProofs`, the runner.* The inductive invariant `Inv` of `SignalRunner` adds to the four safety
properties what was true at the last check: `Checked` (from the identity check on, the pid is held by the process that
was seen or by a later one) and `Termed` (SIGTERM was sent and the grace period counted before the later steps).
`KillsTheChecked`, `EscalatesInStages`, `OkMeansDoomed` and `VerifiedMeansDead` follow, and `KillImplementsContract`:
the fate of the target moves only as `KillContract` lets it, and each answer is given only where the contract allows
it.

*`ActionExecutorProofs`, the executor.* A step of the executor within an action is a step of the runner or leaves the
call alone, so `SignalRunner`'s `Inv` is taken from there by name; `ExecInv` adds what the identity check and the
pre-checks saw (`LookedAt`) and what a recorded outcome means. `ExecTypeCorrect`, `SignalsTheChecked` and
`SuccessIsDeath` follow for every plan.

*`AgentApplyProofs`.* The heart is `LockHeld`: the agents past the lock are exactly its holder. So the file is what it
was when the holder chose its actions (`Unrecorded`), although it read it long before (`ResumeRepeatsNothing`); every
success in memory or in the file was carried out (`Truthful`, `RecordsAreTrue`); the counter of the checker equals the
kills in memory and is below the limit before each kill (`Counted`, `KillBudgetHolds`); an action about to be carried
out has passed the gates (`Gated`, `OnlyPermittedIsActed`). `SessionSettles` needs `~IOFaults`: with failing writes
the session may stay `Executing`, since the result of `update_state` is ignored.

*`DaemonProofs`.* `LocksHeld` (the pid lock is held from before the pid file is read to the end, the global lock while
a plan runs) gives `OnlyOneDaemon` and `PlansHoldTheLock`: the pid file, which `daemon stop` may remove too early,
does not matter. `Remembered` and `Counted` relate the daemon's memory, or `state.json` when nobody loops, to what
happened, across saves that fail, crashes and restarts: a counter in memory is at most the streak, unless its kind is `resumed`,
and a saved one is, unless its kind is `unsaved` or `resumed`. From them follow `SustainedTicks`, with that exception, and
`DaemonImplementsGate`, the refinement of `EscalationGate`. The gate's interval is a lower bound of the configured ones, because a reload may
change the interval between two escalations.

*`NotificationLadderProofs`.* `BudgetInv` says where the notifications of the last hour are: all of them at the end of
the manager's log, the saved ones at the end of the saved log (`Logged`), each at least as old as `now_secs`. A flush
that notifies finds a log that is shorter than the budget, and what it drops from the log's front is older than an
hour, although `now_secs` may lie behind; a start takes up exactly the saved ones. Hence `BudgetHolds`. `RepeatInv`
says of each item that the manager remembers what was told, and the saved state what was told and saved (`Remembers`):
the state of the item has a higher level, or the same one and a later time, or the item has no state and is as old as
stale, so that it gets none, or is gone for good. It needs that an item is at least as old as its state was last seen
(`AsOld`): a state that is pruned belongs to an item that is too old to be new again. Acknowledging forgets, and so
does a state that was lost; everything else keeps it, hence `NoneRepeated`. `OrderInv` (both logs are in the order of
time, nothing in the manager's is later than `now_secs`) gives `LogRetained`.

*`TelemetryProofs`.* `OwnersClaim` (what a claimed sequence promises until it is committed), `UnreadPublished` (an
unread sequence is owned or published with its event) and `Cursors` (`consumer <= next <= producer <= consumer +
Capacity`) are inductive together. No two sequences within `Capacity` of each other share a slot, hence `Exclusive`,
`NotOverrun` and `RingIsQueue`, the refinement of `EventQueue`. `RecorderIsRing` carries them over to the recorder.
There `RecInv` adds that the rows in the file, in the batches of the buffer and in `pending` are together those that
were read (`RowsKept`), without a failure in their order (`InOrder`), and that the flusher leaves its loop only after
`shutdown`, when nothing is left to read (`AllRead`): `EventsKept` and `FileComplete`. The batches are a fold over a
sequence; that it is the concatenation for every number of batches (`FlattenAppend`, `FlattenConcat`) is shown by the
least number of batches for which it would not be, since `<` is well-founded.

*`InboxProofs`.* `OnTheWay`, `AdderApart` and `TmpOwned` (until the file is torn, one command at most has
the temporary file open, and it holds what that command wrote) give `StaysReadable` (an inbox that is not torn is never garbled,
and only a line in which the daemon was cut off can make it unreadable), `UnreadOnlyOnce`, `UnreadItemsSurvive` and `FileImplementsCommands`, the refinement of `InboxCommands`: a rename, whose file was written
some steps before, acts as one replacement by what the command read.

*`SelfUpdateProofs`.* `Carries` and `Apart` (what a process writes is nobody's to remove) give the types; `PruneInv`
says that everything a prune is about to remove has `Retention` newer backups now, although the list was made before,
because every other prune keeps the newest as well (`NewestAreKept`). `IntactInv` gives `ListedIsIntact`. `Recovers`
follows a process that is alone through its steps: a broken build is installed, or about to be, and a backup is
removed, only while an intact backup of a working build is listed or as many broken ones as are kept (`Safe`); a prune
cannot take the last working one without leaving `Retention` newer broken ones (`Recovered`). `Settles` says that,
where nothing went wrong, every listed backup works, the backup that a process made is the newest and stays
(`OnTheWay`), and only a process between its replacement and its verification leaves the installed build unverified
(`SettledIsWorking`).

*`AuditLogProofs`.* What is in a tail or in a buffer is not acknowledged, and no two logs have the same entry under
way (`Tickets`). `LossBounded` counts: the acknowledged entries that are no line of any file, and the files that end
in an unfinished line, are together at most as many as the faults. A fault leaves one unfinished line, an append to it
spoils one entry and ends the line, so the sum stays (`AckedIsKept`), with any number of logs that write and rotate at
once. `ChainInv` is about logs that are open one after another. `Bound` counts the places where `verify_log` would
find the chain of a file broken (`Dam`), and `Sound` says of the log that is open, or the next one, that the places,
with the one that is due at its next write, are at most as many as the faults, whether its buffer is written out or
lost (`After`): a cut-off line or a failed flush owes one break, which the next entry pays (`ChainDamage`).

The types of `SignalRunner`, `ActionExecutor`, `AgentApply`, the ladder, the ring, the inbox and the updates are
proved, so no run checks them.

Only model-checked: everything under fairness (`CallReturns`, `PlanCompletes`, `LockFreed`, `StopHonoured`,
`LockReturned`, `DropReturns`, `TopReached`, the fair part of `ImplementsContract`), because the prover does not
reason about `ENABLED`. Every invariant and every action property that a run checks is also proved.

## Where the code and its documentation differ

What follows was met while modelling; the models do what the code does.

- `--resume` is documented to skip completed actions (`main.rs:1210`); outcomes are written after the last action, so a run
  that is cut off before has none, and they are carried out again. `ResumeSkipsRecorded` is about the actions that have one.
- `verify_log_chain` is documented to verify the history with the rotated files (`audit/verify.rs:231`); the first entry after a
  rotation follows `rotated:<name>`, which `verify_log` reports as an invalid genesis. `Broken` takes it for a link.
- A checkpoint counts the entries up to it (`audit/entry.rs:321`); when `write_entry` rotates first, it is the first entry of the new
  file and has the count and the hash of the old one. The counts are not modelled.
- `write_checkpoint` (`audit/writer.rs:333`) panics when the log has no file, because it slices 16 bytes of `"empty"` (`Panic`).
  `Panic` drops the buffer with the log, as a build that unwinds does; the release profile aborts (`Cargo.toml:36`), which loses the
  buffer, as `Kill` does. Nothing in a buffer was acknowledged, so no property tells them apart.
- `decision/robot_constraints.rs:58` says that the memory affected is accumulated across candidates; `record_action` is called
  (`main.rs:14193`) with 0 bytes, and for kills only.
- `README.md:379` says that targets are verified by boot id, start time and pid; `ids_match` (`action/signal.rs:480`) compares start
  ticks with a tolerance of 150 and no boot id. `--targets pid:start_id` (`main.rs:1162`) drops the start id (`main.rs:13692`).
- `README.md:116` promises rollback on failure; a SIGSTOP whose verification timed out stays in effect (`action/executor.rs:240`).
- `disruptor.rs:124` says that a claim fails if the buffer is full; it may also fail when it is not, because the two
  counters are read one after the other. A flush that fails in the middle may write rows twice, and `close` may publish a
  file whose footer was not written.
- The head of `decision/escalation.rs` says that the ladder survives restarts; for items a week old `prune` drops all but the first
  that is submitted, and they start again at the bottom. `TopReached` is about items that are younger or still known.
- `daemon/triggers.rs:5` promises that a trigger fires only after `sustained_ticks` consecutive ticks. A daemon that ends before a
  tick below the threshold is in `state.json`, or whose save fails, which is ignored, leaves the older count; the next daemon goes on
  from it and fires after fewer ticks: above (saved), below, killed, started, above fires with two sustained ticks. `resumed` is
  this case, and `FiresOnlySustained` excludes every other.
- A daemon that is cut off in the middle of a line (`inbox.rs:279`) leaves an inbox that `list` refuses (`inbox.rs:240`), and with it
  every command, `--clear-all` included, although a single process wrote the file; the next line that is appended is lost as well.
  This is the last disjunct of `ReadableUntilTorn`.
- Two commands of the inbox at once may garble a line, and then every command that reads the inbox fails, `--clear-all`
  included, until the file is removed by hand. An item added between the listing and the clearing makes the count of
  `--clear` wrap around.
- Two updates at once may leave a broken build installed: one backs up what the other is about to verify. A kill between the
  replacement and the verification leaves the broken build, and every later failing update backs it up once more, until the
  good backup is pruned; hence the last disjunct of `Recoverable`. `update prune-backups --keep` prints and prunes nothing;
  `atomic_update` is called by tests only, while `update rollback` is in use.
- `audit/mod.rs:41` and `audit/writer.rs:365` say that rotation writes a final checkpoint; `rotate` writes none. A kill in the middle of an
  entry leaves a line that does not parse, and no `AuditLog` can be opened on that file again. Outside of tests nothing opens one.
- `pt-telemetry/src/shadow.rs:10` keeps observations younger than one hour in memory, and `flush` (line 832) leaves them there; each
  `agent plan --shadow` is a process of its own, so that its observations never reach a file.
- `RateLimiter::record_kill` is called by nothing in the program, so its windows stay empty.

## Not modelled

Signals to process groups; `PT_SKIP_GLOBAL_LOCK` set by hand; the scan for `min_age`; lines of a JSONL file torn in the
middle by a crash (except those of the inbox); a plan that outlives a killed daemon; the daemon's event ring, moving averages
and counters that inform; a clock that is set back, except in `SelfUpdate`; the retention of telemetry; the signatures of
updates, which are checked before anything changes; the numbers behind posteriors, loss and evidence.
The background form of `daemon start` runs the foreground form in a child and waits, and is the same `Start`.
Components without a module are in the inventory; the reasons are in `PROJECT.json`.

## Plan

Done: the path from a plan to a signal (`ProcTable`, `SignalRunner`, `ActionExecutor`, `AgentApply`), the daemon (`Daemon`,
`NotificationLadder`, `InboxFile`), the telemetry (`TelemetryRing`, `TelemetryRecorder`), the updates (`SelfUpdate`) and the audit log
(`AuditLog`). Left, in this order:

1. `Quarantine`: throttle, freeze and cpuset with restore after partial failures.
2. `Sessions` beyond the manifest's state (snapshots, resume), `PluginManager`, `ShadowMode`, fleet.

Not in the plan: the rate limiter, whose windows stay empty; the planner and the enforcer, pure functions of decisions
whose inputs are real numbers; recovery, whose alternatives nothing retries.
