------------------------------ MODULE ProcTable ------------------------------
(***************************************************************************)
(* The kernel's process table as process_triage sees it: what               *)
(* /proc/<pid>/stat and /proc/<pid>/status say of a pid, and what kill(2)   *)
(* does to it.  This is code outside the repository, modelled from how      *)
(* action/signal.rs and action/executor.rs use it.                          *)
(*                                                                          *)
(* A pid is a slot that successive processes occupy.  "inc" numbers the     *)
(* occupants of a slot; no code can read it: it is what the code has to     *)
(* guess from the start time and the uid.                                   *)
(***************************************************************************)
EXTENDS Integers

CONSTANTS
  Pids,      \* process ids
  Uids,      \* user ids
  Root,      \* the uid that may signal every process
  MaxClock,  \* bound: the clock stops advancing here
  MaxInc     \* bound: occupants a slot has over a behaviour

ASSUME RootAssumption == Root \in Uids
ASSUME BoundsAssumption == MaxClock \in Nat /\ MaxInc \in Nat /\ MaxInc >= 1

VARIABLES
  clock,     \* ticks since boot
  proc       \* the occupant of each slot

tableVars == <<clock, proc>>

\* "disk" is uninterruptible sleep ('D' in /proc/<pid>/stat), "zombie" is 'Z'.
ProcStates == {"gone", "run", "stop", "disk", "zombie"}

\* A signal that an uninterruptible process has received and not yet acted on.
Pending == {"none", "STOP", "KILL"}

ProcRecord ==
  [st: ProcStates, inc: 1..MaxInc, start: 0..MaxClock, uid: Uids, pend: Pending]

Signals == {"TERM", "KILL", "STOP", "CONT"}

TableTypeOK ==
  /\ clock \in 0..MaxClock
  /\ proc \in [Pids -> ProcRecord]

TableInit ==
  /\ clock = 0
  /\ proc \in [Pids -> [st: {"run", "stop", "disk"}, inc: {1}, start: {0},
                        uid: Uids, pend: {"none"}]]

----------------------------------------------------------------------------
(* What the code observes of a slot. *)

\* kill(pid, 0) succeeds, or fails with EPERM: a zombie still exists.
Exists(p) == proc[p].st # "gone"

MaySignal(uid, p) == uid = Root \/ uid = proc[p].uid

\* Exited for the purposes of wait_for_state_change: gone, or a zombie.
Exited(p) == proc[p].st \in {"gone", "zombie"}

Stopped(p) == proc[p].st = "stop"

----------------------------------------------------------------------------
(* What a delivered signal does.  SIGTERM changes nothing by itself: the     *)
(* process may handle it, ignore it or exit (Exit).                          *)

Deliver(r, sig) ==
  CASE sig = "KILL" /\ r.st \in {"run", "stop"} -> [r EXCEPT !.st = "zombie"]
    [] sig = "KILL" /\ r.st = "disk"            -> [r EXCEPT !.pend = "KILL"]
    [] sig = "STOP" /\ r.st = "run"             -> [r EXCEPT !.st = "stop"]
    [] sig = "STOP" /\ r.st = "disk" /\ r.pend = "none"
                                                -> [r EXCEPT !.pend = "STOP"]
    [] sig = "CONT" /\ r.st = "stop"            -> [r EXCEPT !.st = "run"]
    [] sig = "CONT" /\ r.st = "disk" /\ r.pend = "STOP"
                                                -> [r EXCEPT !.pend = "none"]
    [] OTHER                                    -> r

----------------------------------------------------------------------------
(* Steps of the machine that are none of process_triage's doing. *)

Tick ==
  /\ clock < MaxClock
  /\ clock' = clock + 1
  /\ UNCHANGED proc

\* A process ends: by itself, or because somebody else killed it.
Exit(p) ==
  /\ proc[p].st \in {"run", "stop"}
  /\ proc' = [proc EXCEPT ![p].st = "zombie"]
  /\ UNCHANGED clock

\* The parent waits for it and the slot is free.
Reap(p) ==
  /\ proc[p].st = "zombie"
  /\ proc' = [proc EXCEPT ![p].st = "gone"]
  /\ UNCHANGED clock

\* The pid is reused.
Spawn(p, u) ==
  /\ proc[p].st = "gone"
  /\ proc[p].inc < MaxInc
  /\ proc' = [proc EXCEPT ![p] = [st |-> "run", inc |-> proc[p].inc + 1,
                                  start |-> clock, uid |-> u, pend |-> "none"]]
  /\ UNCHANGED clock

Block(p) ==
  /\ proc[p].st = "run"
  /\ proc' = [proc EXCEPT ![p].st = "disk"]
  /\ UNCHANGED clock

Wake(p) ==
  /\ proc[p].st = "disk"
  /\ proc' = [proc EXCEPT ![p].st = CASE proc[p].pend = "KILL" -> "zombie"
                                      [] proc[p].pend = "STOP" -> "stop"
                                      [] OTHER -> "run",
                          ![p].pend = "none"]
  /\ UNCHANGED clock

TableNext ==
  \/ Tick
  \/ \E p \in Pids : Exit(p) \/ Reap(p) \/ Block(p) \/ Wake(p)
  \/ \E p \in Pids, u \in Uids : Spawn(p, u)
=============================================================================
