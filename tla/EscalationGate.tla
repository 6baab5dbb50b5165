---------------------------- MODULE EscalationGate ----------------------------
(***************************************************************************)
(* What daemon escalation promises, whatever happens to the daemon: one     *)
(* plan at a time, and two escalations at least Interval apart.  The time   *)
(* of the last escalation reaches the disk some time after the escalation   *)
(* began; a daemon that dies forgets at most what was not saved by then, or  *)
(* everything where files may fail, since a file that cannot be read counts  *)
(* as none.                                                                  *)
(***************************************************************************)
EXTENDS Integers

CONSTANTS Interval, Never, Faults

VARIABLES
  now,       \* wall clock
  last,      \* when the last escalation that is remembered began
  saved,     \* the same, as the disk has it
  planning   \* an escalation is going on

vars == <<now, last, saved, planning>>

Init == now = 0 /\ last = Never /\ saved = Never /\ planning = FALSE

Begin ==
  /\ ~planning
  /\ last = Never \/ now - last >= Interval
  /\ planning' = TRUE /\ last' = now
  /\ UNCHANGED <<now, saved>>

End == planning /\ planning' = FALSE /\ UNCHANGED <<now, last, saved>>

Save == ~planning /\ saved' = last /\ UNCHANGED <<now, last, planning>>

\* The daemon dies or starts; what it planned ends with it, or unknown to it.
Forget ==
  /\ planning' = FALSE
  /\ last' = saved \/ (Faults /\ last' = Never)
  /\ UNCHANGED <<now, saved>>

Clock == now' = now + 1 /\ UNCHANGED <<last, saved, planning>>

Next == Begin \/ End \/ Save \/ Forget \/ Clock

Spec == Init /\ [][Next]_vars
=============================================================================
