--------------------------- MODULE MCActionExecutor ---------------------------
(* Plans as generate_plan orders them: keep, then reversible actions, restarts, kills.  *)
EXTENDS ActionExecutor

CONSTANTS p1, p2, root, user

Planned(kind, pid, blocked, checkState) ==
  [call |-> [kind |-> kind, pid |-> pid, start |-> 0, uid |-> user, inc |-> 1],
   blocked |-> blocked, checkState |-> checkState]

\* A pause staged before the kill of the same process.
StagedPlan == <<Planned("Pause", p1, FALSE, FALSE), Planned("Kill", p1, FALSE, FALSE)>>

\* Two processes: one paused, then a process that was in D state killed.
TwoTargets == <<Planned("Pause", p1, FALSE, FALSE), Planned("Kill", p2, FALSE, TRUE)>>

\* The parent of a zombie restarted, a candidate the policy blocked, a kill.
MixedPlan == <<Planned("Restart", p2, FALSE, FALSE), Planned("Kill", p1, TRUE, FALSE),
               Planned("Kill", p1, FALSE, FALSE)>>

\* A zombie to look into and a stopped process to resume.
GentlePlan == <<Planned("Keep", p2, FALSE, FALSE), Planned("Resume", p1, FALSE, FALSE)>>

AllPlans == {StagedPlan, TwoTargets, MixedPlan, GentlePlan}
=============================================================================
