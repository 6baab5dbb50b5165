----------------------------- MODULE MCAgentApply -----------------------------
(* Plans and command lines for TLC. *)
EXTENDS AgentApply, TLC

CONSTANTS p1, p2, user, other

Act(kind, pid, start, blocked, permitted, mem) ==
  [kind |-> kind, pid |-> pid, boot |-> 0, start |-> start, uid |-> user,
   blocked |-> blocked, permitted |-> permitted, mem |-> mem]

AgentSymmetry == Permutations(Agents)

\* A pause staged before a kill, and a second kill.
StagedPlan == <<Act("Pause", p1, 0, FALSE, TRUE, 1), Act("Kill", p1, 0, FALSE, TRUE, 1),
                Act("Kill", p2, 0, FALSE, TRUE, 1)>>

\* A blocked restart, a kill that a constraint forbids, and a kill.
GatedPlan == <<Act("Restart", p1, 0, TRUE, TRUE, 1), Act("Kill", p1, 0, FALSE, FALSE, 1),
               Act("Kill", p2, 0, FALSE, TRUE, 1)>>

Cmd(resume, dry, yes, abort, recommended, targets) ==
  [resume |-> resume, dry |-> dry, yes |-> yes, abort |-> abort,
   recommended |-> recommended, targets |-> targets]

Apply == Cmd(FALSE, FALSE, TRUE, FALSE, TRUE, {})
Resume == Cmd(TRUE, FALSE, TRUE, FALSE, FALSE, {})
Abort == Cmd(FALSE, FALSE, TRUE, TRUE, FALSE, {<<p1, AnyStart>>, <<p2, AnyStart>>})
DryRun == Cmd(FALSE, TRUE, FALSE, FALSE, TRUE, {})
NoYes == Cmd(FALSE, FALSE, FALSE, FALSE, TRUE, {})
ApplyAndResume == {Apply, Resume}
\* One command line for each way through the gates.
GateCommands == {Apply, Resume, Abort, DryRun, NoYes}
=============================================================================
