----------------------------- MODULE KillContract -----------------------------
(***************************************************************************)
(* What a caller of ActionRunner may rely on when it asks for a process to  *)
(* be killed: execute answers ok only when the process can no longer        *)
(* survive, verify only when it no longer exists, and neither is ever taken *)
(* back.  Nothing is said about how.                                        *)
(***************************************************************************)
VARIABLES
  phase,  \* what the caller has been told
  fate    \* of the process it asked to have killed

Phases == {"asked", "ok", "verified", "error"}
Fates == {"alive", "doomed", "dead"}

\* Fate moves one way.
From(f) ==
  CASE f = "alive"  -> Fates
    [] f = "doomed" -> {"doomed", "dead"}
    [] f = "dead"   -> {"dead"}

Init == phase = "asked" /\ fate \in Fates

\* The process dies or is struck, whoever did it.
Suffer == fate' \in From(fate) /\ UNCHANGED phase

\* execute answers, perhaps in the same step as the blow.
Answer ==
  /\ phase = "asked"
  /\ fate' \in From(fate)
  /\ \/ phase' = "ok" /\ fate' # "alive"
     \/ phase' = "error"

\* verify answers.
Confirm ==
  /\ phase = "ok"
  /\ \/ phase' = "verified" /\ fate = "dead"
     \/ phase' = "error"
  /\ UNCHANGED fate

Next == Suffer \/ Answer \/ Confirm

Spec == Init /\ [][Next]_<<phase, fate>>

FairSpec ==
  Spec /\ WF_<<phase, fate>>(Answer) /\ WF_<<phase, fate>>(Confirm)
=============================================================================
