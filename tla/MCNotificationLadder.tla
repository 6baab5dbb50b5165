------------------------- MODULE MCNotificationLadder -------------------------
(* Instances of NotificationLadder for TLC: a warning and a critical item. *)
EXTENDS NotificationLadder

CONSTANTS i1, i2

MCSeverity == (i1 :> Warning) @@ (i2 :> Critical)
MCSure == [enabled |-> TRUE, confident |-> TRUE]
MCConfigsAll == {MCSure, [MCSure EXCEPT !.confident = FALSE], [MCSure EXCEPT !.enabled = FALSE]}
MCConfigsSure == {MCSure}
MCAfter == (2 :> 1) @@ (3 :> 1) @@ (4 :> 2)
=============================================================================
