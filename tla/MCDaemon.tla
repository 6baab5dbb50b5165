------------------------------- MODULE MCDaemon -------------------------------
(* Instances of Daemon for TLC. *)
EXTENDS Daemon, TLC

\* Two contents of daemon.json, so that a reload or a restart changes every limit.
TwoConfigs == {[sustained |-> 2, cooldown |-> 1, interval |-> 1],
               [sustained |-> 1, cooldown |-> 0, interval |-> 2]}

\* Daemons differ in nothing but their pids.
DaemonSymmetry == Permutations(Daemons)
=============================================================================
