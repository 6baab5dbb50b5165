----------------------------- MODULE SelfUpdate -----------------------------
(***************************************************************************)
(* Updating the installed binary (install/rollback.rs, install/backup.rs):   *)
(* back up, replace, verify, and roll back what fails; and "pt update         *)
(* rollback".  Nothing locks the binary or the backups, and any process may   *)
(* be killed, or a file operation fail, between any two steps.                *)
(*                                                                         *)
(* A build stands for its bytes, its checksum and its version.  A new binary  *)
(* whose signature is refused returns before anything changes.                *)
(***************************************************************************)
EXTENDS Integers, FiniteSets

CONSTANTS
  Builds, Works,   \* the builds, and those that pass --version
  First,           \* the one installed at the beginning
  Procs,
  Retention,       \* backups that a prune leaves
  MaxBackups,      \* bound: backups that are begun
  MaxFaults,       \* bound: kills, failing files, slow checks, a clock set back
  None, Torn       \* no file; a file of which a part is written

ASSUME BuildsAssumption ==
  /\ Works \subseteq Builds /\ First \in Works
  /\ None \notin Builds \cup {Torn} /\ Torn \notin Builds
  /\ Retention \in Nat \ {0} /\ MaxBackups \in Nat /\ MaxFaults \in Nat

VARIABLES
  target,    \* the installed build
  backup,    \* of each backup name, in the order of their timestamps: the binary, the
             \* checksum in its metadata, and the metadata's created_at
  begun,     \* backups begun so far
  clock,
  proc,      \* where each process is; what it installs, the checksum it computed, its
             \* backup, what it is to remove, and what it has copied
  faults,
  overlapped \* history: two processes ran at once

vars == <<target, backup, begun, clock, proc, faults, overlapped>>

Names == 1..MaxBackups
Idle == [pc |-> "idle", new |-> None, sum |-> None, own |-> 0, victims |-> {}, copy |-> None]
NoBackup == [bin |-> None, sum |-> None, at |-> 0]

Files == Builds \cup {None, Torn}
Backups == [bin : Files, sum : Files, at : Int]
Pcs == {"idle", "sum", "copy", "copying", "meta", "saving", "prune", "removing",
        "replace", "verify", "restore", "put", "rename"}
ProcStates == [pc : Pcs, new : Builds \cup {None}, sum : Builds \cup {None}, own : 0..MaxBackups,
               victims : SUBSET Names, copy : Builds \cup {None}]

Init ==
  /\ target = First
  /\ backup = [b \in Names |-> NoBackup]
  /\ begun = 0 /\ clock = 0
  /\ proc = [p \in Procs |-> Idle]
  /\ faults = 0 /\ overlapped = FALSE

Fault == faults < MaxFaults /\ faults' = faults + 1
At(p, pc) == proc[p].pc = pc
Step(p, pc) == proc' = [proc EXCEPT ![p].pc = pc]
Leave(p) == proc' = [proc EXCEPT ![p] = Idle]

------------------------------------------------------------------------------
(* BackupManager *)

\* list_backups: metadata that can be loaded, beside a binary.
Listed == {b \in Names : backup[b].bin # None /\ backup[b].sum \notin {None, Torn}}
Newer(b) == {c \in Listed : backup[c].at > backup[b].at}

\* verify_backup, against the checksum of metadata that was loaded or just written.
Intact(b, sum) == backup[b].bin = sum

\* atomic_update begins and backs up the target: the checksum first, ...
Begin(p, new) ==
  /\ At(p, "idle")
  /\ proc' = [proc EXCEPT ![p] = [Idle EXCEPT !.pc = "sum", !.new = new]]
  /\ overlapped' = (overlapped \/ \E q \in Procs \ {p} : ~At(q, "idle"))
  /\ UNCHANGED <<target, backup, begun, clock, faults>>

Checksum(p) ==
  /\ At(p, "sum")
  /\ proc' = [proc EXCEPT ![p].pc = "copy", ![p].sum = target]
  /\ UNCHANGED <<target, backup, begun, clock, faults, overlapped>>

\* ... then the copy, under a name of its own, ...
CopyOpen(p) ==
  /\ At(p, "copy") /\ begun < MaxBackups
  /\ begun' = begun + 1
  /\ backup' = [backup EXCEPT ![begun'].bin = Torn]
  /\ proc' = [proc EXCEPT ![p].pc = "copying", ![p].own = begun', ![p].copy = target]
  /\ UNCHANGED <<target, clock, faults, overlapped>>

\* Slip: the error of the copy is ignored.
CopyHalf(p) ==
  /\ At(p, "copying")
  /\ \/ backup' = [backup EXCEPT ![proc[p].own].bin = proc[p].copy] /\ UNCHANGED faults
     \/ Fault /\ UNCHANGED backup
  /\ proc' = [proc EXCEPT ![p].pc = "meta", ![p].copy = None]
  /\ UNCHANGED <<target, begun, clock, overlapped>>

CopyDone(p) ==
  /\ At(p, "copying")
  /\ backup' = [backup EXCEPT ![proc[p].own].bin = proc[p].copy]
  /\ proc' = [proc EXCEPT ![p].pc = "meta", ![p].copy = None]
  /\ UNCHANGED <<target, begun, clock, faults, overlapped>>

\* ... then the metadata, with the time, which the clock may have gone back from, ...
MetaOpen(p) ==
  /\ At(p, "meta")
  /\ clock' = clock + 1
  /\ \/ backup' = [backup EXCEPT ![proc[p].own].sum = Torn, ![proc[p].own].at = clock'] /\ UNCHANGED faults
     \/ backup' = [backup EXCEPT ![proc[p].own].sum = Torn, ![proc[p].own].at = -clock'] /\ Fault
  /\ Step(p, "saving")
  /\ UNCHANGED <<target, begun, overlapped>>

MetaSave(p) ==
  /\ At(p, "saving")
  /\ backup' = [backup EXCEPT ![proc[p].own].sum = proc[p].sum]
  /\ Step(p, "prune")
  /\ UNCHANGED <<target, begun, clock, faults, overlapped>>

\* Slip: the new backup is not counted among those that are kept.
PruneListAlso(p) ==
  /\ At(p, "prune")
  /\ proc' = [proc EXCEPT ![p].pc = "removing",
                          ![p].victims = {b \in Listed : Cardinality(Newer(b)) >= Retention - 1}]
  /\ UNCHANGED <<target, backup, begun, clock, faults, overlapped>>

\* ... and prune_old_backups: what is not among the newest goes, ...
PruneList(p) ==
  /\ At(p, "prune")
  /\ proc' = [proc EXCEPT ![p].pc = "removing",
                          ![p].victims = {b \in Listed : Cardinality(Newer(b)) >= Retention}]
  /\ UNCHANGED <<target, backup, begun, clock, faults, overlapped>>

\* ... binary and metadata; a removal that fails is ignored.
Remove(p, b) ==
  /\ At(p, "removing") /\ b \in proc[p].victims
  /\ proc' = [proc EXCEPT ![p].victims = @ \ {b}]
  /\ \/ backup' = [backup EXCEPT ![b] = NoBackup] /\ UNCHANGED faults
     \/ backup' \in {backup, [backup EXCEPT ![b].bin = None], [backup EXCEPT ![b].sum = None]} /\ Fault
  /\ UNCHANGED <<target, begun, clock, overlapped>>

PruneDone(p) ==
  /\ At(p, "removing") /\ proc[p].victims = {}
  /\ Step(p, "replace")
  /\ UNCHANGED <<target, backup, begun, clock, faults, overlapped>>

------------------------------------------------------------------------------
(* RollbackManager *)

\* atomic_replace: the rename of a finished copy; when it fails the backup is restored.
Replace(p) ==
  /\ At(p, "replace")
  /\ \/ target' = proc[p].new /\ Step(p, "verify") /\ UNCHANGED faults
     \/ Fault /\ Step(p, "restore") /\ UNCHANGED target
  /\ UNCHANGED <<backup, begun, clock, overlapped>>

\* Slip: what fails the check is left installed.
VerifyAndLeave(p) ==
  /\ At(p, "verify") /\ Leave(p)
  /\ UNCHANGED <<target, backup, begun, clock, faults, overlapped>>

\* verify_binary runs what is installed by now, and may be given the version to expect; a
\* check may take too long.
Verify(p) ==
  /\ At(p, "verify")
  /\ \/ target \in Works /\ Leave(p) /\ UNCHANGED faults
     \/ target \notin Works \cap {proc[p].new} /\ Step(p, "restore") /\ UNCHANGED faults
     \/ target \in Works /\ Step(p, "restore") /\ Fault
  /\ UNCHANGED <<target, backup, begun, clock, overlapped>>

\* rollback_to_latest, or _to_version: the newest, or the newest of a version.
Rollback(p) ==
  /\ At(p, "idle")
  /\ \E b \in Listed :
       /\ \A c \in Newer(b) : backup[c].sum # backup[b].sum
       /\ proc' = [proc EXCEPT ![p] = [Idle EXCEPT !.pc = "restore", !.own = b, !.sum = backup[b].sum]]
  /\ overlapped' = (overlapped \/ \E q \in Procs \ {p} : ~At(q, "idle"))
  /\ UNCHANGED <<target, backup, begun, clock, faults>>

\* restore_backup: the checksum, ...
Restore(p) ==
  /\ At(p, "restore")
  /\ IF Intact(proc[p].own, proc[p].sum) THEN Step(p, "put") ELSE Leave(p)
  /\ UNCHANGED <<target, backup, begun, clock, faults, overlapped>>

\* ... the copy, ...
PutCopy(p) ==
  /\ At(p, "put")
  /\ IF backup[proc[p].own].bin = None THEN Leave(p)
     ELSE proc' = [proc EXCEPT ![p].pc = "rename", ![p].copy = backup[proc[p].own].bin]
  /\ UNCHANGED <<target, backup, begun, clock, faults, overlapped>>

\* ... and the rename.
PutRename(p) ==
  /\ At(p, "rename")
  /\ target' = proc[p].copy
  /\ Leave(p)
  /\ UNCHANGED <<backup, begun, clock, faults, overlapped>>

\* A process is killed, or returns the error of a file operation.
CutOff(p) ==
  /\ ~At(p, "idle") /\ Fault /\ Leave(p)
  /\ UNCHANGED <<target, backup, begun, clock, overlapped>>

Proc(p) ==
  \/ (\E new \in Builds : Begin(p, new)) \/ Checksum(p) \/ CopyOpen(p) \/ CopyDone(p)
  \/ MetaOpen(p) \/ MetaSave(p) \/ PruneList(p) \/ (\E b \in Names : Remove(p, b)) \/ PruneDone(p)
  \/ Replace(p) \/ Verify(p) \/ Rollback(p) \/ Restore(p) \/ PutCopy(p) \/ PutRename(p)
  \/ CutOff(p)

Next == \E p \in Procs : Proc(p)

Spec == Init /\ [][Next]_vars

------------------------------------------------------------------------------
(* Properties. *)

UpdateTypeOK ==
  /\ target \in Builds
  /\ backup \in [Names -> Backups]
  /\ begun \in 0..MaxBackups /\ clock \in Nat
  /\ proc \in [Procs -> ProcStates]
  /\ faults \in 0..MaxFaults /\ overlapped \in BOOLEAN

\* A backup that is listed is intact, unless two processes ran at once.
ListedIntact == ~overlapped => \A b \in Listed : Intact(b, backup[b].sum)

\* However many processes prune at once, whatever fails and wherever the clock goes: a
\* backup is lost only when as many newer ones as are kept are there.
NewestKept ==
  [][\A b \in Listed : b \in Listed' \/ Cardinality(Newer(b)) >= Retention]_vars

\* However one process after another ends, a working build is installed or can be rolled
\* back to, unless all the backups that are kept are of broken builds.
Recoverable ==
  ~overlapped =>
    \/ target \in Works
    \/ \E b \in Listed : Intact(b, backup[b].sum) /\ backup[b].sum \in Works
    \/ Cardinality({b \in Listed : backup[b].sum \notin Works}) >= Retention

\* When nothing runs and nothing went wrong, what is installed works.
SettledWorks ==
  faults = 0 /\ ~overlapped /\ (\A p \in Procs : At(p, "idle")) => target \in Works
==============================================================================
