-------------------------- MODULE SelfUpdateProofs --------------------------
(***************************************************************************)
(* Proofs about SelfUpdate, for any builds, retention and number of          *)
(* processes and faults: the types, that a prune keeps the newest backups,   *)
(* that a listed backup is intact, and, as long as no two processes ran at   *)
(* once, that a broken build can be rolled back from and that an update that *)
(* meets no fault ends in a build that works.                                *)
(***************************************************************************)
EXTENDS SelfUpdate, FiniteSetTheorems, TLAPS

\* A process that writes a backup.
Writing == {"copying", "meta", "saving"}

\* What a process carries along, as far as it has come.
Carries(r) ==
  /\ r.pc \in {"sum", "copy", "copying", "meta", "saving", "prune", "removing", "replace"}
       => r.new \in Builds
  /\ r.pc \notin {"idle", "sum"} => r.sum \in Builds
  /\ r.pc \in {"copying", "rename"} => r.copy \in Builds
  /\ r.pc \notin {"idle", "sum", "copy"} => r.own \in 1..begun
  /\ r.pc = "put" => backup[r.own].bin # Torn
  /\ r.victims \subseteq 1..begun

Fields == \A p \in Procs : Carries(proc[p])

\* The names that are not begun are free.
Fresh == \A b \in Names : b > begun => backup[b] = NoBackup

\* What is being written has no metadata yet, is nobody's to remove, and is one's own.
Apart ==
  \A p, q \in Procs :
    proc[p].pc \in Writing =>
      /\ backup[proc[p].own].sum \in {None, Torn}
      /\ proc[p].own \notin proc[q].victims
      /\ proc[q].pc \in Writing /\ proc[q].own = proc[p].own => p = q

TypeInv == UpdateTypeOK /\ Fields /\ Fresh /\ Apart

------------------------------------------------------------------------------
(* Types. *)

\* Where a process can be.
LEMMA IdleType == Idle \in ProcStates /\ NoBackup \in Backups
BY BuildsAssumption DEF Idle, ProcStates, Pcs, NoBackup, Backups, Files

\* The initial state has the types.
LEMMA TypeInit == Init => TypeInv
<1> SUFFICES ASSUME Init PROVE TypeInv
  OBVIOUS
<1>1. UpdateTypeOK
  <2>1. target \in Builds /\ begun \in 0..MaxBackups /\ clock \in Nat /\ faults \in 0..MaxFaults
    BY BuildsAssumption DEF Init
  <2>2. backup \in [Names -> Backups] /\ proc \in [Procs -> ProcStates]
    BY IdleType DEF Init
  <2> QED BY <2>1, <2>2 DEF Init, UpdateTypeOK
<1>2. Fields /\ Fresh /\ Apart
  BY DEF Init, Fields, Carries, Fresh, Apart, Writing, Idle
<1> QED BY <1>1, <1>2 DEF TypeInv

\* A step that changes nothing but where a process is, and what is installed, keeps the
\* types.
LEMMA Moves ==
  ASSUME TypeInv, NEW p \in Procs, NEW r \in ProcStates,
         proc' = [proc EXCEPT ![p] = r], UNCHANGED <<backup, begun, clock>>,
         target' \in Builds, overlapped' \in BOOLEAN,
         faults' = faults \/ Fault,
         Carries(r), r.pc \in Writing => proc[p].pc \in Writing /\ r.own = proc[p].own,
         \A q \in Procs : proc[q].pc \in Writing => proc[q].own \notin r.victims
  PROVE  TypeInv'
<1>1. faults' \in 0..MaxFaults
  BY BuildsAssumption DEF TypeInv, UpdateTypeOK, Fault
<1>2. UpdateTypeOK'
  BY <1>1 DEF TypeInv, UpdateTypeOK
<1>3. Fields'
  BY DEF TypeInv, UpdateTypeOK, Fields, Carries
<1>4. Fresh'
  BY DEF TypeInv, Fresh
<1>5. Apart'
  BY DEF TypeInv, UpdateTypeOK, Apart
<1> QED BY <1>2, <1>3, <1>4, <1>5 DEF TypeInv

\* Begin keeps the types.
LEMMA TypeBegin ==
  ASSUME TypeInv, NEW p \in Procs, NEW new \in Builds, Begin(p, new)
  PROVE  TypeInv'
<1> USE DEF Begin, At, Step, Leave, Fault
<1>0. proc[p] \in ProcStates /\ Carries(proc[p]) /\ target \in Builds /\ clock \in Nat
  BY DEF TypeInv, UpdateTypeOK, Fields
<1> DEFINE r == [Idle EXCEPT !.pc = "sum", !.new = new]
<1>1. r \in ProcStates /\ Carries(r)
  BY <1>0, IdleType, BuildsAssumption DEF ProcStates, Pcs, Carries, Idle, Listed, Fresh, TypeInv, NoBackup, Names
<1>2. proc' = [proc EXCEPT ![p] = r]
  BY DEF TypeInv, UpdateTypeOK
<1>3. \A q \in Procs : proc[q].pc \in Writing => proc[q].own \notin r.victims
  BY <1>0 DEF TypeInv, Apart, Listed, Idle, ProcStates
<1>4. r.pc \in Writing => proc[p].pc \in Writing /\ r.own = proc[p].own
  BY <1>0 DEF Writing, Idle, ProcStates
<1>5. target' \in Builds /\ overlapped' \in BOOLEAN
  BY <1>0 DEF TypeInv, UpdateTypeOK, Carries
<1> HIDE DEF r
<1> QED BY <1>1, <1>2, <1>3, <1>4, <1>5, Moves

\* Checksum keeps the types.
LEMMA TypeChecksum ==
  ASSUME TypeInv, NEW p \in Procs, Checksum(p)
  PROVE  TypeInv'
<1> USE DEF Checksum, At, Step, Leave, Fault
<1>0. proc[p] \in ProcStates /\ Carries(proc[p]) /\ target \in Builds /\ clock \in Nat
  BY DEF TypeInv, UpdateTypeOK, Fields
<1> DEFINE r == [proc[p] EXCEPT !.pc = "copy", !.sum = target]
<1>1. r \in ProcStates /\ Carries(r)
  BY <1>0, IdleType, BuildsAssumption DEF ProcStates, Pcs, Carries, Idle, Listed, Fresh, TypeInv, NoBackup, Names
<1>2. proc' = [proc EXCEPT ![p] = r]
  BY DEF TypeInv, UpdateTypeOK
<1>3. \A q \in Procs : proc[q].pc \in Writing => proc[q].own \notin r.victims
  BY <1>0 DEF TypeInv, Apart, Listed, Idle, ProcStates
<1>4. r.pc \in Writing => proc[p].pc \in Writing /\ r.own = proc[p].own
  BY <1>0 DEF Writing, Idle, ProcStates
<1>5. target' \in Builds /\ overlapped' \in BOOLEAN
  BY <1>0 DEF TypeInv, UpdateTypeOK, Carries
<1> HIDE DEF r
<1> QED BY <1>1, <1>2, <1>3, <1>4, <1>5, Moves

\* PruneList keeps the types.
LEMMA TypePruneList ==
  ASSUME TypeInv, NEW p \in Procs, PruneList(p)
  PROVE  TypeInv'
<1> USE DEF PruneList, At, Step, Leave, Fault
<1>0. proc[p] \in ProcStates /\ Carries(proc[p]) /\ target \in Builds /\ clock \in Nat
  BY DEF TypeInv, UpdateTypeOK, Fields
<1> DEFINE r == [proc[p] EXCEPT !.pc = "removing", !.victims = {b \in Listed : Cardinality(Newer(b)) >= Retention}]
<1>a. Listed \subseteq 1..begun
  BY DEF TypeInv, UpdateTypeOK, Fresh, Listed, NoBackup, Names
<1>1. r \in ProcStates /\ Carries(r)
  <2>1. r.victims \subseteq Listed /\ Listed \subseteq Names
    BY <1>0 DEF Listed, ProcStates
  <2> QED BY <1>0, <1>a, <2>1 DEF ProcStates, Pcs, Carries
<1>2. proc' = [proc EXCEPT ![p] = r]
  BY DEF TypeInv, UpdateTypeOK
<1>3. \A q \in Procs : proc[q].pc \in Writing => proc[q].own \notin r.victims
  BY <1>0 DEF TypeInv, Apart, Listed, Idle, ProcStates
<1>4. r.pc \in Writing => proc[p].pc \in Writing /\ r.own = proc[p].own
  BY <1>0 DEF Writing, Idle, ProcStates
<1>5. target' \in Builds /\ overlapped' \in BOOLEAN
  BY <1>0 DEF TypeInv, UpdateTypeOK, Carries
<1> HIDE DEF r
<1> QED BY <1>1, <1>2, <1>3, <1>4, <1>5, Moves

\* PruneDone keeps the types.
LEMMA TypePruneDone ==
  ASSUME TypeInv, NEW p \in Procs, PruneDone(p)
  PROVE  TypeInv'
<1> USE DEF PruneDone, At, Step, Leave, Fault
<1>0. proc[p] \in ProcStates /\ Carries(proc[p]) /\ target \in Builds /\ clock \in Nat
  BY DEF TypeInv, UpdateTypeOK, Fields
<1> DEFINE r == [proc[p] EXCEPT !.pc = "replace"]
<1>1. r \in ProcStates /\ Carries(r)
  BY <1>0, IdleType, BuildsAssumption DEF ProcStates, Pcs, Carries, Idle, Listed, Fresh, TypeInv, NoBackup, Names
<1>2. proc' = [proc EXCEPT ![p] = r]
  BY DEF TypeInv, UpdateTypeOK
<1>3. \A q \in Procs : proc[q].pc \in Writing => proc[q].own \notin r.victims
  BY <1>0 DEF TypeInv, Apart, Listed, Idle, ProcStates
<1>4. r.pc \in Writing => proc[p].pc \in Writing /\ r.own = proc[p].own
  BY <1>0 DEF Writing, Idle, ProcStates
<1>5. target' \in Builds /\ overlapped' \in BOOLEAN
  BY <1>0 DEF TypeInv, UpdateTypeOK, Carries
<1> HIDE DEF r
<1> QED BY <1>1, <1>2, <1>3, <1>4, <1>5, Moves

\* Replace keeps the types.
LEMMA TypeReplace ==
  ASSUME TypeInv, NEW p \in Procs, Replace(p)
  PROVE  TypeInv'
<1> USE DEF Replace, At, Step, Leave, Fault
<1>0. proc[p] \in ProcStates /\ Carries(proc[p]) /\ target \in Builds /\ clock \in Nat
  BY DEF TypeInv, UpdateTypeOK, Fields
<1>1. CASE Step(p, "verify")
  <2> DEFINE r == [proc[p] EXCEPT !.pc = "verify"]
  <2>1. r \in ProcStates /\ Carries(r)
    BY <1>0, <1>1, IdleType, BuildsAssumption DEF ProcStates, Pcs, Carries, Idle, Intact, TypeInv, UpdateTypeOK, Backups, Files, Names
  <2>2. proc' = [proc EXCEPT ![p] = r]
    BY <1>1 DEF TypeInv, UpdateTypeOK
  <2>3. \A q \in Procs : proc[q].pc \in Writing => proc[q].own \notin r.victims
    BY <1>0 DEF TypeInv, Apart, Idle, ProcStates
  <2>4. r.pc \in Writing => proc[p].pc \in Writing /\ r.own = proc[p].own
    BY <1>0 DEF Writing, Idle, ProcStates
  <2>5. target' \in Builds /\ overlapped' \in BOOLEAN
    BY <1>0 DEF TypeInv, UpdateTypeOK, Carries
  <2> HIDE DEF r
  <2> QED BY <2>1, <2>2, <2>3, <2>4, <2>5, Moves
<1>2. CASE Step(p, "restore")
  <2> DEFINE r == [proc[p] EXCEPT !.pc = "restore"]
  <2>1. r \in ProcStates /\ Carries(r)
    BY <1>0, <1>2, IdleType, BuildsAssumption DEF ProcStates, Pcs, Carries, Idle, Intact, TypeInv, UpdateTypeOK, Backups, Files, Names
  <2>2. proc' = [proc EXCEPT ![p] = r]
    BY <1>2 DEF TypeInv, UpdateTypeOK
  <2>3. \A q \in Procs : proc[q].pc \in Writing => proc[q].own \notin r.victims
    BY <1>0 DEF TypeInv, Apart, Idle, ProcStates
  <2>4. r.pc \in Writing => proc[p].pc \in Writing /\ r.own = proc[p].own
    BY <1>0 DEF Writing, Idle, ProcStates
  <2>5. target' \in Builds /\ overlapped' \in BOOLEAN
    BY <1>0 DEF TypeInv, UpdateTypeOK, Carries
  <2> HIDE DEF r
  <2> QED BY <2>1, <2>2, <2>3, <2>4, <2>5, Moves
<1> QED BY <1>1, <1>2

\* Verify keeps the types.
LEMMA TypeVerify ==
  ASSUME TypeInv, NEW p \in Procs, Verify(p)
  PROVE  TypeInv'
<1> USE DEF Verify, At, Step, Leave, Fault
<1>0. proc[p] \in ProcStates /\ Carries(proc[p]) /\ target \in Builds /\ clock \in Nat
  BY DEF TypeInv, UpdateTypeOK, Fields
<1>1. CASE Leave(p)
  <2> DEFINE r == Idle
  <2>1. r \in ProcStates /\ Carries(r)
    BY <1>0, <1>1, IdleType, BuildsAssumption DEF ProcStates, Pcs, Carries, Idle, Intact, TypeInv, UpdateTypeOK, Backups, Files, Names
  <2>2. proc' = [proc EXCEPT ![p] = r]
    BY <1>1 DEF TypeInv, UpdateTypeOK
  <2>3. \A q \in Procs : proc[q].pc \in Writing => proc[q].own \notin r.victims
    BY <1>0 DEF TypeInv, Apart, Idle, ProcStates
  <2>4. r.pc \in Writing => proc[p].pc \in Writing /\ r.own = proc[p].own
    BY <1>0 DEF Writing, Idle, ProcStates
  <2>5. target' \in Builds /\ overlapped' \in BOOLEAN
    BY <1>0 DEF TypeInv, UpdateTypeOK, Carries
  <2> HIDE DEF r
  <2> QED BY <2>1, <2>2, <2>3, <2>4, <2>5, Moves
<1>2. CASE Step(p, "restore")
  <2> DEFINE r == [proc[p] EXCEPT !.pc = "restore"]
  <2>1. r \in ProcStates /\ Carries(r)
    BY <1>0, <1>2, IdleType, BuildsAssumption DEF ProcStates, Pcs, Carries, Idle, Intact, TypeInv, UpdateTypeOK, Backups, Files, Names
  <2>2. proc' = [proc EXCEPT ![p] = r]
    BY <1>2 DEF TypeInv, UpdateTypeOK
  <2>3. \A q \in Procs : proc[q].pc \in Writing => proc[q].own \notin r.victims
    BY <1>0 DEF TypeInv, Apart, Idle, ProcStates
  <2>4. r.pc \in Writing => proc[p].pc \in Writing /\ r.own = proc[p].own
    BY <1>0 DEF Writing, Idle, ProcStates
  <2>5. target' \in Builds /\ overlapped' \in BOOLEAN
    BY <1>0 DEF TypeInv, UpdateTypeOK, Carries
  <2> HIDE DEF r
  <2> QED BY <2>1, <2>2, <2>3, <2>4, <2>5, Moves
<1> QED BY <1>1, <1>2

\* Restore keeps the types.
LEMMA TypeRestore ==
  ASSUME TypeInv, NEW p \in Procs, Restore(p)
  PROVE  TypeInv'
<1> USE DEF Restore, At, Step, Leave, Fault
<1>0. proc[p] \in ProcStates /\ Carries(proc[p]) /\ target \in Builds /\ clock \in Nat
  BY DEF TypeInv, UpdateTypeOK, Fields
<1>1. CASE Leave(p)
  <2> DEFINE r == Idle
  <2>1. r \in ProcStates /\ Carries(r)
    BY <1>0, <1>1, IdleType, BuildsAssumption DEF ProcStates, Pcs, Carries, Idle, Intact, TypeInv, UpdateTypeOK, Backups, Files, Names
  <2>2. proc' = [proc EXCEPT ![p] = r]
    BY <1>1 DEF TypeInv, UpdateTypeOK
  <2>3. \A q \in Procs : proc[q].pc \in Writing => proc[q].own \notin r.victims
    BY <1>0 DEF TypeInv, Apart, Idle, ProcStates
  <2>4. r.pc \in Writing => proc[p].pc \in Writing /\ r.own = proc[p].own
    BY <1>0 DEF Writing, Idle, ProcStates
  <2>5. target' \in Builds /\ overlapped' \in BOOLEAN
    BY <1>0 DEF TypeInv, UpdateTypeOK, Carries
  <2> HIDE DEF r
  <2> QED BY <2>1, <2>2, <2>3, <2>4, <2>5, Moves
<1>2. CASE Step(p, "put") /\ Intact(proc[p].own, proc[p].sum)
  <2> DEFINE r == [proc[p] EXCEPT !.pc = "put"]
  <2>a. proc[p].sum \in Builds /\ backup[proc[p].own].bin = proc[p].sum
    BY <1>0, <1>2 DEF Carries, Intact
  <2>b. backup[proc[p].own].bin # Torn
    BY <2>a, BuildsAssumption
  <2>1. r \in ProcStates /\ Carries(r)
    BY <1>0, <2>b DEF ProcStates, Pcs, Carries
  <2>2. proc' = [proc EXCEPT ![p] = r]
    BY <1>2 DEF TypeInv, UpdateTypeOK
  <2>3. \A q \in Procs : proc[q].pc \in Writing => proc[q].own \notin r.victims
    BY <1>0 DEF TypeInv, Apart, Idle, ProcStates
  <2>4. r.pc \in Writing => proc[p].pc \in Writing /\ r.own = proc[p].own
    BY <1>0 DEF Writing, Idle, ProcStates
  <2>5. target' \in Builds /\ overlapped' \in BOOLEAN
    BY <1>0 DEF TypeInv, UpdateTypeOK, Carries
  <2> HIDE DEF r
  <2> QED BY <2>1, <2>2, <2>3, <2>4, <2>5, Moves
<1> QED BY <1>1, <1>2

\* PutCopy keeps the types.
LEMMA TypePutCopy ==
  ASSUME TypeInv, NEW p \in Procs, PutCopy(p)
  PROVE  TypeInv'
<1> USE DEF PutCopy, At, Step, Leave, Fault
<1>0. proc[p] \in ProcStates /\ Carries(proc[p]) /\ target \in Builds /\ clock \in Nat
  BY DEF TypeInv, UpdateTypeOK, Fields
<1>1. CASE Leave(p)
  <2> DEFINE r == Idle
  <2>1. r \in ProcStates /\ Carries(r)
    BY <1>0, <1>1, IdleType, BuildsAssumption DEF ProcStates, Pcs, Carries, Idle, Intact, TypeInv, UpdateTypeOK, Backups, Files, Names
  <2>2. proc' = [proc EXCEPT ![p] = r]
    BY <1>1 DEF TypeInv, UpdateTypeOK
  <2>3. \A q \in Procs : proc[q].pc \in Writing => proc[q].own \notin r.victims
    BY <1>0 DEF TypeInv, Apart, Idle, ProcStates
  <2>4. r.pc \in Writing => proc[p].pc \in Writing /\ r.own = proc[p].own
    BY <1>0 DEF Writing, Idle, ProcStates
  <2>5. target' \in Builds /\ overlapped' \in BOOLEAN
    BY <1>0 DEF TypeInv, UpdateTypeOK, Carries
  <2> HIDE DEF r
  <2> QED BY <2>1, <2>2, <2>3, <2>4, <2>5, Moves
<1>2. CASE backup[proc[p].own].bin # None
  <2> DEFINE r == [proc[p] EXCEPT !.pc = "rename", !.copy = backup[proc[p].own].bin]
  <2>a. backup[proc[p].own] \in Backups /\ backup[proc[p].own].bin # Torn
    BY <1>0, BuildsAssumption DEF Carries, TypeInv, UpdateTypeOK, Names
  <2>b. backup[proc[p].own].bin \in Builds
    BY <2>a, <1>2 DEF Backups, Files
  <2>1. r \in ProcStates /\ Carries(r)
    BY <1>0, <2>b DEF ProcStates, Pcs, Carries
  <2>2. proc' = [proc EXCEPT ![p] = r]
    BY <1>2 DEF TypeInv, UpdateTypeOK
  <2>3. \A q \in Procs : proc[q].pc \in Writing => proc[q].own \notin r.victims
    BY <1>0 DEF TypeInv, Apart, Idle, ProcStates
  <2>4. r.pc \in Writing => proc[p].pc \in Writing /\ r.own = proc[p].own
    BY <1>0 DEF Writing, Idle, ProcStates
  <2>5. target' \in Builds /\ overlapped' \in BOOLEAN
    BY <1>0 DEF TypeInv, UpdateTypeOK, Carries
  <2> HIDE DEF r
  <2> QED BY <2>1, <2>2, <2>3, <2>4, <2>5, Moves
<1> QED BY <1>1, <1>2

\* PutRename keeps the types.
LEMMA TypePutRename ==
  ASSUME TypeInv, NEW p \in Procs, PutRename(p)
  PROVE  TypeInv'
<1> USE DEF PutRename, At, Step, Leave, Fault
<1>0. proc[p] \in ProcStates /\ Carries(proc[p]) /\ target \in Builds /\ clock \in Nat
  BY DEF TypeInv, UpdateTypeOK, Fields
<1> DEFINE r == Idle
<1>1. r \in ProcStates /\ Carries(r)
  BY <1>0, IdleType, BuildsAssumption DEF ProcStates, Pcs, Carries, Idle, Listed, Fresh, TypeInv, NoBackup, Names
<1>2. proc' = [proc EXCEPT ![p] = r]
  BY DEF TypeInv, UpdateTypeOK
<1>3. \A q \in Procs : proc[q].pc \in Writing => proc[q].own \notin r.victims
  BY <1>0 DEF TypeInv, Apart, Listed, Idle, ProcStates
<1>4. r.pc \in Writing => proc[p].pc \in Writing /\ r.own = proc[p].own
  BY <1>0 DEF Writing, Idle, ProcStates
<1>5. target' \in Builds /\ overlapped' \in BOOLEAN
  BY <1>0 DEF TypeInv, UpdateTypeOK, Carries
<1> HIDE DEF r
<1> QED BY <1>1, <1>2, <1>3, <1>4, <1>5, Moves

\* CutOff keeps the types.
LEMMA TypeCutOff ==
  ASSUME TypeInv, NEW p \in Procs, CutOff(p)
  PROVE  TypeInv'
<1> USE DEF CutOff, At, Step, Leave, Fault
<1>0. proc[p] \in ProcStates /\ Carries(proc[p]) /\ target \in Builds /\ clock \in Nat
  BY DEF TypeInv, UpdateTypeOK, Fields
<1> DEFINE r == Idle
<1>1. r \in ProcStates /\ Carries(r)
  BY <1>0, IdleType, BuildsAssumption DEF ProcStates, Pcs, Carries, Idle, Listed, Fresh, TypeInv, NoBackup, Names
<1>2. proc' = [proc EXCEPT ![p] = r]
  BY DEF TypeInv, UpdateTypeOK
<1>3. \A q \in Procs : proc[q].pc \in Writing => proc[q].own \notin r.victims
  BY <1>0 DEF TypeInv, Apart, Listed, Idle, ProcStates
<1>4. r.pc \in Writing => proc[p].pc \in Writing /\ r.own = proc[p].own
  BY <1>0 DEF Writing, Idle, ProcStates
<1>5. target' \in Builds /\ overlapped' \in BOOLEAN
  BY <1>0 DEF TypeInv, UpdateTypeOK, Carries
<1> HIDE DEF r
<1> QED BY <1>1, <1>2, <1>3, <1>4, <1>5, Moves

\* Rollback keeps the types.
LEMMA TypeRollback ==
  ASSUME TypeInv, NEW p \in Procs, Rollback(p)
  PROVE  TypeInv'
<1> USE DEF Rollback, At
<1>0. PICK b \in Listed : proc' = [proc EXCEPT ![p] = [Idle EXCEPT !.pc = "restore", !.own = b, !.sum = backup[b].sum]]
  OBVIOUS
<1> DEFINE r == [Idle EXCEPT !.pc = "restore", !.own = b, !.sum = backup[b].sum]
<1>a. b \in 1..begun /\ b \in 0..MaxBackups
  BY DEF TypeInv, UpdateTypeOK, Fresh, Listed, NoBackup, Names
<1>b. backup[b].sum \in Builds
  BY DEF TypeInv, UpdateTypeOK, Listed, Backups, Files
<1>1. r \in ProcStates /\ Carries(r)
  BY <1>a, <1>b DEF ProcStates, Pcs, Carries, Idle
<1>3. \A q \in Procs : proc[q].pc \in Writing => proc[q].own \notin r.victims
  BY DEF Idle
<1>4. r.pc \notin Writing
  BY DEF Writing, Idle
<1>5. target' \in Builds /\ overlapped' \in BOOLEAN
  BY DEF TypeInv, UpdateTypeOK
<1>6. proc' = [proc EXCEPT ![p] = r]
  BY <1>0
<1> HIDE DEF r
<1> QED BY <1>1, <1>3, <1>4, <1>5, <1>6, Moves

\* CopyOpen keeps the types.
LEMMA TypeCopyOpen ==
  ASSUME TypeInv, NEW p \in Procs, CopyOpen(p)
  PROVE  TypeInv'
<1> USE DEF CopyOpen, At, Step
<1>0. proc[p] \in ProcStates /\ Carries(proc[p]) /\ begun \in Nat /\ \A b \in Names : backup[b] \in Backups
  BY DEF TypeInv, UpdateTypeOK, Fields
<1>n. begun + 1 \in Names /\ backup[begun + 1] = NoBackup
  BY <1>0, BuildsAssumption DEF TypeInv, UpdateTypeOK, Fresh, Names
<1>1. faults' \in 0..MaxFaults
  BY BuildsAssumption DEF TypeInv, UpdateTypeOK, Fault
<1>2. begun' \in 0..MaxBackups /\ begun' >= begun /\ clock' \in Nat
  BY BuildsAssumption DEF TypeInv, UpdateTypeOK
<1> DEFINE r == [proc[p] EXCEPT !.pc = "copying", !.own = begun + 1, !.copy = target]
<1>3. proc' = [proc EXCEPT ![p] = r] /\ r \in ProcStates
  <2>1. proc' = [proc EXCEPT ![p] = r]
    BY DEF TypeInv, UpdateTypeOK
  <2>a. begun + 1 \in 0..MaxBackups /\ target \in Builds
    BY <1>2 DEF TypeInv, UpdateTypeOK
  <2>2. r \in ProcStates
    BY <1>0, <2>a DEF ProcStates, Pcs
  <2> QED BY <2>1, <2>2
<1> HIDE DEF r
<1>4. PICK f \in Backups : /\ backup' = [backup EXCEPT ![begun + 1] = f]
                         /\ f.sum = None
  <2>1. [NoBackup EXCEPT !.bin = Torn] \in Backups
    BY IdleType DEF Backups, Files
  <2>2. backup' = [backup EXCEPT ![begun + 1] = [NoBackup EXCEPT !.bin = Torn]]
    BY <1>n
  <2> QED BY <2>1, <2>2 DEF NoBackup
<1>5. UpdateTypeOK'
  <2>1. backup' \in [Names -> Backups]
    BY <1>4 DEF TypeInv, UpdateTypeOK
  <2>2. proc' \in [Procs -> ProcStates]
    BY <1>3 DEF TypeInv, UpdateTypeOK
  <2> QED BY <1>1, <1>2, <2>1, <2>2 DEF TypeInv, UpdateTypeOK
<1>6. Fields'
  <2> SUFFICES ASSUME NEW q \in Procs PROVE Carries(proc[q])'
    BY DEF Fields
  <2>1. Carries(proc[q])
    BY DEF TypeInv, Fields
  <2>2. proc[q].pc = "put" => backup'[proc[q].own].bin # Torn
    BY <1>0, <1>4, <2>1, BuildsAssumption, <1>n DEF Carries, TypeInv, UpdateTypeOK, Names
  <2>3. CASE q # p
    BY <1>0, <1>2, <1>3, <2>1, <2>2, <2>3 DEF Carries, TypeInv, UpdateTypeOK
  <2>4. CASE q = p
    BY <1>0, <1>2, <1>3, <2>1, <2>2, <2>4 DEF r, Carries, TypeInv, UpdateTypeOK, ProcStates
  <2> QED BY <2>3, <2>4
<1>7. Fresh'
  BY <1>0, <1>2, <1>4, <1>n DEF TypeInv, UpdateTypeOK, Fresh, Names, Carries
<1>8. Apart'
  <2> SUFFICES ASSUME NEW q \in Procs, NEW s \in Procs, (proc[q].pc \in Writing)'
               PROVE  (/\ backup[proc[q].own].sum \in {None, Torn}
                       /\ proc[q].own \notin proc[s].victims
                       /\ proc[s].pc \in Writing /\ proc[s].own = proc[q].own => q = s)'
    BY DEF Apart
  <2>1. \A t \in Procs \ {p} : proc'[t] = proc[t]
    BY <1>3 DEF TypeInv, UpdateTypeOK
  <2>2. proc'[p] = r /\ r.own = begun + 1 /\ r.victims = proc[p].victims
    BY <1>3 DEF r, TypeInv, UpdateTypeOK, ProcStates
  <2>3. \A t \in Procs : /\ proc[t].victims \subseteq 1..begun
                         /\ proc[t].pc \in Writing => proc[t].own \in 1..begun
    BY DEF TypeInv, Fields, Carries, Writing
  <2>4. begun + 1 \notin 1..begun
    BY <1>0
  <2>5. CASE q = p
    <3>1. backup'[begun + 1].sum = None
      BY <1>n, <1>4 DEF TypeInv, UpdateTypeOK
    <3>2. CASE s = p
      <4>1. proc'[p].own = begun + 1 /\ begun + 1 \notin proc'[p].victims
        BY <2>2, <2>3, <2>4
      <4> QED BY <2>5, <3>1, <3>2, <4>1
    <3>3. CASE s # p
      <4>1. proc'[p].own = begun + 1 /\ proc'[s] = proc[s]
        BY <2>1, <2>2, <3>3
      <4>2. begun + 1 \notin proc'[s].victims
        BY <2>3, <2>4, <4>1
      <4>3. ~(proc'[s].pc \in Writing /\ proc'[s].own = begun + 1)
        BY <2>3, <2>4, <4>1
      <4> QED BY <2>5, <3>1, <4>1, <4>2, <4>3
    <3> QED BY <3>2, <3>3
  <2>6. CASE q # p
    <3>1. proc[q].pc \in Writing /\ proc'[q].own = proc[q].own
      BY <2>1, <2>6
    <3>2. backup'[proc[q].own] = backup[proc[q].own]
      BY <1>0, <1>4, <1>n, <2>3, <2>4, <3>1 DEF TypeInv, UpdateTypeOK, Names
    <3>3. CASE s = p
      BY <2>2, <2>3, <2>4, <2>6, <3>1, <3>2, <3>3 DEF TypeInv, Apart
    <3>4. CASE s # p
      BY <2>1, <2>6, <3>1, <3>2, <3>4 DEF TypeInv, Apart
    <3> QED BY <3>3, <3>4
  <2> QED BY <2>5, <2>6
<1> QED BY <1>5, <1>6, <1>7, <1>8 DEF TypeInv

\* CopyDone keeps the types.
LEMMA TypeCopyDone ==
  ASSUME TypeInv, NEW p \in Procs, CopyDone(p)
  PROVE  TypeInv'
<1> USE DEF CopyDone, At, Step
<1>0. proc[p] \in ProcStates /\ Carries(proc[p]) /\ begun \in Nat /\ \A b \in Names : backup[b] \in Backups
  BY DEF TypeInv, UpdateTypeOK, Fields
<1>n. proc[p].own \in Names /\ proc[p].pc \in Writing
  BY <1>0, BuildsAssumption DEF TypeInv, UpdateTypeOK, Names, Carries, Writing
<1>1. faults' \in 0..MaxFaults
  BY BuildsAssumption DEF TypeInv, UpdateTypeOK, Fault
<1>2. begun' \in 0..MaxBackups /\ begun' >= begun /\ clock' \in Nat
  BY BuildsAssumption DEF TypeInv, UpdateTypeOK
<1> DEFINE r == [proc[p] EXCEPT !.pc = "meta", !.copy = None]
<1>3. proc' = [proc EXCEPT ![p] = r] /\ r \in ProcStates
  <2>1. proc' = [proc EXCEPT ![p] = r]
    BY DEF TypeInv, UpdateTypeOK
  <2>2. r \in ProcStates
    BY <1>0, <1>n DEF TypeInv, UpdateTypeOK, ProcStates, Pcs, Carries, Names
  <2> QED BY <2>1, <2>2
<1> HIDE DEF r
<1>4. PICK f \in Backups : /\ backup' = [backup EXCEPT ![proc[p].own] = f]
                         /\ f.bin # Torn /\ f.sum = backup[proc[p].own].sum
  <2>1. proc[p].copy \in Builds
    BY <1>0 DEF Carries
  <2>2. [backup[proc[p].own] EXCEPT !.bin = proc[p].copy] \in Backups
    BY <1>0, <1>n, <2>1 DEF Backups, Files
  <2>3. backup' = [backup EXCEPT ![proc[p].own] = [backup[proc[p].own] EXCEPT !.bin = proc[p].copy]]
    OBVIOUS
  <2> QED BY <1>0, <1>n, <2>1, <2>2, <2>3, BuildsAssumption DEF Backups
<1>5. UpdateTypeOK'
  <2>1. backup' \in [Names -> Backups]
    BY <1>4 DEF TypeInv, UpdateTypeOK
  <2>2. proc' \in [Procs -> ProcStates]
    BY <1>3 DEF TypeInv, UpdateTypeOK
  <2> QED BY <1>1, <1>2, <2>1, <2>2 DEF TypeInv, UpdateTypeOK
<1>6. Fields'
  <2> SUFFICES ASSUME NEW q \in Procs PROVE Carries(proc[q])'
    BY DEF Fields
  <2>1. Carries(proc[q])
    BY DEF TypeInv, Fields
  <2>2. proc[q].pc = "put" => backup'[proc[q].own].bin # Torn
    BY <1>0, <1>4, <2>1, BuildsAssumption, <1>n DEF Carries, TypeInv, UpdateTypeOK, Names
  <2>3. CASE q # p
    BY <1>0, <1>2, <1>3, <2>1, <2>2, <2>3 DEF Carries, TypeInv, UpdateTypeOK
  <2>4. CASE q = p
    BY <1>0, <1>2, <1>3, <2>1, <2>2, <2>4 DEF r, Carries, TypeInv, UpdateTypeOK, ProcStates
  <2> QED BY <2>3, <2>4
<1>7. Fresh'
  BY <1>0, <1>2, <1>4, <1>n DEF TypeInv, UpdateTypeOK, Fresh, Names, Carries
<1>8. Apart'
  <2> SUFFICES ASSUME NEW q \in Procs, NEW s \in Procs, (proc[q].pc \in Writing)'
               PROVE  (/\ backup[proc[q].own].sum \in {None, Torn}
                       /\ proc[q].own \notin proc[s].victims
                       /\ proc[s].pc \in Writing /\ proc[s].own = proc[q].own => q = s)'
    BY DEF Apart
  <2> QED BY <1>0, <1>3, <1>4, <1>n DEF r, TypeInv, UpdateTypeOK, Apart, Fields, Carries, Fresh, Writing, Names, NoBackup, ProcStates
<1> QED BY <1>5, <1>6, <1>7, <1>8 DEF TypeInv

\* MetaOpen keeps the types.
LEMMA TypeMetaOpen ==
  ASSUME TypeInv, NEW p \in Procs, MetaOpen(p)
  PROVE  TypeInv'
<1> USE DEF MetaOpen, At, Step
<1>0. proc[p] \in ProcStates /\ Carries(proc[p]) /\ begun \in Nat /\ \A b \in Names : backup[b] \in Backups
  BY DEF TypeInv, UpdateTypeOK, Fields
<1>n. proc[p].own \in Names /\ proc[p].pc \in Writing
  BY <1>0, BuildsAssumption DEF TypeInv, UpdateTypeOK, Names, Carries, Writing
<1>1. faults' \in 0..MaxFaults
  BY BuildsAssumption DEF TypeInv, UpdateTypeOK, Fault
<1>2. begun' \in 0..MaxBackups /\ begun' >= begun /\ clock' \in Nat
  BY BuildsAssumption DEF TypeInv, UpdateTypeOK
<1> DEFINE r == [proc[p] EXCEPT !.pc = "saving"]
<1>3. proc' = [proc EXCEPT ![p] = r] /\ r \in ProcStates
  BY <1>0, <1>n, BuildsAssumption DEF TypeInv, UpdateTypeOK, ProcStates, Pcs, Carries, Names
<1> HIDE DEF r
<1>4. PICK f \in Backups : /\ backup' = [backup EXCEPT ![proc[p].own] = f]
                         /\ f.bin = backup[proc[p].own].bin /\ f.sum = Torn
  <2>0. PICK at \in Int : backup' = [backup EXCEPT ![proc[p].own] = [backup[proc[p].own] EXCEPT !.sum = Torn, !.at = at]]
    <3>1. clock' \in Int /\ -clock' \in Int
      BY <1>2
    <3> QED BY <1>n, <3>1 DEF TypeInv, UpdateTypeOK
  <2>2. [backup[proc[p].own] EXCEPT !.sum = Torn, !.at = at] \in Backups
    BY <1>0, <1>n DEF Backups, Files
  <2> QED BY <1>0, <1>n, <2>0, <2>2 DEF Backups
<1>5. UpdateTypeOK'
  <2>1. backup' \in [Names -> Backups]
    BY <1>4 DEF TypeInv, UpdateTypeOK
  <2>2. proc' \in [Procs -> ProcStates]
    BY <1>3 DEF TypeInv, UpdateTypeOK
  <2> QED BY <1>1, <1>2, <2>1, <2>2 DEF TypeInv, UpdateTypeOK
<1>6. Fields'
  <2> SUFFICES ASSUME NEW q \in Procs PROVE Carries(proc[q])'
    BY DEF Fields
  <2>1. Carries(proc[q])
    BY DEF TypeInv, Fields
  <2>2. proc[q].pc = "put" => backup'[proc[q].own].bin # Torn
    BY <1>0, <1>4, <2>1, BuildsAssumption, <1>n DEF Carries, TypeInv, UpdateTypeOK, Names
  <2>3. CASE q # p
    BY <1>0, <1>2, <1>3, <2>1, <2>2, <2>3 DEF Carries, TypeInv, UpdateTypeOK
  <2>4. CASE q = p
    BY <1>0, <1>2, <1>3, <2>1, <2>2, <2>4 DEF r, Carries, TypeInv, UpdateTypeOK, ProcStates
  <2> QED BY <2>3, <2>4
<1>7. Fresh'
  BY <1>0, <1>2, <1>4, <1>n DEF TypeInv, UpdateTypeOK, Fresh, Names, Carries
<1>8. Apart'
  <2> SUFFICES ASSUME NEW q \in Procs, NEW s \in Procs, (proc[q].pc \in Writing)'
               PROVE  (/\ backup[proc[q].own].sum \in {None, Torn}
                       /\ proc[q].own \notin proc[s].victims
                       /\ proc[s].pc \in Writing /\ proc[s].own = proc[q].own => q = s)'
    BY DEF Apart
  <2> QED BY <1>0, <1>3, <1>4, <1>n DEF r, TypeInv, UpdateTypeOK, Apart, Fields, Carries, Fresh, Writing, Names, NoBackup, ProcStates
<1> QED BY <1>5, <1>6, <1>7, <1>8 DEF TypeInv

\* MetaSave keeps the types.
LEMMA TypeMetaSave ==
  ASSUME TypeInv, NEW p \in Procs, MetaSave(p)
  PROVE  TypeInv'
<1> USE DEF MetaSave, At, Step
<1>0. proc[p] \in ProcStates /\ Carries(proc[p]) /\ begun \in Nat /\ \A b \in Names : backup[b] \in Backups
  BY DEF TypeInv, UpdateTypeOK, Fields
<1>n. proc[p].own \in Names /\ proc[p].pc \in Writing
  BY <1>0, BuildsAssumption DEF TypeInv, UpdateTypeOK, Names, Carries, Writing
<1>1. faults' \in 0..MaxFaults
  BY BuildsAssumption DEF TypeInv, UpdateTypeOK, Fault
<1>2. begun' \in 0..MaxBackups /\ begun' >= begun /\ clock' \in Nat
  BY BuildsAssumption DEF TypeInv, UpdateTypeOK
<1> DEFINE r == [proc[p] EXCEPT !.pc = "prune"]
<1>3. proc' = [proc EXCEPT ![p] = r] /\ r \in ProcStates
  BY <1>0, <1>n, BuildsAssumption DEF TypeInv, UpdateTypeOK, ProcStates, Pcs, Carries, Names
<1> HIDE DEF r
<1>4. PICK f \in Backups : /\ backup' = [backup EXCEPT ![proc[p].own] = f]
                         /\ f.bin = backup[proc[p].own].bin
  <2>1. proc[p].sum \in Builds
    BY <1>0 DEF Carries
  <2>2. [backup[proc[p].own] EXCEPT !.sum = proc[p].sum] \in Backups
    BY <1>0, <1>n, <2>1 DEF Backups, Files
  <2> QED BY <1>0, <1>n, <2>2 DEF Backups
<1>5. UpdateTypeOK'
  <2>1. backup' \in [Names -> Backups]
    BY <1>4 DEF TypeInv, UpdateTypeOK
  <2>2. proc' \in [Procs -> ProcStates]
    BY <1>3 DEF TypeInv, UpdateTypeOK
  <2> QED BY <1>1, <1>2, <2>1, <2>2 DEF TypeInv, UpdateTypeOK
<1>6. Fields'
  <2> SUFFICES ASSUME NEW q \in Procs PROVE Carries(proc[q])'
    BY DEF Fields
  <2>1. Carries(proc[q])
    BY DEF TypeInv, Fields
  <2>2. proc[q].pc = "put" => backup'[proc[q].own].bin # Torn
    BY <1>0, <1>4, <2>1, BuildsAssumption, <1>n DEF Carries, TypeInv, UpdateTypeOK, Names
  <2>3. CASE q # p
    BY <1>0, <1>2, <1>3, <2>1, <2>2, <2>3 DEF Carries, TypeInv, UpdateTypeOK
  <2>4. CASE q = p
    BY <1>0, <1>2, <1>3, <2>1, <2>2, <2>4 DEF r, Carries, TypeInv, UpdateTypeOK, ProcStates
  <2> QED BY <2>3, <2>4
<1>7. Fresh'
  BY <1>0, <1>2, <1>4, <1>n DEF TypeInv, UpdateTypeOK, Fresh, Names, Carries
<1>8. Apart'
  <2> SUFFICES ASSUME NEW q \in Procs, NEW s \in Procs, (proc[q].pc \in Writing)'
               PROVE  (/\ backup[proc[q].own].sum \in {None, Torn}
                       /\ proc[q].own \notin proc[s].victims
                       /\ proc[s].pc \in Writing /\ proc[s].own = proc[q].own => q = s)'
    BY DEF Apart
  <2> QED BY <1>0, <1>3, <1>4, <1>n DEF r, TypeInv, UpdateTypeOK, Apart, Fields, Carries, Fresh, Writing, Names, NoBackup, ProcStates
<1> QED BY <1>5, <1>6, <1>7, <1>8 DEF TypeInv

\* Remove keeps the types.
LEMMA TypeRemove ==
  ASSUME TypeInv, NEW p \in Procs, NEW b \in Names, Remove(p, b)
  PROVE  TypeInv'
<1> USE DEF Remove, At, Step
<1>0. proc[p] \in ProcStates /\ Carries(proc[p]) /\ begun \in Nat /\ \A c \in Names : backup[c] \in Backups
  BY DEF TypeInv, UpdateTypeOK, Fields
<1>1. faults' \in 0..MaxFaults
  BY BuildsAssumption DEF TypeInv, UpdateTypeOK, Fault
<1>2. begun' \in 0..MaxBackups /\ begun' >= begun /\ clock' \in Nat
  BY BuildsAssumption DEF TypeInv, UpdateTypeOK
<1> DEFINE r == [proc[p] EXCEPT !.victims = proc[p].victims \ {b}]
<1>3. proc' = [proc EXCEPT ![p] = r] /\ r \in ProcStates
  BY <1>0 DEF TypeInv, UpdateTypeOK, ProcStates, Pcs, Carries, Names
<1> HIDE DEF r
<1>4. PICK f \in Backups : /\ backup' = [backup EXCEPT ![b] = f]
                         /\ f.bin \in {None, backup[b].bin} /\ f.sum \in {None, backup[b].sum}
  <2>1. PICK f \in {NoBackup, backup[b], [backup[b] EXCEPT !.bin = None], [backup[b] EXCEPT !.sum = None]} : backup' = [backup EXCEPT ![b] = f]
    BY DEF TypeInv, UpdateTypeOK
  <2>2. f \in Backups /\ f.bin \in {None, backup[b].bin} /\ f.sum \in {None, backup[b].sum}
    BY <1>0, IdleType DEF Backups, Files, NoBackup
  <2> QED BY <2>1, <2>2
<1>5. UpdateTypeOK'
  <2>1. backup' \in [Names -> Backups]
    BY <1>4 DEF TypeInv, UpdateTypeOK
  <2>2. proc' \in [Procs -> ProcStates]
    BY <1>3 DEF TypeInv, UpdateTypeOK
  <2> QED BY <1>1, <1>2, <2>1, <2>2 DEF TypeInv, UpdateTypeOK
<1>6. Fields'
  <2> SUFFICES ASSUME NEW q \in Procs PROVE Carries(proc[q])'
    BY DEF Fields
  <2>1. Carries(proc[q])
    BY DEF TypeInv, Fields
  <2>2. proc[q].pc = "put" => backup'[proc[q].own].bin # Torn
    BY <1>0, <1>4, <2>1, BuildsAssumption DEF Carries, TypeInv, UpdateTypeOK, Names
  <2>3. CASE q # p
    BY <1>0, <1>2, <1>3, <2>1, <2>2, <2>3 DEF Carries, TypeInv, UpdateTypeOK
  <2>4. CASE q = p
    BY <1>0, <1>2, <1>3, <2>1, <2>2, <2>4 DEF r, Carries, TypeInv, UpdateTypeOK, ProcStates
  <2> QED BY <2>3, <2>4
<1>7. Fresh'
  BY <1>0, <1>2, <1>4 DEF TypeInv, UpdateTypeOK, Fresh, Names, Carries
<1>8. Apart'
  <2> SUFFICES ASSUME NEW q \in Procs, NEW s \in Procs, (proc[q].pc \in Writing)'
               PROVE  (/\ backup[proc[q].own].sum \in {None, Torn}
                       /\ proc[q].own \notin proc[s].victims
                       /\ proc[s].pc \in Writing /\ proc[s].own = proc[q].own => q = s)'
    BY DEF Apart
  <2> QED BY <1>0, <1>3, <1>4 DEF r, TypeInv, UpdateTypeOK, Apart, Fields, Carries, Fresh, Writing, Names, NoBackup, ProcStates
<1> QED BY <1>5, <1>6, <1>7, <1>8 DEF TypeInv

\* Every step keeps the types.
LEMMA TypeStep == TypeInv /\ [Next]_vars => TypeInv'
<1> SUFFICES ASSUME TypeInv, [Next]_vars PROVE TypeInv'
  OBVIOUS
<1>1. ASSUME NEW p \in Procs, Proc(p) PROVE TypeInv'
  BY <1>1, TypeBegin, TypeRemove, TypeChecksum, TypeCopyOpen, TypeCopyDone, TypeMetaOpen, TypeMetaSave, TypePruneList, TypePruneDone,
     TypeReplace, TypeVerify, TypeRollback, TypeRestore, TypePutCopy, TypePutRename, TypeCutOff DEF Proc
<1>2. CASE UNCHANGED vars
  BY <1>2 DEF vars, TypeInv, UpdateTypeOK, Fields, Carries, Fresh, Apart
<1> QED BY <1>1, <1>2 DEF Next

------------------------------------------------------------------------------
(* Pruning. *)

\* The backups are finite in number.
LEMMA ListedFinite ==
  ASSUME UpdateTypeOK
  PROVE  IsFiniteSet(Listed) /\ \A b : IsFiniteSet(Newer(b))
<1>1. IsFiniteSet(Names)
  BY BuildsAssumption, FS_Interval DEF Names
<1> QED BY <1>1, FS_Subset DEF Listed, Newer

\* More backups than are kept stay more when one is added, ...
LEMMA MoreKeep ==
  ASSUME UpdateTypeOK', NEW b, NEW S, S \subseteq Newer(b)', Cardinality(S) >= Retention
  PROVE  Cardinality(Newer(b)') >= Retention
<1>1. IsFiniteSet(Newer(b)')
  <2>1. IsFiniteSet(Names)
    BY BuildsAssumption, FS_Interval DEF Names
  <2> QED BY <2>1, FS_Subset DEF Listed, Newer
<1>2. IsFiniteSet(S) /\ Cardinality(S) <= Cardinality(Newer(b)')
  BY <1>1, FS_Subset
<1>3. Cardinality(S) \in Nat /\ Cardinality(Newer(b)') \in Nat
  BY <1>1, <1>2, FS_CardinalityType
<1> QED BY <1>2, <1>3, BuildsAssumption

\* What a process is to remove has, as long as it is listed, as many newer backups as
\* are kept.
VictimsOld ==
  \A p \in Procs : \A b \in proc[p].victims :
    b \in Listed => Cardinality(Newer(b)) >= Retention

PruneInv == TypeInv /\ VictimsOld

\* A step that writes at most a backup that is not listed, and gives no process more to
\* remove, leaves the listed ones, and what is to be removed old.
LEMMA WritesUnlisted ==
  ASSUME PruneInv, TypeInv', NEW n, n \notin Listed,
         \A b \in Names \ {n} : backup'[b] = backup[b],
         \A q \in Procs : n \notin proc[q].victims /\ proc'[q].victims \subseteq proc[q].victims
  PROVE  VictimsOld' /\ Listed \subseteq Listed'
<1>1. Listed \subseteq Listed' /\ \A b \in Listed : backup'[b] = backup[b]
  BY DEF Listed
<1>2. \A b \in Listed : Newer(b) \subseteq Newer(b)'
  BY <1>1 DEF Newer
<1>3. ASSUME NEW q \in Procs, NEW b \in proc'[q].victims, b \in Listed'
      PROVE  Cardinality(Newer(b)') >= Retention
  <2>1. b \in proc[q].victims /\ b # n
    BY <1>3
  <2>2. b \in Listed
    BY <1>3, <2>1 DEF Listed
  <2>3. Cardinality(Newer(b)) >= Retention
    BY <2>1, <2>2 DEF PruneInv, VictimsOld
  <2> QED BY <1>2, <2>2, <2>3, MoreKeep DEF TypeInv
<1> QED BY <1>1, <1>3 DEF VictimsOld

\* Removing what is old leaves the rest of what is to be removed old.
LEMMA RemovesOld ==
  ASSUME PruneInv, TypeInv', NEW p \in Procs, NEW n \in Names, Remove(p, n)
  PROVE  /\ VictimsOld'
         /\ \A b \in Listed : b \in Listed' \/ Cardinality(Newer(b)) >= Retention
<1>1. n \in proc[p].victims /\ \A b \in Names \ {n} : backup'[b] = backup[b]
  BY DEF Remove, PruneInv, TypeInv, UpdateTypeOK
<1>2. \A q \in Procs : proc'[q].victims \subseteq proc[q].victims
  BY DEF Remove, PruneInv, TypeInv, UpdateTypeOK, ProcStates
<1>3. backup' = backup \/ n \notin Listed'
  BY DEF Remove, PruneInv, TypeInv, UpdateTypeOK, Listed, NoBackup, Backups
<1>4. CASE backup' = backup
  BY <1>2, <1>4 DEF PruneInv, VictimsOld, Listed, Newer
<1>5. CASE n \notin Listed'
  <2>1. Listed' = Listed \ {n}
    BY <1>1, <1>5 DEF Listed
  <2>2. ASSUME NEW q \in Procs, NEW b \in proc'[q].victims, b \in Listed'
        PROVE  Cardinality(Newer(b)') >= Retention
    <3>1. b \in Listed /\ b \in proc[q].victims /\ backup'[b] = backup[b] /\ b \in Names
      BY <1>1, <1>2, <2>1, <2>2 DEF Listed
    <3>2. CASE n \in Newer(b)
      <4>1. n \in Listed /\ backup[n].at > backup[b].at
        BY <3>2 DEF Newer
      <4>2. Cardinality(Newer(n)) >= Retention
        BY <1>1, <4>1 DEF PruneInv, VictimsOld
      <4>3. Newer(n) \subseteq Newer(b)'
        <5> SUFFICES ASSUME NEW c \in Newer(n) PROVE c \in Newer(b)'
          OBVIOUS
        <5>1. c \in Listed /\ backup[c].at > backup[n].at
          BY DEF Newer
        <5>2. {backup[c].at, backup[n].at, backup[b].at} \subseteq Int
          BY <3>1, <5>1 DEF PruneInv, TypeInv, UpdateTypeOK, Backups, Listed
        <5>3. c # n /\ backup[c].at > backup[b].at
          BY <4>1, <5>1, <5>2
        <5>4. c \in Listed' /\ backup'[c] = backup[c]
          BY <1>1, <2>1, <5>1, <5>3 DEF Listed
        <5> QED BY <3>1, <5>3, <5>4 DEF Newer
      <4> QED BY <4>2, <4>3, MoreKeep DEF TypeInv
    <3>3. CASE n \notin Newer(b)
      <4>1. Cardinality(Newer(b)) >= Retention
        BY <3>1 DEF PruneInv, VictimsOld
      <4>2. Newer(b) \subseteq Newer(b)'
        BY <1>1, <2>1, <3>1, <3>3 DEF Newer, Listed
      <4> QED BY <4>1, <4>2, MoreKeep DEF TypeInv
    <3> QED BY <3>2, <3>3
  <2>3. \A b \in Listed : b \in Listed' \/ Cardinality(Newer(b)) >= Retention
    BY <1>1, <2>1 DEF PruneInv, VictimsOld
  <2> QED BY <2>2, <2>3 DEF VictimsOld
<1> QED BY <1>3, <1>4, <1>5

\* Every step leaves what is to be removed old, and loses no other backup.
LEMMA PruneStep ==
  ASSUME PruneInv, [Next]_vars
  PROVE  /\ PruneInv'
         /\ \A b \in Listed : b \in Listed' \/ Cardinality(Newer(b)) >= Retention
<1>0. TypeInv /\ TypeInv' /\ proc \in [Procs -> ProcStates]
  BY TypeStep DEF PruneInv, TypeInv, UpdateTypeOK
<1> DEFINE Goal == VictimsOld' /\ \A b \in Listed : b \in Listed' \/ Cardinality(Newer(b)) >= Retention
<1>1. ASSUME backup' = backup, \A q \in Procs : proc'[q].victims \subseteq proc[q].victims
      PROVE  Goal
  BY <1>1 DEF PruneInv, VictimsOld, Listed, Newer
<1>2. ASSUME NEW p \in Procs, Proc(p) PROVE Goal
  <2>0. proc[p] \in ProcStates
    BY <1>0
  <2>1. CASE \/ \E new \in Builds : Begin(p, new)
             \/ Checksum(p) \/ PruneDone(p) \/ Replace(p) \/ Verify(p) \/ Rollback(p) \/ Restore(p)
             \/ PutCopy(p) \/ PutRename(p) \/ CutOff(p)
    <3>1. backup' = backup
      BY <2>1 DEF Begin, Checksum, PruneDone, Replace, Verify, Rollback, Restore, PutCopy, PutRename, CutOff
    <3>2. \A q \in Procs : proc'[q].victims \subseteq proc[q].victims
      <4>1. Idle.victims = {} /\ \A r \in ProcStates : [r EXCEPT !.pc = "sum"].victims = r.victims
        BY DEF Idle, ProcStates
      <4>2. CASE (\E new \in Builds : Begin(p, new)) \/ Rollback(p)
        BY <1>0, <4>2 DEF Begin, Rollback, Idle
      <4>3. CASE Checksum(p) \/ PruneDone(p) \/ Replace(p) \/ Verify(p)
        BY <1>0, <4>3 DEF Checksum, PruneDone, Replace, Verify, Idle, Step, Leave, ProcStates
      <4>4. CASE Restore(p) \/ PutCopy(p) \/ PutRename(p) \/ CutOff(p)
        BY <1>0, <4>4 DEF Restore, PutCopy, PutRename, CutOff, Idle, Step, Leave, ProcStates
      <4> QED BY <2>1, <4>2, <4>3, <4>4
    <3> QED BY <1>1, <3>1, <3>2
  <2>2. CASE PruneList(p)
    <3>1. backup' = backup /\ \A q \in Procs \ {p} : proc'[q].victims = proc[q].victims
      BY <1>0, <2>2 DEF PruneList
    <3>2. proc'[p].victims = {b \in Listed : Cardinality(Newer(b)) >= Retention}
      BY <1>0, <2>0, <2>2 DEF PruneList, ProcStates
    <3> QED BY <3>1, <3>2 DEF PruneInv, VictimsOld, Listed, Newer
  <2>3. CASE CopyOpen(p)
    <3>1. begun + 1 \in Names /\ backup[begun + 1] = NoBackup
      BY <1>0, <2>3, BuildsAssumption DEF CopyOpen, TypeInv, UpdateTypeOK, Fresh, Names
    <3>2. begun + 1 \notin Listed /\ \A q \in Procs : begun + 1 \notin proc[q].victims
      BY <1>0, <3>1 DEF Listed, NoBackup, TypeInv, UpdateTypeOK, Fields, Carries
    <3>3. /\ \A b \in Names \ {begun + 1} : backup'[b] = backup[b]
          /\ \A q \in Procs : proc'[q].victims \subseteq proc[q].victims
      BY <1>0, <2>3 DEF CopyOpen, TypeInv, UpdateTypeOK, ProcStates
    <3> QED BY <1>0, <3>2, <3>3, WritesUnlisted
  <2>4. CASE CopyDone(p) \/ MetaOpen(p) \/ MetaSave(p)
    <3>1. proc[p].pc \in Writing
      BY <2>4 DEF CopyDone, MetaOpen, MetaSave, At, Writing
    <3>2. proc[p].own \notin Listed /\ \A q \in Procs : proc[p].own \notin proc[q].victims
      BY <1>0, <3>1 DEF TypeInv, Apart, Listed
    <3>3. /\ \A b \in Names \ {proc[p].own} : backup'[b] = backup[b]
          /\ \A q \in Procs : proc'[q].victims \subseteq proc[q].victims
      <4>1. backup \in [Names -> Backups]
        BY <1>0 DEF TypeInv, UpdateTypeOK
      <4>2. CASE CopyDone(p)
        BY <1>0, <2>0, <4>1, <4>2 DEF CopyDone, ProcStates
      <4>3. CASE MetaOpen(p)
        BY <1>0, <2>0, <4>1, <4>3 DEF MetaOpen, Step, ProcStates
      <4>4. CASE MetaSave(p)
        BY <1>0, <2>0, <4>1, <4>4 DEF MetaSave, Step, ProcStates
      <4> QED BY <2>4, <4>2, <4>3, <4>4
    <3> QED BY <1>0, <3>2, <3>3, WritesUnlisted
  <2>5. CASE \E b \in Names : Remove(p, b)
    BY <1>0, <2>5, RemovesOld
  <2> QED BY <1>2, <2>1, <2>2, <2>3, <2>4, <2>5 DEF Proc
<1>3. CASE UNCHANGED vars
  <2>1. backup' = backup /\ proc' = proc
    BY <1>3 DEF vars
  <2>2. \A q \in Procs : proc'[q].victims \subseteq proc[q].victims
    BY <2>1
  <2> QED BY <1>0, <1>1, <2>1, <2>2 DEF PruneInv
<1> QED BY <1>0, <1>2, <1>3 DEF Next, PruneInv

\* Processes, files and times have their types, and a name belongs to whoever writes its
\* backup.
THEOREM UpdateTypes == Spec => []UpdateTypeOK
<1>1. TypeInv => UpdateTypeOK
  BY DEF TypeInv
<1> QED BY <1>1, TypeInit, TypeStep, PTL DEF Spec

\* Whatever the retention, and however many processes prune at once, with clocks set back
\* or not: no backup is lost that has fewer newer ones than are kept.
THEOREM NewestAreKept == Spec => NewestKept
<1>1. Init => PruneInv
  BY TypeInit DEF Init, PruneInv, VictimsOld, Idle
<1>2. PruneInv /\ [Next]_vars => PruneInv'
  BY PruneStep
<1>3. PruneInv /\ [Next]_vars =>
        [\A b \in Listed : b \in Listed' \/ Cardinality(Newer(b)) >= Retention]_vars
  BY PruneStep
<1> QED BY <1>1, <1>2, <1>3, PTL DEF Spec, NewestKept

------------------------------------------------------------------------------
(* What is listed. *)

\* As long as no two processes ran at once, a process that is not idle is alone, and the
\* checksum it computed is that of what it copies.
Alone ==
  ~overlapped =>
    /\ \A p, q \in Procs : ~At(p, "idle") /\ ~At(q, "idle") => p = q
    /\ \A p \in Procs :
         /\ proc[p].pc = "copy" => proc[p].sum = target
         /\ proc[p].pc = "copying" => proc[p].sum = proc[p].copy
         /\ proc[p].pc \in {"meta", "saving"} => backup[proc[p].own].bin = proc[p].sum

IntactInv == TypeInv /\ Alone /\ ListedIntact

\* A process that works alone: what it leaves as it is.
LEMMA AloneStep ==
  ASSUME IntactInv, NEW p \in Procs, Proc(p), ~overlapped'
  PROVE  ~overlapped /\ \A q \in Procs \ {p} : At(q, "idle") /\ proc'[q] = proc[q]
<1>0. proc \in [Procs -> ProcStates]
  BY DEF IntactInv, TypeInv, UpdateTypeOK
<1>a. ~overlapped
  <2>1. CASE (\E new \in Builds : Begin(p, new)) \/ Rollback(p)
    <3>1. overlapped' = (overlapped \/ \E q \in Procs \ {p} : ~At(q, "idle"))
      BY <2>1 DEF Begin, Rollback
    <3> QED BY <3>1
  <2>2. CASE overlapped' = overlapped
    BY <2>2
  <2> QED BY <2>1, <2>2 DEF Proc, Checksum, CopyOpen, CopyDone, MetaOpen, MetaSave, PruneList,
    Remove, PruneDone, Replace, Verify, Restore, PutCopy, PutRename, CutOff
<1>1. CASE (\E new \in Builds : Begin(p, new)) \/ Rollback(p)
  BY <1>0, <1>a, <1>1 DEF Begin, Rollback, At
<1>2. CASE ~At(p, "idle")
  <2>1. \A q \in Procs \ {p} : At(q, "idle")
    BY <1>2, <1>a DEF IntactInv, Alone
  <2>2. \A q \in Procs \ {p} : proc'[q] = proc[q]
    BY <1>0 DEF Proc, Begin, Checksum, CopyOpen, CopyDone, MetaOpen, MetaSave, PruneList, Remove,
      PruneDone, Replace, Verify, Rollback, Restore, PutCopy, PutRename, CutOff, Step, Leave
  <2> QED BY <1>a, <2>1, <2>2
<1>3. (\E new \in Builds : Begin(p, new)) \/ Rollback(p) \/ ~At(p, "idle")
  BY DEF Proc, Checksum, CopyOpen, CopyDone, MetaOpen, MetaSave, PruneList, Remove, PruneDone,
    Replace, Verify, Restore, PutCopy, PutRename, CutOff, At
<1> QED BY <1>1, <1>2, <1>3

\* Every step of a process that is alone keeps the checksums.
LEMMA IntactStep ==
  ASSUME IntactInv, [Next]_vars
  PROVE  IntactInv'
<1>0. TypeInv /\ TypeInv' /\ proc \in [Procs -> ProcStates] /\ backup \in [Names -> Backups]
  BY TypeStep DEF IntactInv, TypeInv, UpdateTypeOK
<1>1. ASSUME NEW p \in Procs, Proc(p), ~overlapped' PROVE Alone' /\ ListedIntact'
  <2>1. ~overlapped /\ \A q \in Procs \ {p} : At(q, "idle") /\ proc'[q] = proc[q]
    BY <1>1, AloneStep
  <2>0. ~overlapped /\ proc[p] \in ProcStates /\ Alone /\ \A b \in Listed : Intact(b, backup[b].sum)
    BY <1>0, <2>1 DEF IntactInv, ListedIntact
  <2>2. ASSUME /\ proc'[p].pc = "copy" => proc'[p].sum = target'
               /\ proc'[p].pc = "copying" => proc'[p].sum = proc'[p].copy
               /\ proc'[p].pc \in {"meta", "saving"} => backup'[proc'[p].own].bin = proc'[p].sum
        PROVE  Alone'
    BY <2>1, <2>2 DEF Alone, At
  <2>3. ASSUME backup' = backup PROVE ListedIntact'
    BY <2>0, <2>3 DEF ListedIntact, Listed, Intact
  <2>4. ASSUME NEW n, n \notin Listed \/ n \notin Listed', \A b \in Names \ {n} : backup'[b] = backup[b],
               n \in Listed' => Intact(n, backup[n].sum)'
        PROVE  ListedIntact'
    BY <2>0, <2>4 DEF ListedIntact, Listed, Intact
  <2>5. CASE Checksum(p)
    <3>1. backup' = backup /\ proc'[p].pc = "copy" /\ proc'[p].sum = target'
      BY <1>0, <2>0, <2>5 DEF Checksum, ProcStates
    <3> QED BY <2>2, <2>3, <3>1
  <2>6. CASE CopyOpen(p)
    <3>1. proc'[p].pc = "copying" /\ proc'[p].sum = proc[p].sum /\ proc'[p].copy = target
      BY <1>0, <2>0, <2>6 DEF CopyOpen, ProcStates
    <3>2. proc[p].sum = target
      BY <2>0, <2>6 DEF CopyOpen, At, Alone
    <3>3. backup[begun + 1] = NoBackup /\ begun + 1 \in Names
      BY <1>0, <2>6, BuildsAssumption DEF CopyOpen, TypeInv, UpdateTypeOK, Fresh, Names
    <3>4. \A b \in Names \ {begun + 1} : backup'[b] = backup[b]
      BY <1>0, <2>6 DEF CopyOpen
    <3>5. begun + 1 \notin Listed'
      BY <1>0, <2>6, <3>3 DEF CopyOpen, Listed, NoBackup
    <3> QED BY <2>2, <2>4, <3>1, <3>2, <3>4, <3>5
  <2>7. CASE CopyDone(p) \/ MetaOpen(p) \/ MetaSave(p)
    <3>1. proc[p].pc \in Writing /\ proc[p].own \in Names
      <4>1. proc[p].pc \in Writing
        BY <2>7 DEF CopyDone, MetaOpen, MetaSave, At, Writing
      <4>2. proc[p].own \in 1..begun
        BY <1>0, <4>1 DEF Writing, TypeInv, Fields, Carries
      <4> QED BY <1>0, <4>1, <4>2, BuildsAssumption DEF TypeInv, UpdateTypeOK, Names
    <3>2. proc[p].own \notin Listed
      BY <1>0, <3>1 DEF TypeInv, Apart, Listed
    <3>3. \A b \in Names \ {proc[p].own} : backup'[b] = backup[b]
      BY <1>0, <2>7 DEF CopyDone, MetaOpen, MetaSave
    <3>4. proc'[p].own = proc[p].own /\ proc'[p].sum = proc[p].sum
      BY <1>0, <2>0, <2>7 DEF CopyDone, MetaOpen, MetaSave, Step, ProcStates
    <3>5. backup'[proc[p].own].bin = proc[p].sum
      <4>1. CASE CopyDone(p)
        <5>1. proc[p].sum = proc[p].copy
          BY <2>0, <4>1 DEF CopyDone, At, Alone
        <5> QED BY <1>0, <3>1, <4>1, <5>1 DEF CopyDone, Backups
      <4>2. CASE MetaOpen(p) \/ MetaSave(p)
        <5>1. backup[proc[p].own].bin = proc[p].sum
          BY <2>0, <4>2 DEF MetaOpen, MetaSave, At, Alone
        <5> QED BY <1>0, <3>1, <4>2, <5>1 DEF MetaOpen, MetaSave, Backups
      <4> QED BY <2>7, <4>1, <4>2
    <3>6. proc'[p].pc \in {"meta", "saving", "prune"}
      BY <1>0, <2>0, <2>7 DEF CopyDone, MetaOpen, MetaSave, Step, ProcStates
    <3>7. proc[p].own \in Listed' => backup'[proc[p].own].sum = proc[p].sum
      <4>1. CASE MetaSave(p)
        BY <1>0, <3>1, <4>1 DEF MetaSave, Backups
      <4>2. CASE CopyDone(p) \/ MetaOpen(p)
        BY <1>0, <3>1, <3>2, <4>2 DEF CopyDone, MetaOpen, Backups, Listed, TypeInv, Apart
      <4> QED BY <2>7, <4>1, <4>2
    <3> QED BY <2>2, <2>4, <3>2, <3>3, <3>4, <3>5, <3>6, <3>7 DEF Intact
  <2>8. CASE \E b \in Names : Remove(p, b)
    <3>1. PICK b \in Names : Remove(p, b)
      BY <2>8
    <3>2. backup' = backup \/ (b \notin Listed' /\ \A c \in Names \ {b} : backup'[c] = backup[c])
      BY <1>0, <3>1 DEF Remove, Listed, NoBackup, Backups
    <3>3. proc'[p].pc = "removing"
      BY <1>0, <2>0, <3>1 DEF Remove, At, ProcStates
    <3> QED BY <2>2, <2>3, <2>4, <3>2, <3>3
  <2>9. CASE \/ \E new \in Builds : Begin(p, new)
             \/ PruneList(p) \/ PruneDone(p) \/ Replace(p) \/ Verify(p) \/ Rollback(p) \/ Restore(p)
             \/ PutCopy(p) \/ PutRename(p) \/ CutOff(p)
    <3>1. backup' = backup
      BY <2>9 DEF Begin, PruneList, PruneDone, Replace, Verify, Rollback, Restore, PutCopy, PutRename, CutOff
    <3>2. proc'[p].pc \notin {"copy", "copying", "meta", "saving"}
      <4>1. CASE PruneList(p) \/ PruneDone(p) \/ Replace(p)
        BY <1>0, <2>0, <4>1 DEF PruneList, PruneDone, Replace, Step, ProcStates
      <4>3. CASE \E new \in Builds : Begin(p, new)
        BY <1>0, <4>3 DEF Begin, Idle
      <4>4. CASE Rollback(p)
        BY <1>0, <4>4 DEF Rollback, Idle
      <4>2. CASE Verify(p) \/ Restore(p) \/ PutCopy(p) \/ PutRename(p) \/ CutOff(p)
        BY <1>0, <2>0, <4>2 DEF Verify, Restore, PutCopy, PutRename, CutOff, Idle, Step, Leave, ProcStates
      <4> QED BY <2>9, <4>1, <4>2, <4>3, <4>4
    <3> QED BY <2>2, <2>3, <3>1, <3>2
  <2> QED BY <1>1, <2>5, <2>6, <2>7, <2>8, <2>9 DEF Proc
<1>2. CASE UNCHANGED vars
  BY <1>2 DEF vars, IntactInv, TypeInv, UpdateTypeOK, Fields, Carries, Fresh, Apart, Alone, At,
    ListedIntact, Listed, Intact
<1>3. CASE overlapped'
  BY <1>0, <1>3 DEF IntactInv, Alone, ListedIntact
<1> QED BY <1>0, <1>1, <1>2, <1>3 DEF Next, IntactInv

\* A process after another, cut off anywhere or not: what is listed can be restored.
THEOREM ListedIsIntact == Spec => []ListedIntact
<1>1. Init => IntactInv
  BY TypeInit DEF Init, IntactInv, Alone, At, Idle, ListedIntact, Listed, NoBackup
<1>2. IntactInv /\ [Next]_vars => IntactInv'
  BY IntactStep
<1>3. IntactInv => ListedIntact
  BY DEF IntactInv
<1> QED BY <1>1, <1>2, <1>3, PTL DEF Spec
------------------------------------------------------------------------------
(* What can be rolled back to. *)

\* The listed backups of builds that work and of those that do not.
Good == {b \in Listed : backup[b].sum \in Works}
Bad == {b \in Listed : backup[b].sum \notin Works}

\* A working build can be rolled back to, or as many broken ones as are kept are newer.
Safe == Good # {} \/ Cardinality(Bad) >= Retention

\* What a step does to the backups that are listed: nothing, or one more, or one less.
LEMMA ListedSteps ==
  ASSUME TypeInv, TypeInv', NEW p \in Procs, Proc(p)
  PROVE  \/ Listed' = Listed /\ \A b \in Listed : backup'[b] = backup[b]
         \/ /\ MetaSave(p) /\ proc[p].own \in Names \ Listed
            /\ Listed \subseteq Listed' /\ Listed' \subseteq Listed \cup {proc[p].own}
            /\ \A b \in Listed : backup'[b] = backup[b]
            /\ backup'[proc[p].own].sum = proc[p].sum
         \/ \E n \in Listed : /\ n \in proc[p].victims /\ Listed' = Listed \ {n}
                              /\ \A b \in Listed' : backup'[b] = backup[b]
                              /\ Remove(p, n)
<1>0. proc[p] \in ProcStates /\ backup \in [Names -> Backups] /\ proc \in [Procs -> ProcStates]
  BY DEF TypeInv, UpdateTypeOK
<1>1. CASE backup' = backup
  BY <1>1 DEF Listed
<1>2. CASE CopyOpen(p)
  <2>1. begun + 1 \in Names /\ backup[begun + 1] = NoBackup
    BY <1>2, BuildsAssumption DEF CopyOpen, TypeInv, UpdateTypeOK, Fresh, Names
  <2>2. begun + 1 \notin Listed /\ begun + 1 \notin Listed' /\ \A b \in Names \ {begun + 1} : backup'[b] = backup[b]
    BY <1>0, <1>2, <2>1 DEF CopyOpen, Listed, NoBackup
  <2> QED BY <2>2 DEF Listed
<1>3. CASE CopyDone(p) \/ MetaOpen(p) \/ MetaSave(p)
  <2>1. proc[p].pc \in Writing
    BY <1>3 DEF CopyDone, MetaOpen, MetaSave, At, Writing
  <2>2. proc[p].own \in 1..begun /\ proc[p].own \notin Listed
    BY <2>1 DEF Writing, TypeInv, Fields, Carries, Apart, Listed
  <2>3. proc[p].own \in Names
    BY <2>2, BuildsAssumption DEF TypeInv, UpdateTypeOK, Names
  <2>4. \A b \in Names \ {proc[p].own} : backup'[b] = backup[b]
    BY <1>0, <1>3 DEF CopyDone, MetaOpen, MetaSave
  <2>5. CASE MetaSave(p)
    <3>1. backup'[proc[p].own].sum = proc[p].sum
      BY <1>0, <2>3, <2>5 DEF MetaSave, Backups
    <3> QED BY <2>2, <2>3, <2>4, <2>5, <3>1 DEF Listed
  <2>6. CASE CopyDone(p) \/ MetaOpen(p)
    <3>1. backup'[proc[p].own].sum \in {backup[proc[p].own].sum, Torn}
      BY <1>0, <2>3, <2>6 DEF CopyDone, MetaOpen, Backups
    <3>2. backup[proc[p].own].sum \in {None, Torn}
      BY <2>1 DEF TypeInv, Apart
    <3> QED BY <2>2, <2>4, <3>1, <3>2 DEF Listed
  <2> QED BY <1>3, <2>5, <2>6
<1>4. CASE \E n \in Names : Remove(p, n)
  <2>1. PICK n \in Names : Remove(p, n)
    BY <1>4
  <2>2. n \in proc[p].victims /\ \A b \in Names \ {n} : backup'[b] = backup[b]
    BY <1>0, <2>1 DEF Remove
  <2>3. backup' = backup \/ n \notin Listed'
    BY <1>0, <2>1 DEF Remove, Listed, NoBackup, Backups
  <2>4. CASE n \in Listed /\ n \notin Listed'
    BY <2>1, <2>2, <2>4 DEF Listed
  <2>5. CASE n \notin Listed /\ n \notin Listed'
    BY <2>2, <2>5 DEF Listed
  <2> QED BY <1>1, <2>3, <2>4, <2>5
<1>5. backup' = backup \/ CopyOpen(p) \/ CopyDone(p) \/ MetaOpen(p) \/ MetaSave(p) \/ \E n \in Names : Remove(p, n)
  BY DEF Proc, Begin, Checksum, PruneList, PruneDone, Replace, Verify, Rollback, Restore, PutCopy, PutRename, CutOff
<1> QED BY <1>1, <1>2, <1>3, <1>4, <1>5

\* The broken ones stay as many when no listed one goes.
LEMMA SafeGrows ==
  ASSUME TypeInv, TypeInv', Safe, Listed \subseteq Listed', \A b \in Listed : backup'[b] = backup[b]
  PROVE  Safe'
<1>1. CASE Good # {}
  BY <1>1 DEF Safe, Good
<1>2. CASE Cardinality(Bad) >= Retention
  <2>1. IsFiniteSet(Bad') /\ Bad \subseteq Bad'
    <3>1. IsFiniteSet(Names) /\ Bad' \subseteq Names
      BY BuildsAssumption, FS_Interval DEF Names, Bad, Listed
    <3>2. Bad \subseteq Bad'
      BY DEF Bad
    <3> QED BY <3>1, <3>2, FS_Subset
  <2>2. IsFiniteSet(Bad) /\ Cardinality(Bad) <= Cardinality(Bad')
    BY <2>1, FS_Subset
  <2>3. Cardinality(Bad) \in Nat /\ Cardinality(Bad') \in Nat
    BY <2>1, <2>2, FS_CardinalityType
  <2> QED BY <1>2, <2>2, <2>3, BuildsAssumption DEF Safe
<1> QED BY <1>1, <1>2 DEF Safe

\* A prune leaves a working build, or as many broken ones as are kept.
LEMMA PruneLeavesSafe ==
  ASSUME PruneInv, TypeInv', NEW p \in Procs, NEW n \in Listed, n \in proc[p].victims,
         Listed' = Listed \ {n}, \A b \in Listed' : backup'[b] = backup[b]
  PROVE  Safe'
<1>1. Cardinality(Newer(n)) >= Retention
  BY DEF PruneInv, VictimsOld
<1>2. Newer(n) \subseteq Listed'
  BY DEF Newer, Listed, PruneInv, TypeInv, UpdateTypeOK, Backups
<1>3. CASE \E b \in Newer(n) : backup[b].sum \in Works
  BY <1>2, <1>3 DEF Safe, Good
<1>4. CASE \A b \in Newer(n) : backup[b].sum \notin Works
  <2>1. Newer(n) \subseteq Bad'
    BY <1>2, <1>4 DEF Bad
  <2>2. IsFiniteSet(Names)
    BY BuildsAssumption, FS_Interval DEF Names
  <2>3. IsFiniteSet(Bad')
    BY <2>2, FS_Subset DEF Bad, Listed
  <2>4. IsFiniteSet(Newer(n)) /\ Cardinality(Newer(n)) <= Cardinality(Bad')
    BY <2>1, <2>3, FS_Subset
  <2>5. Cardinality(Newer(n)) \in Nat /\ Cardinality(Bad') \in Nat
    BY <2>3, <2>4, FS_CardinalityType
  <2> QED BY <1>1, <2>4, <2>5, BuildsAssumption DEF Safe
<1> QED BY <1>3, <1>4

\* As long as no two processes ran at once: a broken build is installed, backed up or
\* about to be only when it can be rolled back from.
Recovers ==
  ~overlapped =>
    /\ target \notin Works \/ Bad # {} => Safe
    /\ \A p \in Procs :
         /\ proc[p].pc \in {"prune", "removing", "replace"} => Safe
         /\ proc[p].pc \notin {"idle", "sum"} /\ proc[p].sum \notin Works => Safe
         /\ proc[p].pc = "put" => backup[proc[p].own].bin = proc[p].sum
         /\ proc[p].pc = "rename" /\ proc[p].copy \notin Works => Safe

RecoverInv == IntactInv /\ PruneInv /\ Recovers

\* Every step of a process that is alone keeps the way back.
LEMMA RecoverStep ==
  ASSUME RecoverInv, [Next]_vars
  PROVE  RecoverInv'
<1>0. TypeInv /\ IntactInv' /\ PruneInv' /\ TypeInv' /\ proc \in [Procs -> ProcStates] /\ IntactInv
  BY IntactStep, PruneStep DEF RecoverInv, IntactInv, PruneInv, TypeInv, UpdateTypeOK
<1>1. ASSUME NEW p \in Procs, Proc(p), ~overlapped' PROVE Recovers'
  <2>1. ~overlapped /\ \A q \in Procs \ {p} : At(q, "idle") /\ proc'[q] = proc[q]
    BY <1>0, <1>1, AloneStep
  <2>2. /\ target \notin Works \/ Bad # {} => Safe
        /\ proc[p].pc \in {"prune", "removing", "replace"} => Safe
        /\ proc[p].pc \notin {"idle", "sum"} /\ proc[p].sum \notin Works => Safe
        /\ proc[p].pc = "put" => backup[proc[p].own].bin = proc[p].sum
        /\ proc[p].pc = "rename" /\ proc[p].copy \notin Works => Safe
    BY <2>1 DEF RecoverInv, Recovers
  <2>3. proc[p] \in ProcStates /\ proc'[p] \in ProcStates
    BY <1>0 DEF TypeInv, UpdateTypeOK
  <2>p. \A q \in Procs \ {p} : proc'[q].pc = "idle"
    BY <2>1 DEF At
  <2>4. ASSUME /\ target' \notin Works \/ Bad' # {} => Safe'
               /\ proc'[p].pc \in {"prune", "removing", "replace"} => Safe'
               /\ proc'[p].pc \notin {"idle", "sum"} /\ proc'[p].sum \notin Works => Safe'
               /\ proc'[p].pc = "put" => backup'[proc'[p].own].bin = proc'[p].sum
               /\ proc'[p].pc = "rename" /\ proc'[p].copy \notin Works => Safe'
        PROVE  Recovers'
    <3>1. ASSUME NEW q \in Procs
          PROVE  /\ proc'[q].pc \in {"prune", "removing", "replace"} => Safe'
                 /\ proc'[q].pc \notin {"idle", "sum"} /\ proc'[q].sum \notin Works => Safe'
                 /\ proc'[q].pc = "put" => backup'[proc'[q].own].bin = proc'[q].sum
                 /\ proc'[q].pc = "rename" /\ proc'[q].copy \notin Works => Safe'
      <4>1. CASE q = p
        BY <2>4, <4>1
      <4>2. CASE q # p
        <5>1. proc'[q].pc = "idle"
          BY <2>p, <4>2
        <5> QED BY <5>1
      <4> QED BY <4>1, <4>2
    <3> QED BY <2>4, <3>1 DEF Recovers
  <2>5. CASE \E n \in Listed :
               /\ n \in proc[p].victims /\ Listed' = Listed \ {n}
               /\ \A b \in Listed' : backup'[b] = backup[b]
               /\ Remove(p, n)
    <3>1. Safe'
      BY <1>0, <2>5, PruneLeavesSafe DEF RecoverInv
    <3>2. proc'[p].pc = "removing"
      <4>1. PICK n \in Listed : Remove(p, n)
        BY <2>5
      <4>2. proc[p].pc = "removing" /\ proc' = [proc EXCEPT ![p].victims = proc[p].victims \ {n}]
        BY <4>1 DEF Remove, At
      <4> QED BY <1>0, <2>3, <4>2 DEF ProcStates
    <3> QED BY <2>4, <3>1, <3>2
  <2>6. CASE /\ MetaSave(p) /\ proc[p].own \in Names \ Listed
             /\ Listed \subseteq Listed' /\ Listed' \subseteq Listed \cup {proc[p].own}
             /\ \A b \in Listed : backup'[b] = backup[b]
             /\ backup'[proc[p].own].sum = proc[p].sum
    <3>1. proc'[p].pc = "prune" /\ proc[p].pc = "saving"
      BY <1>0, <2>3, <2>6 DEF MetaSave, Step, At, ProcStates
    <3>2. Safe'
      <4>1. CASE Safe
        BY <1>0, <2>6, <4>1, SafeGrows
      <4>2. CASE ~Safe
        <5>1. proc[p].sum \in Works
          BY <2>2, <3>1, <4>2
        <5>2. backup[proc[p].own].bin = proc[p].sum
          BY <2>1, <3>1, <1>0 DEF IntactInv, Alone
        <5>3. backup'[proc[p].own].bin = proc[p].sum
          BY <1>0, <2>6, <5>2 DEF MetaSave, TypeInv, UpdateTypeOK, Backups
        <5>4. proc[p].sum \notin {None, Torn}
          BY <5>1, BuildsAssumption
        <5>5. proc[p].own \in Good'
          BY <2>6, <5>1, <5>3, <5>4 DEF Good, Listed
        <5> QED BY <5>5 DEF Safe
      <4> QED BY <4>1, <4>2
    <3> QED BY <2>4, <3>1, <3>2
  <2>7. CASE Listed' = Listed /\ \A b \in Listed : backup'[b] = backup[b]
    <3>1. Safe' <=> Safe
      BY <2>7 DEF Safe, Good, Bad
    <3>2. Bad' = Bad
      BY <2>7 DEF Bad
    <3>3. proc'[p].pc = "put" => backup'[proc'[p].own].bin = proc'[p].sum
      <4>1. CASE Restore(p)
        BY <1>0, <2>3, <4>1 DEF Restore, Intact, Step, Leave, Idle, ProcStates
      <4>2. CASE (\E new \in Builds : Begin(p, new)) \/ Rollback(p) \/ PutCopy(p) \/ PutRename(p) \/ CutOff(p) \/ Verify(p)
        <5>1. CASE \E new \in Builds : Begin(p, new)
          BY <1>0, <5>1 DEF Begin, Idle
        <5>2. CASE Rollback(p)
          BY <1>0, <5>2 DEF Rollback, Idle
        <5>3. CASE PutCopy(p)
          BY <1>0, <2>3, <5>3 DEF PutCopy, Leave, Idle, ProcStates
        <5>4. CASE PutRename(p) \/ CutOff(p) \/ Verify(p)
          BY <1>0, <2>3, <5>4 DEF PutRename, CutOff, Verify, Step, Leave, Idle, ProcStates
        <5> QED BY <4>2, <5>1, <5>2, <5>3, <5>4
      <4>3. CASE Checksum(p) \/ CopyOpen(p) \/ CopyDone(p) \/ MetaOpen(p) \/ MetaSave(p)
        BY <1>0, <2>3, <4>3 DEF Checksum, CopyOpen, CopyDone, MetaOpen, MetaSave, Step, ProcStates
      <4>4. CASE PruneList(p) \/ (\E n \in Names : Remove(p, n)) \/ PruneDone(p) \/ Replace(p)
        BY <1>0, <2>3, <4>4 DEF PruneList, Remove, PruneDone, Replace, Step, At, ProcStates
      <4> QED BY <1>1, <4>1, <4>2, <4>3, <4>4 DEF Proc
    <3>4. CASE Safe
      BY <2>4, <3>1, <3>3, <3>4
    <3>5. CASE ~Safe
      <4>0. /\ target \in Works /\ Bad = {} /\ proc[p].pc \notin {"prune", "removing", "replace"}
            /\ proc[p].pc \notin {"idle", "sum"} => proc[p].sum \in Works
            /\ proc[p].pc = "rename" => proc[p].copy \in Works
            /\ proc[p].pc = "put" => backup[proc[p].own].bin = proc[p].sum
        BY <2>2, <3>5
      <4>1. /\ target' \in Works /\ proc'[p].pc \notin {"prune", "removing", "replace"}
            /\ proc'[p].pc \notin {"idle", "sum"} => proc'[p].sum \in Works
            /\ proc'[p].pc = "rename" => proc'[p].copy \in Works
        <5>1. CASE (\E new \in Builds : Begin(p, new)) \/ CutOff(p) \/ Restore(p)
          <6>1. CASE \E new \in Builds : Begin(p, new)
            BY <1>0, <4>0, <6>1 DEF Begin, Idle
          <6>2. CASE CutOff(p)
            BY <1>0, <4>0, <6>2 DEF CutOff, Leave, Idle
          <6>3. CASE Restore(p)
            BY <1>0, <2>3, <4>0, <6>3 DEF Restore, Step, Leave, Idle, At, ProcStates
          <6> QED BY <5>1, <6>1, <6>2, <6>3
        <5>2. CASE Rollback(p)
          <6>1. PICK b \in Listed : proc' = [proc EXCEPT ![p] = [Idle EXCEPT !.pc = "restore", !.own = b, !.sum = backup[b].sum]]
            BY <5>2 DEF Rollback
          <6>2. backup[b].sum \in Works
            BY <4>0 DEF Bad
          <6> QED BY <1>0, <4>0, <5>2, <6>1, <6>2 DEF Rollback, Idle
        <5>3. CASE PutCopy(p) \/ PutRename(p) \/ Verify(p)
          BY <1>0, <2>3, <4>0, <5>3 DEF PutCopy, PutRename, Verify, Step, Leave, Idle, At, ProcStates
        <5>4. CASE Checksum(p) \/ CopyOpen(p) \/ CopyDone(p) \/ MetaOpen(p)
          BY <1>0, <2>3, <4>0, <5>4 DEF Checksum, CopyOpen, CopyDone, MetaOpen, Step, At, ProcStates
        <5>5. CASE MetaSave(p)
          <6>1. proc[p].own \in Names /\ proc[p].own \notin Listed /\ proc[p].pc = "saving"
            BY <1>0, <5>5, BuildsAssumption DEF MetaSave, At, TypeInv, Fields, Carries, Apart, Writing, Listed, UpdateTypeOK, Names
          <6>2. backup[proc[p].own].bin = proc[p].sum
            BY <1>0, <2>1, <6>1 DEF IntactInv, Alone
          <6>3. proc[p].sum \in Works
            BY <4>0, <6>1
          <6>4. backup'[proc[p].own].bin = proc[p].sum /\ backup'[proc[p].own].sum = proc[p].sum
            BY <1>0, <5>5, <6>1, <6>2 DEF MetaSave, TypeInv, UpdateTypeOK, Backups
          <6>5. proc[p].sum \notin {None, Torn}
            BY <6>3, BuildsAssumption
          <6>6. proc[p].own \in Listed'
            BY <6>1, <6>4, <6>5 DEF Listed
          <6> QED BY <2>7, <6>1, <6>6
        <5>6. CASE PruneList(p) \/ (\E n \in Names : Remove(p, n)) \/ PruneDone(p) \/ Replace(p)
          BY <4>0, <5>6 DEF PruneList, Remove, PruneDone, Replace, At
        <5> QED BY <1>1, <5>1, <5>2, <5>3, <5>4, <5>5, <5>6 DEF Proc
      <4> QED BY <2>4, <3>1, <3>2, <3>3, <4>0, <4>1
    <3> QED BY <3>4, <3>5
  <2> QED BY <1>0, <1>1, <2>5, <2>6, <2>7, ListedSteps
<1>2. ASSUME UNCHANGED vars PROVE Recovers'
  <2>1. Listed' = Listed /\ Good' = Good /\ Bad' = Bad
    BY <1>2 DEF vars, Listed, Good, Bad
  <2>2. Safe' = Safe
    BY <2>1 DEF Safe
  <2> QED BY <1>2, <2>1, <2>2 DEF vars, RecoverInv, Recovers
<1>3. ASSUME overlapped' PROVE Recovers'
  BY <1>3 DEF Recovers
<1> QED BY <1>0, <1>1, <1>2, <1>3 DEF Next, RecoverInv

\* However one process after another ends, a working build is installed or can be rolled
\* back to, unless all the backups that are kept are of broken builds.
THEOREM Recovered == Spec => []Recoverable
<1>1. Init => RecoverInv
  <2> SUFFICES ASSUME Init PROVE RecoverInv
    OBVIOUS
  <2>1. Listed = {} /\ TypeInv
    BY TypeInit DEF Init, Listed, NoBackup
  <2>2. IntactInv /\ PruneInv
    BY <2>1 DEF Init, IntactInv, Alone, At, Idle, ListedIntact, PruneInv, VictimsOld
  <2>3. Recovers
    BY <2>1, BuildsAssumption DEF Init, Recovers, Bad, Idle
  <2> QED BY <2>2, <2>3 DEF RecoverInv
<1>2. RecoverInv /\ [Next]_vars => RecoverInv'
  BY RecoverStep
<1>3. RecoverInv => Recoverable
  <2> SUFFICES ASSUME RecoverInv, ~overlapped, target \notin Works PROVE Recoverable
    BY DEF Recoverable
  <2>1. Safe /\ \A b \in Listed : Intact(b, backup[b].sum)
    BY DEF RecoverInv, Recovers, IntactInv, ListedIntact
  <2>2. CASE Good # {}
    BY <2>1, <2>2 DEF Good, Recoverable
  <2>3. CASE Cardinality(Bad) >= Retention
    BY <2>3 DEF Bad, Recoverable
  <2> QED BY <2>1, <2>2, <2>3 DEF Safe
<1> QED BY <1>1, <1>2, <1>3, PTL DEF Spec

------------------------------------------------------------------------------
(* Where it settles. *)

\* The newest of all backups.
Latest(b) == \A c \in Names \ {b} : backup[c].at < backup[b].at

\* What a process has in hand works, and its own backup is there, the newest, and kept.
OnTheWay(p) ==
  /\ proc[p].pc \notin {"idle", "sum"} => proc[p].sum \in Works
  /\ proc[p].pc \in {"prune", "removing", "replace", "verify", "restore", "put"} =>
       proc[p].own \in Listed /\ backup[proc[p].own].sum = proc[p].sum
  /\ proc[p].pc \in {"saving", "prune", "removing", "replace"} => Latest(proc[p].own)
  /\ proc[p].pc = "removing" => proc[p].own \notin proc[p].victims
  /\ proc[p].pc = "rename" => proc[p].copy \in Works

Unsettled == {"verify", "restore", "put", "rename"}

\* Without faults and overlaps: only a build that is not verified yet may not work.
Settles ==
  faults = 0 /\ ~overlapped =>
    /\ (\A p \in Procs : proc[p].pc \notin Unsettled) => target \in Works
    /\ Bad = {} /\ \A b \in Names : backup[b].at \in 0..clock
    /\ \A p \in Procs : OnTheWay(p)

SettleInv == IntactInv /\ Settles

\* A process whose step leaves the backups as they are, and is on the way, settles.
LEMMA SettlesOn ==
  ASSUME TypeInv, NEW p \in Procs, \A q \in Procs \ {p} : proc'[q].pc = "idle",
         Bad = {}, \A b \in Names : backup[b].at \in 0..clock,
         backup' = backup, clock' = clock,
         proc'[p].pc \notin Unsettled => target' \in Works,
         OnTheWay(p)'
  PROVE  Settles'
<1>1. Bad' = {} /\ \A b \in Names : backup'[b].at \in 0..clock'
  BY DEF Bad, Listed
<1>2. ASSUME NEW q \in Procs PROVE OnTheWay(q)'
  <2>1. CASE q # p
    <3>1. proc'[q].pc = "idle"
      BY <2>1
    <3> QED BY <3>1 DEF OnTheWay
  <2> QED BY <2>1
<1>3. (\A q \in Procs : proc'[q].pc \notin Unsettled) => target' \in Works
  OBVIOUS
<1> QED BY <1>1, <1>2, <1>3 DEF Settles

\* A step that writes or removes one backup, which then works, if it is listed, settles.
LEMMA SettlesAlso ==
  ASSUME TypeInv, NEW p \in Procs, \A q \in Procs \ {p} : proc'[q].pc = "idle",
         Bad = {}, \A b \in Names : backup[b].at \in 0..clock,
         NEW n \in Names, \A b \in Names \ {n} : backup'[b] = backup[b],
         clock' \in Nat, clock' >= clock, n \in Listed' => backup'[n].sum \in Works,
         backup'[n].at \in 0..clock',
         target' \in Works, OnTheWay(p)'
  PROVE  Settles'
<1>1. Bad' = {}
  BY DEF Bad, Listed
<1>2. ASSUME NEW q \in Procs PROVE OnTheWay(q)'
  <2>1. CASE q # p
    <3>1. proc'[q].pc = "idle"
      BY <2>1
    <3> QED BY <3>1 DEF OnTheWay
  <2> QED BY <2>1
<1>3. \A b \in Names : backup'[b].at \in 0..clock'
  <2> SUFFICES ASSUME NEW b \in Names PROVE backup'[b].at \in 0..clock'
    OBVIOUS
  <2>1. clock \in Nat /\ 0..clock \subseteq 0..clock'
    BY DEF TypeInv, UpdateTypeOK
  <2>2. CASE b = n
    BY <2>2
  <2>3. CASE b # n
    BY <2>1, <2>3
  <2> QED BY <2>2, <2>3
<1> QED BY <1>1, <1>2, <1>3 DEF Settles

\* A process that is alone and meets no fault restores what works.
LEMMA SettleStep ==
  ASSUME SettleInv, [Next]_vars
  PROVE  SettleInv'
<1>0. /\ TypeInv /\ TypeInv' /\ IntactInv /\ IntactInv'
      /\ proc \in [Procs -> ProcStates] /\ backup \in [Names -> Backups] /\ clock \in Nat /\ faults \in Nat
  BY IntactStep DEF SettleInv, IntactInv, TypeInv, UpdateTypeOK
<1>1. ASSUME NEW p \in Procs, Proc(p), ~overlapped', faults' = 0 PROVE Settles'
  <2>1. ~overlapped /\ \A q \in Procs \ {p} : At(q, "idle") /\ proc'[q] = proc[q]
    BY <1>0, <1>1, AloneStep
  <2>2. faults = 0 /\ ~Fault
    <3>1. ~Fault
      BY <1>0, <1>1 DEF Fault
    <3> QED BY <1>0, <1>1, <3>1 DEF Proc, Begin, Checksum, CopyOpen, CopyDone, MetaOpen, MetaSave, PruneList,
      Remove, PruneDone, Replace, Verify, Rollback, Restore, PutCopy, PutRename, CutOff
  <2>3. proc[p] \in ProcStates /\ proc'[p] \in ProcStates /\ \A q \in Procs \ {p} : proc'[q].pc = "idle"
    BY <1>0, <2>1 DEF TypeInv, UpdateTypeOK, At
  <2>4. /\ Bad = {} /\ \A b \in Names : backup[b].at \in 0..clock
        /\ OnTheWay(p)
        /\ proc[p].pc \notin Unsettled => target \in Works
    BY <2>1, <2>2 DEF SettleInv, Settles, Unsettled, At
  <2>5. CASE Checksum(p)
    <3>1. /\ proc[p].pc = "sum" /\ proc'[p].pc = "copy" /\ proc'[p].sum = target
          /\ backup' = backup /\ clock' = clock /\ target' = target
      BY <1>0, <2>3, <2>5 DEF Checksum, At, ProcStates
    <3>2. target \in Works
      BY <2>4, <3>1 DEF Unsettled
    <3> QED BY <1>0, <2>3, <2>4, <3>1, <3>2, SettlesOn DEF OnTheWay
  <2>6. CASE \E new \in Builds : Begin(p, new)
    <3>1. /\ proc[p].pc = "idle" /\ proc'[p].pc = "sum"
          /\ backup' = backup /\ clock' = clock /\ target' = target
      BY <1>0, <2>6 DEF Begin, At, Idle
    <3> QED BY <1>0, <2>3, <2>4, <3>1, SettlesOn DEF OnTheWay, Unsettled
  <2>7. CASE Rollback(p)
    <3>1. PICK b \in Listed : proc' = [proc EXCEPT ![p] = [Idle EXCEPT !.pc = "restore", !.own = b, !.sum = backup[b].sum]]
      BY <2>7 DEF Rollback
    <3>2. /\ proc'[p].pc = "restore" /\ proc'[p].own = b /\ proc'[p].sum = backup[b].sum
          /\ backup' = backup /\ clock' = clock /\ target' = target
      BY <1>0, <2>7, <3>1 DEF Rollback, Idle
    <3>3. backup[b].sum \in Works /\ Listed' = Listed
      BY <2>4, <3>2 DEF Bad, Listed
    <3> QED BY <1>0, <2>3, <2>4, <3>2, <3>3, SettlesOn DEF OnTheWay, Unsettled
  <2>8. CASE CopyOpen(p)
    <3>1. begun + 1 \in Names /\ backup[begun + 1] = NoBackup
      BY <1>0, <2>8, BuildsAssumption DEF CopyOpen, TypeInv, UpdateTypeOK, Fresh, Names
    <3>2. /\ proc[p].pc = "copy" /\ proc'[p].pc = "copying" /\ proc'[p].sum = proc[p].sum
          /\ clock' = clock /\ target' = target
      BY <1>0, <2>3, <2>8 DEF CopyOpen, At, ProcStates
    <3>3. /\ \A b \in Names \ {begun + 1} : backup'[b] = backup[b]
          /\ begun + 1 \notin Listed' /\ backup'[begun + 1].at = backup[begun + 1].at
      BY <1>0, <2>8, <3>1 DEF CopyOpen, Listed, NoBackup
    <3>4. target \in Works /\ OnTheWay(p)'
      BY <2>4, <3>2 DEF OnTheWay, Unsettled
    <3> QED BY <1>0, <2>3, <2>4, <3>1, <3>2, <3>3, <3>4, SettlesAlso
  <2>9. CASE CopyDone(p) \/ MetaOpen(p) \/ MetaSave(p)
    <3>1. proc[p].pc \in Writing /\ proc[p].own \in Names
      <4>1. proc[p].pc \in Writing
        BY <2>9 DEF CopyDone, MetaOpen, MetaSave, At, Writing
      <4>2. proc[p].own \in 1..begun
        BY <1>0, <4>1 DEF Writing, TypeInv, Fields, Carries
      <4> QED BY <1>0, <4>1, <4>2, BuildsAssumption DEF TypeInv, UpdateTypeOK, Names
    <3>2. proc[p].own \notin Listed /\ backup[proc[p].own].sum \in {None, Torn}
      BY <1>0, <3>1 DEF TypeInv, Apart, Listed
    <3>3. /\ \A b \in Names \ {proc[p].own} : backup'[b] = backup[b]
          /\ proc'[p].own = proc[p].own /\ proc'[p].sum = proc[p].sum /\ target' = target
      BY <1>0, <2>3, <2>9 DEF CopyDone, MetaOpen, MetaSave, Step, ProcStates
    <3>4. target \in Works /\ proc[p].sum \in Works
      BY <2>4, <3>1 DEF OnTheWay, Writing, Unsettled
    <3>5. backup[proc[p].own].at \in 0..clock /\ \A b \in Names : backup[b].at \in Int /\ backup[b].at <= clock
      BY <1>0, <2>4, <3>1
    <3>6. CASE CopyDone(p)
      <4>1. /\ proc'[p].pc = "meta" /\ clock' = clock /\ backup'[proc[p].own].sum = backup[proc[p].own].sum
            /\ backup'[proc[p].own].at = backup[proc[p].own].at
        BY <1>0, <2>3, <3>1, <3>6 DEF CopyDone, ProcStates, Backups
      <4>2. proc[p].own \notin Listed'
        BY <3>2, <4>1 DEF Listed
      <4>3. OnTheWay(p)'
        BY <3>3, <3>4, <4>1 DEF OnTheWay
      <4> QED BY <1>0, <2>3, <2>4, <3>1, <3>3, <3>4, <3>5, <4>1, <4>2, <4>3, SettlesAlso
    <3>7. CASE MetaOpen(p)
      <4>1. /\ proc'[p].pc = "saving" /\ clock' = clock + 1 /\ backup'[proc[p].own].sum = Torn
            /\ backup'[proc[p].own].at = clock + 1
        <5>1. /\ backup' = [backup EXCEPT ![proc[p].own].sum = Torn, ![proc[p].own].at = clock + 1]
              /\ proc' = [proc EXCEPT ![p].pc = "saving"] /\ clock' = clock + 1
          BY <2>2, <3>7 DEF MetaOpen, Step
        <5>2. proc'[p].pc = "saving"
          BY <1>0, <2>3, <5>1 DEF ProcStates
        <5>3. backup[proc[p].own] \in Backups
          BY <1>0, <3>1
        <5>4. backup'[proc[p].own] = [backup[proc[p].own] EXCEPT !.sum = Torn, !.at = clock + 1]
          BY <1>0, <3>1, <5>1
        <5> QED BY <5>1, <5>2, <5>3, <5>4 DEF Backups
      <4>2. proc[p].own \notin Listed'
        BY <4>1 DEF Listed
      <4>3. Latest(proc[p].own)'
        BY <1>0, <3>3, <3>5, <4>1 DEF Latest
      <4>4. OnTheWay(p)'
        BY <3>3, <3>4, <4>1, <4>3 DEF OnTheWay
      <4>5. clock' \in Nat /\ clock' >= clock /\ backup'[proc[p].own].at \in 0..clock'
        BY <1>0, <4>1
      <4> QED BY <1>0, <2>3, <2>4, <3>1, <3>3, <3>4, <4>2, <4>4, <4>5, SettlesAlso
    <3>8. CASE MetaSave(p)
      <4>1. /\ proc[p].pc = "saving" /\ proc'[p].pc = "prune" /\ clock' = clock
            /\ backup'[proc[p].own].sum = proc[p].sum
            /\ backup'[proc[p].own].bin = backup[proc[p].own].bin
            /\ backup'[proc[p].own].at = backup[proc[p].own].at
        BY <1>0, <2>3, <3>1, <3>8 DEF MetaSave, At, Step, ProcStates, Backups
      <4>2. backup[proc[p].own].bin = proc[p].sum
        BY <1>0, <2>1, <4>1 DEF IntactInv, Alone
      <4>3. proc[p].own \in Listed'
        BY <3>1, <3>4, <4>1, <4>2, BuildsAssumption DEF Listed
      <4>4. Latest(proc[p].own)
        BY <2>4, <4>1 DEF OnTheWay
      <4>5. Latest(proc[p].own)'
        BY <3>3, <4>1, <4>4 DEF Latest
      <4>6. OnTheWay(p)'
        BY <3>3, <3>4, <4>1, <4>3, <4>5 DEF OnTheWay
      <4> QED BY <1>0, <2>3, <2>4, <3>1, <3>3, <3>4, <3>5, <4>1, <4>6, SettlesAlso
    <3> QED BY <2>9, <3>6, <3>7, <3>8
  <2>10. CASE PruneList(p)
    <3>1. /\ proc[p].pc = "prune" /\ proc'[p].pc = "removing" /\ proc'[p].sum = proc[p].sum /\ proc'[p].own = proc[p].own
          /\ proc'[p].victims = {b \in Listed : Cardinality(Newer(b)) >= Retention}
          /\ backup' = backup /\ clock' = clock /\ target' = target
      BY <1>0, <2>3, <2>10 DEF PruneList, At, ProcStates
    <3>2. /\ target \in Works /\ proc[p].sum \in Works /\ Latest(proc[p].own)
          /\ proc[p].own \in Listed /\ backup[proc[p].own].sum = proc[p].sum
      BY <2>4, <3>1 DEF OnTheWay, Unsettled
    <3>3. Newer(proc[p].own) = {}
      <4>1. \A c \in Listed : c # proc[p].own => backup[c].at < backup[proc[p].own].at
        BY <3>2 DEF Latest, Listed
      <4>2. \A c \in Listed : backup[c].at \in Int
        BY <1>0 DEF Listed, Backups
      <4> QED BY <3>2, <4>1, <4>2 DEF Newer
    <3>4. proc'[p].own \notin proc'[p].victims
      BY <3>1, <3>3, FS_EmptySet, BuildsAssumption
    <3>5. Latest(proc[p].own)' /\ Listed' = Listed
      BY <3>1, <3>2 DEF Latest, Listed
    <3>6. OnTheWay(p)'
      BY <3>1, <3>2, <3>4, <3>5 DEF OnTheWay
    <3> QED BY <1>0, <2>3, <2>4, <3>1, <3>2, <3>6, SettlesOn
  <2>11. CASE \E n \in Names : Remove(p, n)
    <3>1. PICK n \in Names : Remove(p, n)
      BY <2>11
    <3>2. /\ proc[p].pc = "removing" /\ proc' = [proc EXCEPT ![p].victims = proc[p].victims \ {n}]
          /\ n \in proc[p].victims /\ clock' = clock /\ target' = target
          /\ backup' = [backup EXCEPT ![n] = NoBackup]
      BY <2>2, <3>1 DEF Remove, At
    <3>3. /\ proc'[p].pc = "removing" /\ proc'[p].sum = proc[p].sum /\ proc'[p].own = proc[p].own
          /\ proc'[p].victims = proc[p].victims \ {n}
      BY <1>0, <2>3, <3>2 DEF ProcStates
    <3>4. /\ target \in Works /\ proc[p].sum \in Works /\ Latest(proc[p].own) /\ proc[p].own # n
          /\ proc[p].own \in Listed /\ backup[proc[p].own].sum = proc[p].sum /\ proc[p].own \notin proc[p].victims
      BY <2>4, <3>2 DEF OnTheWay, Unsettled
    <3>5. /\ \A b \in Names \ {n} : backup'[b] = backup[b]
          /\ backup'[n].at = 0 /\ n \notin Listed'
      BY <1>0, <3>2 DEF Listed, NoBackup
    <3>6. proc[p].own \in Names /\ proc[p].own \in Listed' /\ backup'[proc[p].own] = backup[proc[p].own]
      BY <3>4, <3>5 DEF Listed
    <3>7. Latest(proc[p].own)'
      <4>1. \A c \in Names : backup[c].at \in Int /\ backup[c].at >= 0
        BY <2>4
      <4>2. backup[n].at < backup[proc[p].own].at
        BY <3>4, <3>6 DEF Latest
      <4>3. 0 < backup[proc[p].own].at
        BY <3>6, <4>1, <4>2
      <4> QED BY <3>3, <3>4, <3>5, <3>6, <4>3 DEF Latest
    <3>8. OnTheWay(p)'
      BY <3>3, <3>4, <3>6, <3>7 DEF OnTheWay
    <3>9. backup'[n].at \in 0..clock' /\ clock' \in Nat /\ clock' >= clock
      BY <1>0, <3>2, <3>5
    <3> QED BY <1>0, <2>3, <2>4, <3>2, <3>4, <3>5, <3>8, <3>9, SettlesAlso
  <2>12. CASE PruneDone(p) \/ Replace(p) \/ Verify(p) \/ Restore(p)
    <3>1. /\ proc[p].pc \in {"removing", "replace", "verify", "restore"} /\ backup' = backup /\ clock' = clock
          /\ proc[p].sum \in Works /\ proc[p].own \in Listed /\ backup[proc[p].own].sum = proc[p].sum
      <4>1. proc[p].pc \in {"removing", "replace", "verify", "restore"} /\ backup' = backup /\ clock' = clock
        BY <2>12 DEF PruneDone, Replace, Verify, Restore, At
      <4> QED BY <2>4, <4>1 DEF OnTheWay
    <3>2. Intact(proc[p].own, proc[p].sum) /\ Listed' = Listed
      BY <1>0, <2>1, <3>1 DEF IntactInv, ListedIntact, Listed
    <3>3. CASE PruneDone(p)
      <4>1. proc[p].pc = "removing" /\ proc'[p] = [proc[p] EXCEPT !.pc = "replace"] /\ target' = target
        BY <1>0, <3>3 DEF PruneDone, At, Step
      <4>2. Latest(proc[p].own) /\ target \in Works
        BY <2>4, <4>1 DEF OnTheWay, Unsettled
      <4>3. proc'[p].pc = "replace" /\ proc'[p].own = proc[p].own /\ proc'[p].sum = proc[p].sum
        BY <2>3, <4>1 DEF ProcStates
      <4>4. Latest(proc[p].own)'
        BY <3>1, <4>2, <4>3 DEF Latest
      <4>5. OnTheWay(p)'
        BY <3>1, <3>2, <4>3, <4>4 DEF OnTheWay
      <4> QED BY <1>0, <2>3, <2>4, <3>1, <4>1, <4>2, <4>5, SettlesOn
    <3>4. CASE Replace(p) \/ Restore(p) \/ (Verify(p) /\ Step(p, "restore"))
      <4>1. \E pc \in {"verify", "put", "restore"} : proc' = [proc EXCEPT ![p].pc = pc]
        BY <2>2, <3>2, <3>4 DEF Replace, Restore, Step
      <4>2. proc'[p].pc \in {"verify", "put", "restore"} /\ proc'[p].own = proc[p].own /\ proc'[p].sum = proc[p].sum
        BY <1>0, <2>3, <4>1 DEF ProcStates
      <4>3. OnTheWay(p)'
        BY <3>1, <3>2, <4>2 DEF OnTheWay
      <4>4. proc'[p].pc \in Unsettled
        BY <4>2 DEF Unsettled
      <4> QED BY <1>0, <2>3, <2>4, <3>1, <4>3, <4>4, SettlesOn
    <3>5. CASE Verify(p) /\ Leave(p) /\ target \in Works
      <4>1. proc'[p].pc = "idle" /\ target' = target
        BY <1>0, <3>5 DEF Verify, Leave, Idle
      <4> QED BY <1>0, <2>3, <2>4, <3>1, <3>5, <4>1, SettlesOn DEF OnTheWay
    <3> QED BY <2>2, <2>12, <3>3, <3>4, <3>5 DEF Verify
  <2>13. CASE PutCopy(p)
    <3>1. proc[p].pc = "put" /\ backup' = backup /\ clock' = clock /\ target' = target
      BY <2>13 DEF PutCopy, At
    <3>2. proc[p].own \in Listed /\ backup[proc[p].own].sum = proc[p].sum /\ proc[p].sum \in Works
      BY <2>4, <3>1 DEF OnTheWay
    <3>3. backup[proc[p].own].bin = proc[p].sum /\ backup[proc[p].own].bin # None
      BY <1>0, <2>1, <3>2 DEF IntactInv, ListedIntact, Intact, Listed
    <3>4. proc'[p].pc = "rename" /\ proc'[p].sum = proc[p].sum /\ proc'[p].copy = proc[p].sum
      BY <1>0, <2>3, <2>13, <3>3 DEF PutCopy, ProcStates
    <3>5. OnTheWay(p)' /\ proc'[p].pc \in Unsettled
      BY <3>2, <3>4 DEF OnTheWay, Unsettled
    <3> QED BY <1>0, <2>3, <2>4, <3>1, <3>5, SettlesOn
  <2>14. CASE PutRename(p)
    <3>1. proc[p].pc = "rename" /\ backup' = backup /\ clock' = clock /\ target' = proc[p].copy /\ proc'[p].pc = "idle"
      BY <1>0, <2>14 DEF PutRename, At, Leave, Idle
    <3>2. target' \in Works /\ OnTheWay(p)'
      BY <2>4, <3>1 DEF OnTheWay
    <3> QED BY <1>0, <2>3, <2>4, <3>1, <3>2, SettlesOn
  <2>15. ~CutOff(p)
    BY <2>2 DEF CutOff
  <2> QED BY <1>1, <2>5, <2>6, <2>7, <2>8, <2>9, <2>10, <2>11, <2>12, <2>13, <2>14, <2>15 DEF Proc
<1>2. ASSUME UNCHANGED vars PROVE Settles'
  <2>1. Listed' = Listed /\ Bad' = Bad
    BY <1>2 DEF vars, Listed, Bad
  <2>2. \A p \in Procs : OnTheWay(p)' = OnTheWay(p)
    BY <1>2, <2>1 DEF vars, OnTheWay, Latest
  <2> QED BY <1>2, <2>1, <2>2 DEF vars, SettleInv, Settles
<1>3. ASSUME overlapped' \/ faults' # 0 PROVE Settles'
  BY <1>3 DEF Settles
<1> QED BY <1>0, <1>1, <1>2, <1>3 DEF Next, SettleInv

\* When nothing runs and nothing went wrong, what is installed works: an update that does
\* not is rolled back, and a rollback ends in a build that does.
THEOREM SettledIsWorking == Spec => []SettledWorks
<1>1. Init => SettleInv
  <2> SUFFICES ASSUME Init PROVE SettleInv
    OBVIOUS
  <2>1. Listed = {} /\ TypeInv
    BY TypeInit DEF Init, Listed, NoBackup
  <2>2. IntactInv
    BY <2>1 DEF Init, IntactInv, Alone, At, Idle, ListedIntact
  <2>3. Settles
    BY <2>1, BuildsAssumption DEF Init, Settles, Bad, Idle, OnTheWay, NoBackup
  <2> QED BY <2>2, <2>3 DEF SettleInv
<1>2. SettleInv /\ [Next]_vars => SettleInv'
  BY SettleStep
<1>3. SettleInv => SettledWorks
  BY DEF SettleInv, Settles, SettledWorks, At, Unsettled
<1> QED BY <1>1, <1>2, <1>3, PTL DEF Spec

=============================================================================
