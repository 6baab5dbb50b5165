------------------------------ MODULE AuditLog ------------------------------
(***************************************************************************)
(* The audit log (audit/writer.rs, audit/verify.rs): JSON lines, each with   *)
(* the hash of the one before, in a file that is renamed when it is too long. *)
(* Any number of AuditLogs have it open; nothing locks it.  A step is one     *)
(* call of the file system with the memory that changes after it, and a       *)
(* process is killed, or a call fails, between any two of them or in the      *)
(* middle of a write.                                                         *)
(*                                                                         *)
(* An entry is its number, which stands for its hash: no two are alike.       *)
(***************************************************************************)
EXTENDS Integers, FiniteSets, SequencesExt

CONSTANTS
  Logs,        \* AuditLogs, one in a process
  Limit,       \* max_size_bytes, in lines
  MaxEntries,  \* bound: entries that are begun
  MaxFiles,    \* bound: files
  MaxFaults    \* bound: kills and failing calls

ASSUME BoundsAssumption ==
  /\ Limit \in Nat \ {0}
  /\ MaxEntries \in Nat /\ MaxFiles \in Nat /\ MaxFaults \in Nat

VARIABLES
  files,       \* every file, in the order of creation: its lines, and an unfinished one
  named,       \* the file that audit.jsonl leads to, or 0
  log,         \* each AuditLog
  begun,       \* entries begun so far
  acked,       \* history: entries whose write_entry answered Ok
  faults,
  overlapped   \* history: two AuditLogs were open at once

vars == <<files, named, log, begun, acked, faults, overlapped>>

\* prev_hash is the number of an entry, or one of these.
Genesis == 0
RotatedFrom(f) == -f

\* A line is an entry, whose number is 1 or more, or does not parse.  What follows the
\* last newline of a file is its tail: a part of an entry, or all of it (whole).
Entry(id, prev) == [id |-> id, prev |-> prev]
Garbled == Entry(0, Genesis)
NoLine == Entry(-1, Genesis)

Closed == [pc |-> "closed", last |-> Genesis, file |-> 0,
           buffer |-> <<>>, rest |-> FALSE, entry |-> NoLine]

Init ==
  /\ files = <<>> /\ named = 0
  /\ log = [l \in Logs |-> Closed]
  /\ begun = 0 /\ acked = {} /\ faults = 0 /\ overlapped = FALSE

Fault == faults < MaxFaults /\ faults' = faults + 1
At(l, pc) == log[l].pc = pc

------------------------------------------------------------------------------
(* Reading and writing a file. *)

NewFile == [lines |-> <<>>, tail |-> NoLine, whole |-> FALSE]

\* BufRead::lines gives the tail as well.
Read(f) == IF f = 0 THEN <<>>
           ELSE files[f].lines \o (IF files[f].tail = NoLine THEN <<>>
                                   ELSE IF files[f].whole THEN <<files[f].tail>> ELSE <<Garbled>>)

Readable(f) == Garbled \notin Range(Read(f))

\* read_last_entry_hash, of no file as well.
LastHash(f) == IF Read(f) = <<>> THEN Genesis ELSE Last(Read(f)).id

\* Where a write begins: "rest" if a part of the first line was written before.
Begins(f, line, rest) == f.tail = (IF rest THEN line ELSE NoLine)

\* A file with more lines.  What follows an unfinished line of somebody else is on that line.
Extended(f, lines, rest) ==
  IF lines = <<>> THEN f
  ELSE [lines |-> f.lines \o (IF Begins(f, Head(lines), rest) THEN lines ELSE <<Garbled>> \o Tail(lines)),
        tail |-> NoLine, whole |-> FALSE]

\* A file with a part of one more line, or all of it but the newline.
Partly(f, line, rest, whole) ==
  [f EXCEPT !.tail = IF Begins(f, line, rest) THEN line ELSE Garbled,
            !.whole = (whole \/ f.whole) /\ Begins(f, line, rest)]

\* BufWriter: what a failed write leaves in the file, in the buffer, and of the line between.
Failures(f, buffer, rest) ==
  {LET g == Extended(f, SubSeq(buffer, 1, n), rest)
   IN [file |-> IF part = "none" THEN g ELSE Partly(g, buffer[n + 1], rest /\ n = 0, part = "whole"),
       buffer |-> SubSeq(buffer, n + 1, Len(buffer)),
       rest |-> part # "none" \/ (rest /\ n = 0)] :
         n \in 0..(Len(buffer) - 1), part \in {"none", "part", "whole"}}

\* Dropping a BufWriter writes what is left in it; an error is ignored.
Drop(l) ==
  LET f == files[log[l].file]
  IN IF log[l].buffer = <<>> THEN UNCHANGED <<files, faults>>
     ELSE \/ files' = [files EXCEPT ![log[l].file] = Extended(f, log[l].buffer, log[l].rest)]
             /\ UNCHANGED faults
          \/ \E a \in Failures(f, log[l].buffer, log[l].rest) :
               Fault /\ files' = [files EXCEPT ![log[l].file] = a.file]

------------------------------------------------------------------------------
(* Opening, closing and being killed. *)

Open(l) ==
  /\ At(l, "closed")
  /\ named # 0 => Readable(named)
  /\ log' = [log EXCEPT ![l] = [Closed EXCEPT !.pc = "ready", !.last = LastHash(named)]]
  /\ overlapped' = (overlapped \/ \E m \in Logs : ~At(m, "closed"))
  /\ UNCHANGED <<files, named, begun, acked, faults>>

Close(l) ==
  /\ At(l, "ready") /\ Drop(l)
  /\ log' = [log EXCEPT ![l] = Closed]
  /\ UNCHANGED <<named, begun, acked, overlapped>>

Kill(l) ==
  /\ ~At(l, "closed") /\ Fault
  /\ log' = [log EXCEPT ![l] = Closed]
  /\ UNCHANGED <<files, named, begun, acked, overlapped>>

------------------------------------------------------------------------------
(* write_entry, write_checkpoint and rotate. *)

Ready(l) == log' = [log EXCEPT ![l].pc = "ready", ![l].entry = NoLine]

\* write_entry of an entry or a checkpoint, which are alike; the size of the file is
\* looked at first.
WriteEntry(l) ==
  /\ At(l, "ready") /\ begun < MaxEntries
  /\ begun' = begun + 1
  /\ log' = [log EXCEPT ![l].entry = Entry(begun + 1, Genesis),
                        ![l].pc = IF Len(Read(named)) >= Limit THEN "rotate" ELSE "write"]
  /\ UNCHANGED <<files, named, acked, faults, overlapped>>

\* write_checkpoint of a log without a file takes 16 characters of "empty", and panics.
Panic(l) ==
  /\ At(l, "ready") /\ named = 0 /\ Drop(l)
  /\ log' = [log EXCEPT ![l] = Closed]
  /\ UNCHANGED <<named, begun, acked, overlapped>>

\* rotate is public as well.
RotateNow(l) ==
  /\ At(l, "ready")
  /\ log' = [log EXCEPT ![l].pc = "rotate"]
  /\ UNCHANGED <<files, named, begun, acked, faults, overlapped>>

CloseWriter(l) ==
  /\ At(l, "rotate") /\ Drop(l)
  /\ log' = [log EXCEPT ![l].pc = "rename", ![l].file = 0, ![l].buffer = <<>>, ![l].rest = FALSE]
  /\ UNCHANGED <<named, begun, acked, overlapped>>

\* Slip: the hash of the last entry stays.
RenameKeepingHash(l) ==
  /\ At(l, "rename") /\ named # 0
  /\ named' = 0
  /\ log' = [log EXCEPT ![l].pc = IF log[l].entry = NoLine THEN "ready" ELSE "write"]
  /\ UNCHANGED <<files, begun, acked, faults, overlapped>>

\* The rotated name is one that is not there yet.
Rename(l) ==
  /\ At(l, "rename") /\ named # 0
  /\ named' = 0
  /\ log' = [log EXCEPT ![l].last = RotatedFrom(named),
                        ![l].pc = IF log[l].entry = NoLine THEN "ready" ELSE "write"]
  /\ UNCHANGED <<files, begun, acked, faults, overlapped>>

\* Another log has renamed the file, or the call fails: the entry is given up.
RenameFails(l) ==
  /\ At(l, "rename")
  /\ (named = 0 /\ UNCHANGED faults) \/ Fault
  /\ Ready(l)
  /\ UNCHANGED <<files, named, begun, acked, overlapped>>

\* Slip: the file is truncated.
OpenWriterTruncating(l) ==
  /\ At(l, "write") /\ log[l].file = 0
  /\ named # 0 \/ Len(files) < MaxFiles
  /\ IF named # 0 THEN files' = [files EXCEPT ![named] = NewFile] /\ UNCHANGED named
     ELSE files' = Append(files, NewFile) /\ named' = Len(files) + 1
  /\ log' = [log EXCEPT ![l].file = named']
  /\ UNCHANGED <<begun, acked, faults, overlapped>>

\* ensure_writer_open: the file is opened for appending, and made if it is not there.
OpenWriter(l) ==
  /\ At(l, "write") /\ log[l].file = 0
  /\ IF named # 0 THEN UNCHANGED <<files, named>>
     ELSE /\ Len(files) < MaxFiles
          /\ files' = Append(files, NewFile)
          /\ named' = Len(files) + 1
  /\ log' = [log EXCEPT ![l].file = named']
  /\ UNCHANGED <<begun, acked, faults, overlapped>>

OpenWriterFails(l) ==
  /\ At(l, "write") /\ log[l].file = 0 /\ Fault
  /\ Ready(l)
  /\ UNCHANGED <<files, named, begun, acked, overlapped>>

\* What writeln! leaves in the buffer.
Buffered(l) == Append(log[l].buffer, [log[l].entry EXCEPT !.prev = log[l].last])

\* writeln! and flush; the state is updated when both have succeeded.
Write(l) ==
  /\ At(l, "write") /\ log[l].file # 0
  /\ files' = [files EXCEPT ![log[l].file] = Extended(@, Buffered(l), log[l].rest)]
  /\ log' = [log EXCEPT ![l] = [@ EXCEPT !.pc = "ready", !.entry = NoLine, !.buffer = <<>>, !.rest = FALSE,
                                         !.last = log[l].entry.id]]
  /\ acked' = acked \cup {log[l].entry.id}
  /\ UNCHANGED <<named, begun, faults, overlapped>>

\* It fails, or the process is killed in the middle of it.
WriteFails(l) ==
  /\ At(l, "write") /\ log[l].file # 0 /\ Fault
  /\ \E a \in Failures(files[log[l].file], Buffered(l), log[l].rest), killed \in BOOLEAN :
       /\ files' = [files EXCEPT ![log[l].file] = a.file]
       /\ log' = [log EXCEPT ![l] = IF killed THEN Closed ELSE
                    [@ EXCEPT !.pc = "ready", !.entry = NoLine, !.buffer = a.buffer, !.rest = a.rest]]
  /\ UNCHANGED <<named, begun, acked, overlapped>>

\* flush, of what a failed write has left.
Flush(l) ==
  /\ At(l, "ready") /\ log[l].buffer # <<>>
  /\ \/ /\ files' = [files EXCEPT ![log[l].file] = Extended(@, log[l].buffer, log[l].rest)]
        /\ log' = [log EXCEPT ![l].buffer = <<>>, ![l].rest = FALSE]
        /\ UNCHANGED faults
     \/ \E a \in Failures(files[log[l].file], log[l].buffer, log[l].rest) :
          /\ Fault
          /\ files' = [files EXCEPT ![log[l].file] = a.file]
          /\ log' = [log EXCEPT ![l].buffer = a.buffer, ![l].rest = a.rest]
  /\ UNCHANGED <<named, begun, acked, overlapped>>

Step(l) ==
  \/ Open(l) \/ Close(l) \/ Flush(l) \/ Kill(l) \/ WriteEntry(l) \/ Panic(l) \/ RotateNow(l) \/ CloseWriter(l)
  \/ Rename(l) \/ RenameFails(l) \/ OpenWriter(l) \/ OpenWriterFails(l) \/ Write(l) \/ WriteFails(l)

Next == \E l \in Logs : Step(l)

Spec == Init /\ [][Next]_vars

------------------------------------------------------------------------------
(* Properties. *)

Kept == UNION {{Read(f)[i].id : i \in DOMAIN Read(f)} : f \in DOMAIN files}

\* However many logs write at once, rotate and are cut off: each kill or failing call costs
\* one entry at most for which write_entry answered Ok.
AckedKept == Cardinality(acked \ Kept) <= faults

\* What verify_log finds: lines that do not parse, and entries that neither continue the
\* line before, if that parses, nor begin a file; a file that follows a rotated one begins
\* with its name, which verify_log itself does not accept.
Broken(f) ==
  {i \in DOMAIN Read(f) :
     \/ Read(f)[i] = Garbled
     \/ i = 1 /\ Read(f)[i].prev \notin {Genesis, RotatedFrom(f - 1)}
     \/ i > 1 /\ Read(f)[i - 1] # Garbled /\ Read(f)[i].prev # Read(f)[i - 1].id}

Damage == UNION {{<<f, i>> : i \in Broken(f)} : f \in DOMAIN files}

\* One log after another, over restarts and rotations: each kill or failing call breaks the
\* chain in one place at most.
DamageBounded == ~overlapped => Cardinality(Damage) <= faults
=============================================================================
