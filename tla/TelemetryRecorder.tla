-------------------------- MODULE TelemetryRecorder --------------------------
(***************************************************************************)
(* The telemetry recorder (recorder.rs, writer.rs): the flusher thread that  *)
(* drains the ring into batches and writes them to one Parquet file, and the  *)
(* shutdown by Drop.  The borrow rules let Drop start only when no call of    *)
(* record_event is under way.  What only the flusher touches changes in one   *)
(* step with the load or store of shared memory before it.                    *)
(***************************************************************************)
EXTENDS TelemetryRing, SequencesExt

CONSTANTS
  Batch,       \* config.batch_size
  MaxFaults    \* bound: failures of the file system

ASSUME BatchAssumption == Batch \in Nat \ {0}
ASSUME MaxFaultsAssumption == MaxFaults \in Nat

VARIABLES
  shutdown,    \* the flag that Drop sets
  flusher,     \* where the flusher thread is outside of the drain
  pending,     \* pending_rows
  writer,      \* the batched writer: its file is open, its buffer of batches, rows in the file
  outcome,     \* what became of the file
  faults       \* failures so far

recording == <<shutdown, flusher, pending, writer, outcome, faults>>
vars == <<ringVars, recording>>

RecInit ==
  /\ Init
  /\ shutdown = FALSE /\ flusher = "drain"
  /\ pending = <<>>
  /\ writer = [open |-> FALSE, buffer |-> <<>>, file |-> <<>>]
  /\ outcome = "none" /\ faults = 0

------------------------------------------------------------------------------
(* BatchedWriter.  An attempt is a record of the writer after it, whether it  *)
(* succeeded, and the failures that it met.                                   *)

Attempt(w, ok, n) == [writer |-> w, ok |-> ok, faults |-> n]

\* Slip: every flush creates the file again.
WrittenAfresh(w, n) ==
  [open |-> TRUE,
   buffer |-> SubSeq(w.buffer, n + 1, Len(w.buffer)),
   file |-> FlattenSeq(SubSeq(w.buffer, 1, n))]

\* The first n batches of the buffer are in the file, the others are kept.
Written(w, n) ==
  [open |-> TRUE,
   buffer |-> SubSeq(w.buffer, n + 1, Len(w.buffer)),
   file |-> w.file \o FlattenSeq(SubSeq(w.buffer, 1, n))]

\* flush: the file is created when there is none, then the batches are written.
Flush(w) ==
  IF w.buffer = <<>> THEN {Attempt(w, TRUE, 0)}
  ELSE {Attempt(Written(w, Len(w.buffer)), TRUE, 0)}
       \cup {Attempt(w, FALSE, 1)}
       \cup {Attempt(Written(w, n), FALSE, 1) : n \in 0..(Len(w.buffer) - 1)}

RowsBuffered(w) == Len(FlattenSeq(w.buffer))

\* write: the batch is in the buffer whatever a flush then answers.
Write(w, rows) ==
  LET buffered == [w EXCEPT !.buffer = Append(@, rows)]
  IN IF RowsBuffered(buffered) >= Batch THEN Flush(buffered)
     ELSE {Attempt(buffered, TRUE, 0)}

\* flush_pending_rows: write, then flush.
FlushPending(w, rows) ==
  IF rows = <<>> THEN {Attempt(w, TRUE, 0)}
  ELSE UNION {IF b.ok THEN Flush(b.writer) ELSE {b} : b \in Write(w, rows)}

\* The flusher keeps its rows unless flush_pending_rows succeeded.
Flushed(rows) ==
  \E a \in FlushPending(writer, rows) :
    /\ faults + a.faults <= MaxFaults
    /\ writer' = a.writer
    /\ pending' = IF a.ok THEN <<>> ELSE rows
    /\ faults' = faults + a.faults

------------------------------------------------------------------------------
(* The flusher's loop. *)

Drain ==
  /\ flusher = "drain"
  /\ \/ (Check \/ Copy) /\ pending' = (IF reader = "copy" THEN Append(pending, drained'[Len(drained')]) ELSE pending)
        /\ UNCHANGED <<writer, faults>>
     \/ /\ Advance
        /\ IF Len(pending) >= Batch THEN Flushed(pending)
           ELSE UNCHANGED <<pending, writer, faults>>
  /\ UNCHANGED <<shutdown, flusher, outcome>>

\* try_read finds nothing: the drain is over.
Drained ==
  /\ flusher = "drain" /\ reader = "check" /\ ~Published
  /\ flusher' = "look"
  /\ UNCHANGED <<ringVars, shutdown, pending, writer, outcome, faults>>

\* Slip: the thread ends at once when it sees the flag.
LookAndLeave ==
  /\ flusher = "look"
  /\ flusher' = IF shutdown THEN "finish" ELSE "drain"
  /\ \/ Flushed(pending)
     \/ ~shutdown /\ UNCHANGED <<pending, writer, faults>>
  /\ UNCHANGED <<ringVars, shutdown, outcome>>

\* The load of the flag; the rows are written at shutdown or when the flush
\* interval is over, which may be at any time.
Look ==
  /\ flusher = "look"
  /\ flusher' = IF shutdown THEN "leave" ELSE "drain"
  /\ \/ Flushed(pending)
     \/ (~shutdown \/ pending = <<>>) /\ UNCHANGED <<pending, writer, faults>>
  /\ UNCHANGED <<ringVars, shutdown, outcome>>

\* Slip: the comparison is the wrong way around.
LeaveStrictly ==
  /\ flusher = "leave"
  /\ flusher' = IF next > producer THEN "finish" ELSE "drain"
  /\ UNCHANGED <<ringVars, shutdown, pending, writer, outcome, faults>>

\* At shutdown the thread ends once it has read everything that was claimed.
Leave ==
  /\ flusher = "leave"
  /\ flusher' = IF next >= producer THEN "finish" ELSE "drain"
  /\ UNCHANGED <<ringVars, shutdown, pending, writer, outcome, faults>>

End(w, what, n) == [writer |-> w, outcome |-> what, faults |-> n]

\* Drop for BatchedWriter, whose Parquet writer close has taken already or not.
\* With the rows written, and nothing left to close or closed in good order, the
\* temporary file gets its final name; otherwise it is removed.
Dropped(w, taken) ==
  UNION {IF ~a.writer.open THEN {End(a.writer, "none", a.faults)}
         ELSE IF ~a.ok THEN {End(a.writer, "removed", a.faults)}
         ELSE {End(a.writer, IF taken THEN "noFooter" ELSE "published", a.faults),
               End(a.writer, "temporary", a.faults + 1)}
              \cup {End(a.writer, "removed", a.faults + 1) : c \in {FALSE} \ {taken}}
         : a \in Flush(w)}

\* close: flush, close the Parquet writer, rename the temporary file; an error
\* drops the writer as it is then.
Closed(w) ==
  UNION {IF ~a.ok
         THEN {[d EXCEPT !.faults = @ + a.faults] : d \in Dropped(a.writer, FALSE)}
         ELSE {End(a.writer, "published", a.faults), End(a.writer, "temporary", a.faults + 1)}
              \cup {[d EXCEPT !.faults = @ + a.faults + 1] : d \in Dropped(a.writer, TRUE)}
         : a \in Flush(w)}

\* After the loop: a last attempt for the rows, whose error is ignored, then the
\* writer is closed if it has a file and dropped.
Finish ==
  /\ flusher = "finish"
  /\ \E a \in FlushPending(writer, pending) :
       \E end \in IF a.writer.open THEN Closed(a.writer) ELSE Dropped(a.writer, FALSE) :
         /\ faults + a.faults + end.faults <= MaxFaults
         /\ writer' = end.writer /\ outcome' = end.outcome
         /\ faults' = faults + a.faults + end.faults
         /\ pending' = IF a.ok THEN <<>> ELSE pending
  /\ flusher' = "done"
  /\ UNCHANGED <<ringVars, shutdown>>

------------------------------------------------------------------------------
(* The recorder's users. *)

Record(p) == ~shutdown /\ Produce(p) /\ UNCHANGED <<consumer, reading, recording>>

\* Drop: the recorder is owned by nobody else, so no call is under way.
DropRecorder ==
  /\ ~shutdown /\ \A p \in Producers : pc[p] = "idle"
  /\ shutdown' = TRUE
  /\ UNCHANGED <<ringVars, flusher, pending, writer, outcome, faults>>

RecNext ==
  \/ \E p \in Producers : Record(p)
  \/ Drain \/ Drained \/ Look \/ Leave \/ Finish
  \/ DropRecorder

RecSpec == RecInit /\ [][RecNext]_vars

\* The flusher is a thread that the operating system runs.
FairRecSpec == RecSpec /\ WF_vars(Drain \/ Drained \/ Look \/ Leave \/ Finish)

------------------------------------------------------------------------------
(* Properties. *)

\* Rows on their way or written.
Rows == ToSet(writer.file) \cup ToSet(FlattenSeq(writer.buffer)) \cup ToSet(pending)

\* Whatever fails, an event that was read is kept until the file is finished, and
\* no row appears that was not read from the ring.
NothingLost == Rows = ToSet(drained)

\* When nothing failed, the file that Drop leaves has every recorded event, once, in
\* the order of the claims.
PublishedComplete ==
  flusher = "done" /\ faults = 0 =>
    /\ writer.file = log
    /\ outcome = IF log = <<>> THEN "none" ELSE "published"

\* Drop's join returns, even when every write fails.
DropReturns == shutdown ~> flusher = "done"
=============================================================================
