---------------------------- MODULE TelemetryRing ----------------------------
(***************************************************************************)
(* The lock-free ring buffer of pt-telemetry (disruptor.rs): any number of  *)
(* producers in record_event, one reader (the flusher thread).  A step is   *)
(* one load, store or exchange of an atomic, or one end of the plain write   *)
(* of an event, so that every interleaving of the threads is a behaviour.   *)
(* The atomics are acquire/release and are taken in one total order; an     *)
(* older value, which a load may return, is the value of an earlier moment.  *)
(***************************************************************************)
EXTENDS Integers, Sequences

CONSTANTS
  Producers,   \* threads that call record_event
  Capacity,    \* slots of the ring, a power of two in the code
  Torn,        \* an event that is being overwritten
  MaxCalls     \* bound: calls of record_event

ASSUME CapacityAssumption == Capacity \in Nat \ {0}
ASSUME TornAssumption == Torn \notin Nat
ASSUME MaxCallsAssumption == MaxCalls \in Nat

VARIABLES
  producer,    \* producer_sequence
  consumer,    \* consumer_sequence
  slots,       \* index -> event and committed_sequence
  pc,          \* where each producer is in record_event
  seen,        \* current_producer of its claim, then the sequence it claimed
  event,       \* the event it records: the number of its call
  calls,       \* calls so far
  log,         \* history: events in the order of their claims
  reader,      \* where the reader is
  next,        \* last_sequence of the reader
  drained      \* history: events copied by the reader

producing == <<producer, slots, pc, seen, event, calls, log>>
reading == <<reader, next, drained>>
ringVars == <<producer, consumer, slots, pc, seen, event, calls, log, reader, next, drained>>

\* sequence & mask
Slot(s) == s % Capacity

Init ==
  /\ producer = 0 /\ consumer = 0
  /\ slots = [i \in 0..(Capacity - 1) |-> [event |-> 0, committed |-> 0]]
  /\ pc = [p \in Producers |-> "idle"]
  /\ seen = [p \in Producers |-> 0]
  /\ event = [p \in Producers |-> 0]
  /\ calls = 0 /\ log = <<>>
  /\ reader = "check" /\ next = 0 /\ drained = <<>>

------------------------------------------------------------------------------
(* record_event: claim, write_event, commit. *)

Goto(p, from, to) == pc[p] = from /\ pc' = [pc EXCEPT ![p] = to]

Call(p) ==
  /\ calls < MaxCalls
  /\ Goto(p, "idle", "loadProducer")
  /\ calls' = calls + 1
  /\ event' = [event EXCEPT ![p] = calls + 1]
  /\ UNCHANGED <<producer, slots, seen, log>>

LoadProducer(p) ==
  /\ Goto(p, "loadProducer", "loadConsumer")
  /\ seen' = [seen EXCEPT ![p] = producer]
  /\ UNCHANGED <<producer, slots, event, calls, log>>

\* Slip: one slot too many is given out.
NoRoomOffByOne(s) == s - consumer > Capacity \/ s < consumer

\* current_producer - current_consumer >= capacity, in unsigned words: a consumer
\* that has passed the producer's older value makes the difference wrap around.
NoRoom(s) == s - consumer >= Capacity \/ s < consumer

GiveUp(p) ==
  /\ Goto(p, "loadConsumer", "idle")
  /\ NoRoom(seen[p])
  /\ UNCHANGED <<producer, slots, seen, event, calls, log>>

FindRoom(p) ==
  /\ Goto(p, "loadConsumer", "exchange")
  /\ ~NoRoom(seen[p])
  /\ UNCHANGED <<producer, slots, seen, event, calls, log>>

Claim(p) ==
  /\ Goto(p, "exchange", "write")
  /\ producer = seen[p]
  /\ producer' = seen[p] + 1
  /\ log' = Append(log, event[p])
  /\ UNCHANGED <<slots, seen, event, calls>>

\* compare_exchange_weak fails when another producer was faster, or for no reason.
Retry(p) ==
  /\ Goto(p, "exchange", "loadProducer")
  /\ UNCHANGED <<producer, slots, seen, event, calls, log>>

BeginWrite(p) ==
  /\ Goto(p, "write", "writing")
  /\ slots' = [slots EXCEPT ![Slot(seen[p])].event = Torn]
  /\ UNCHANGED <<producer, seen, event, calls, log>>

EndWrite(p) ==
  /\ Goto(p, "writing", "commit")
  /\ slots' = [slots EXCEPT ![Slot(seen[p])].event = event[p]]
  /\ UNCHANGED <<producer, seen, event, calls, log>>

Commit(p) ==
  /\ Goto(p, "commit", "idle")
  /\ slots' = [slots EXCEPT ![Slot(seen[p])].committed = seen[p] + 1]
  /\ UNCHANGED <<producer, seen, event, calls, log>>

Produce(p) ==
  \/ Call(p) \/ LoadProducer(p) \/ GiveUp(p) \/ FindRoom(p) \/ Claim(p) \/ Retry(p)
  \/ BeginWrite(p) \/ EndWrite(p) \/ Commit(p)

------------------------------------------------------------------------------
(* try_read and advance_consumer, as the flusher calls them. *)

Published == slots[Slot(next)].committed = next + 1

\* Slip: the slot is given back before the event is copied.
CheckAndAdvance ==
  /\ reader = "check" /\ Published
  /\ reader' = "copy"
  /\ consumer' = next + 1
  /\ UNCHANGED <<producing, next, drained>>

Check ==
  /\ reader = "check" /\ Published
  /\ reader' = "copy"
  /\ UNCHANGED <<producing, consumer, next, drained>>

Copy ==
  /\ reader = "copy"
  /\ drained' = Append(drained, slots[Slot(next)].event)
  /\ next' = next + 1
  /\ reader' = "advance"
  /\ UNCHANGED <<producing, consumer>>

Advance ==
  /\ reader = "advance"
  /\ consumer' = next
  /\ reader' = "check"
  /\ UNCHANGED <<producing, next, drained>>

RingNext ==
  \/ \E p \in Producers : Produce(p) /\ UNCHANGED <<consumer, reading>>
  \/ Check \/ Copy \/ Advance

RingSpec == Init /\ [][RingNext]_ringVars

------------------------------------------------------------------------------
(* Properties. *)

PCs == {"idle", "loadProducer", "loadConsumer", "exchange", "write", "writing", "commit"}

\* The types of the variables.
RingTypeOK ==
  /\ producer \in Nat /\ consumer \in Nat /\ next \in Nat /\ calls \in Nat
  /\ slots \in [0..(Capacity - 1) -> [event : Nat \cup {Torn}, committed : Nat]]
  /\ pc \in [Producers -> PCs]
  /\ seen \in [Producers -> Nat]
  /\ event \in [Producers -> Nat]
  /\ log \in Seq(Nat)
  /\ reader \in {"check", "copy", "advance"}
  /\ drained \in Seq(Nat \cup {Torn})

Owns(p) == pc[p] \in {"write", "writing", "commit"}

\* Two producers never hold one slot, and the reader never copies a slot that a
\* producer holds (the Safety comment of disruptor.rs, for every lap of the ring).
SlotsExclusive ==
  /\ \A p, q \in Producers : p # q /\ Owns(p) /\ Owns(q) => Slot(seen[p]) # Slot(seen[q])
  /\ \A p \in Producers : reader = "copy" /\ Owns(p) => Slot(seen[p]) # Slot(next)

\* No event is overwritten before it is read: never more events than slots wait.
NeverOverrun == next <= producer /\ producer - next <= Capacity

Queue == INSTANCE EventQueue
           WITH Events <- 1..MaxCalls, queue <- SubSeq(log, next + 1, Len(log)), out <- drained

\* The ring implements the bounded queue: what is read is what was claimed, in the
\* order of the claims, whole, none twice and none skipped.
ImplementsQueue == Queue!Spec
=============================================================================
