--------------------------- MODULE TelemetryProofs ---------------------------
(***************************************************************************)
(* The ring buffer, for every number of producers, every capacity and every *)
(* number of calls: no two threads touch a slot at once, nothing is          *)
(* overwritten unread, and the ring implements the bounded queue.  The       *)
(* recorder only takes steps of the ring, so this holds of it as well.       *)
(* Then the recorder, for every batch size and any number of failures: what  *)
(* is read is kept, and without a failure the file has all of it, in order.  *)
(***************************************************************************)
EXTENDS TelemetryRecorder, SequenceTheorems, WellFoundedInduction, TLAPS

\* What a claim still promises: an owner's sequence is unread, within the ring,
\* and not published; a claim that is about to be made has room.
OwnersClaim ==
  /\ \A p \in Producers : Owns(p) =>
       /\ seen[p] \in next..(producer - 1)
       /\ log[seen[p] + 1] = event[p]
       /\ slots[Slot(seen[p])].committed <= seen[p]
       /\ pc[p] = "commit" => slots[Slot(seen[p])].event = event[p]
  /\ \A p, q \in Producers : p # q /\ Owns(p) /\ Owns(q) => seen[p] # seen[q]
  /\ \A p \in Producers : pc[p] = "exchange" => seen[p] < consumer + Capacity

Owned(s) == \E p \in Producers : Owns(p) /\ seen[p] = s

\* An unread sequence is held by its producer or published with its event.
UnreadPublished ==
  \A s \in next..(producer - 1) :
    Owned(s) \/ slots[Slot(s)] = [event |-> log[s + 1], committed |-> s + 1]

\* The cursors, and what the reader has read.
Cursors ==
  /\ consumer <= next /\ next <= producer /\ producer <= consumer + Capacity
  /\ Len(log) = producer
  /\ drained = SubSeq(log, 1, next)
  /\ reader = "copy" => Published
  /\ \A i \in 0..(Capacity - 1) : slots[i].committed <= producer

\* Events are numbers of calls.
EventsAreCalls ==
  /\ log \in Seq(1..MaxCalls)
  /\ calls <= MaxCalls
  /\ \A p \in Producers : pc[p] # "idle" => event[p] \in 1..MaxCalls

RingInv == RingTypeOK /\ OwnersClaim /\ UnreadPublished /\ Cursors /\ EventsAreCalls

------------------------------------------------------------------------------
(* Slots: sequences less than a lap apart have slots of their own. *)

\* Division with remainder, which is the slot.
LEMMA Divided ==
  ASSUME NEW a \in Nat
  PROVE  /\ a \div Capacity \in Int
         /\ a = Capacity * (a \div Capacity) + Slot(a)
         /\ Slot(a) \in 0..(Capacity - 1)
  BY CapacityAssumption, SMTT(30) DEF Slot

\* The only multiple of c in 0..c-1 is 0.
LEMMA SmallMultiple ==
  ASSUME NEW k \in Int, NEW c \in Nat \ {0}, 0 <= c * k, c * k < c
  PROVE  k = 0
<1>1. CASE k >= 1
  <2>1. c * k >= c BY <1>1, SMTT(30)
  <2> QED BY <2>1
<1>2. CASE k <= -1
  <2>1. c * k <= -c BY <1>2, SMTT(30)
  <2> QED BY <2>1
<1> QED BY <1>1, <1>2

\* Two sequences of one lap that share a slot are the same.
LEMMA SlotOrdered ==
  ASSUME NEW a \in Nat, NEW b \in Nat, a <= b, b < a + Capacity, Slot(a) = Slot(b)
  PROVE  a = b
<1>1. PICK x \in Int : a = Capacity * x + Slot(a) BY Divided
<1>2. PICK y \in Int : b = Capacity * y + Slot(b) BY Divided
<1>3. b - a = Capacity * (y - x)
  <2>1. Capacity * (y - x) = Capacity * y - Capacity * x BY CapacityAssumption, SMTT(30)
  <2>2. Slot(a) \in Int BY Divided
  <2>3. Capacity * x \in Int /\ Capacity * y \in Int BY CapacityAssumption, SMTT(30)
  <2>4. b - a = Capacity * y - Capacity * x BY <1>1, <1>2, <2>2, <2>3
  <2> QED BY <2>1, <2>4
<1>4. y - x = 0
  <2>1. 0 <= Capacity * (y - x) /\ Capacity * (y - x) < Capacity BY <1>3, CapacityAssumption
  <2> QED BY <2>1, SmallMultiple, CapacityAssumption
<1>5. Capacity * (y - x) = 0 BY <1>4, CapacityAssumption
<1> QED BY <1>3, <1>5

\* The same, in either order.
LEMMA SlotInjective ==
  ASSUME NEW a \in Nat, NEW b \in Nat, NEW low \in Nat,
         low <= a, low <= b, a < low + Capacity, b < low + Capacity, Slot(a) = Slot(b)
  PROVE  a = b
<1> USE CapacityAssumption
<1>1. CASE a <= b
  <2>1. b < a + Capacity OBVIOUS
  <2> QED BY <1>1, <2>1, SlotOrdered
<1>2. CASE b <= a
  <2>1. a < b + Capacity OBVIOUS
  <2> QED BY <1>2, <2>1, SlotOrdered
<1> QED BY <1>1, <1>2

------------------------------------------------------------------------------
(* Sequences: the beginning that was read and the rest that waits. *)

\* A claim leaves what was read alone and joins the end of what waits.
LEMMA AppendSplit ==
  ASSUME NEW S, NEW s \in Seq(S), NEW e \in S, NEW n \in 0..Len(s)
  PROVE  /\ SubSeq(Append(s, e), 1, n) = SubSeq(s, 1, n)
         /\ SubSeq(Append(s, e), n + 1, Len(s) + 1) = Append(SubSeq(s, n + 1, Len(s)), e)
<1>1. /\ Append(s, e) \in Seq(S) /\ Len(Append(s, e)) = Len(s) + 1
      /\ \A i \in 1..Len(s) : Append(s, e)[i] = s[i]
      /\ Append(s, e)[Len(s) + 1] = e
      /\ Len(s) \in Nat
  BY AppendProperties, LenProperties
<1>2. \A i \in 1..Len(s) : s[i] \in S BY ElementOfSeq
<1>3. /\ SubSeq(s, 1, n) \in Seq(S) /\ Len(SubSeq(s, 1, n)) = n
      /\ \A i \in 1..n : SubSeq(s, 1, n)[i] = s[i]
  <2>1. \A i \in 1..n : s[i] \in S BY <1>1, <1>2
  <2>2. 1 \in Int /\ n \in Int BY <1>1
  <2> QED BY <2>1, <2>2, SubSeqProperties
<1>4. /\ SubSeq(Append(s, e), 1, n) \in Seq(S) /\ Len(SubSeq(Append(s, e), 1, n)) = n
      /\ \A i \in 1..n : SubSeq(Append(s, e), 1, n)[i] = Append(s, e)[i]
  <2>1. \A i \in 1..n : Append(s, e)[i] \in S BY <1>1, <1>2
  <2>2. 1 \in Int /\ n \in Int BY <1>1
  <2> QED BY <2>1, <2>2, SubSeqProperties
<1>5. SubSeq(Append(s, e), 1, n) = SubSeq(s, 1, n)
  <2>1. \A i \in 1..n : SubSeq(Append(s, e), 1, n)[i] = SubSeq(s, 1, n)[i]
    BY <1>1, <1>3, <1>4
  <2> QED BY <2>1, <1>3, <1>4, SeqEqual
<1> DEFINE rest == SubSeq(s, n + 1, Len(s))
           more == SubSeq(Append(s, e), n + 1, Len(s) + 1)
<1>6. /\ rest \in Seq(S) /\ Len(rest) = Len(s) - n
      /\ \A i \in 1..(Len(s) - n) : rest[i] = s[n + i]
  <2>1. \A i \in (n + 1)..Len(s) : s[i] \in S BY <1>1, <1>2
  <2>2. n + 1 \in Int /\ Len(s) \in Int BY <1>1
  <2>3. /\ rest \in Seq(S)
        /\ Len(rest) = IF n + 1 <= Len(s) THEN Len(s) - (n + 1) + 1 ELSE 0
        /\ \A i \in 1..(Len(s) - (n + 1) + 1) : rest[i] = s[n + 1 + i - 1]
    BY <2>1, <2>2, SubSeqProperties
  <2> QED BY <2>3, <1>1
<1>7. /\ more \in Seq(S) /\ Len(more) = Len(s) - n + 1
      /\ \A i \in 1..(Len(s) - n + 1) : more[i] = Append(s, e)[n + i]
  <2>1. \A i \in (n + 1)..(Len(s) + 1) : Append(s, e)[i] \in S BY <1>1, <1>2
  <2>2. n + 1 \in Int /\ Len(s) + 1 \in Int BY <1>1
  <2>3. /\ more \in Seq(S)
        /\ Len(more) = IF n + 1 <= Len(s) + 1 THEN Len(s) + 1 - (n + 1) + 1 ELSE 0
        /\ \A i \in 1..(Len(s) + 1 - (n + 1) + 1) : more[i] = Append(s, e)[n + 1 + i - 1]
    BY <2>1, <2>2, SubSeqProperties
  <2> QED BY <2>3, <1>1
<1> HIDE DEF rest, more
<1>8. more = Append(rest, e)
  <2>1. /\ Append(rest, e) \in Seq(S) /\ Len(Append(rest, e)) = Len(rest) + 1
        /\ \A i \in 1..Len(rest) : Append(rest, e)[i] = rest[i]
        /\ Append(rest, e)[Len(rest) + 1] = e
    BY <1>6, AppendProperties
  <2>2. \A i \in 1..(Len(s) - n + 1) : more[i] = Append(rest, e)[i]
    <3> TAKE i \in 1..(Len(s) - n + 1)
    <3>1. CASE i <= Len(s) - n
      <4>1. more[i] = Append(s, e)[n + i] BY <1>7
      <4>2. Append(s, e)[n + i] = s[n + i] BY <1>1, <3>1
      <4>3. Append(rest, e)[i] = s[n + i] BY <2>1, <1>6, <3>1, <1>1
      <4> QED BY <4>1, <4>2, <4>3
    <3>2. CASE i = Len(s) - n + 1
      <4>1. more[i] = Append(s, e)[n + i] BY <1>7
      <4>2. n + i = Len(s) + 1 BY <3>2, <1>1
      <4>3. i = Len(rest) + 1 BY <3>2, <1>6
      <4> QED BY <4>1, <4>2, <4>3, <2>1, <1>1
    <3>3. n \in Int /\ i \in Int /\ Len(s) \in Int /\ i <= Len(s) - n + 1
      <4>1. Len(s) \in Nat BY <1>1
      <4> QED BY <4>1
    <3>4. i <= Len(s) - n \/ i = Len(s) - n + 1 BY <3>3
    <3> QED BY <3>1, <3>2, <3>4
  <2> QED BY <2>1, <2>2, <1>6, <1>7, SeqEqual
<1> QED BY <1>5, <1>8 DEF rest, more

\* A read moves the first that waits to the end of what was read.
LEMMA ReadSplit ==
  ASSUME NEW S, NEW s \in Seq(S), NEW n \in Nat, n < Len(s)
  PROVE  /\ SubSeq(s, 1, n + 1) = Append(SubSeq(s, 1, n), s[n + 1])
         /\ SubSeq(s, n + 1, Len(s)) # <<>>
         /\ Head(SubSeq(s, n + 1, Len(s))) = s[n + 1]
         /\ Tail(SubSeq(s, n + 1, Len(s))) = SubSeq(s, n + 2, Len(s))
<1>1. Len(s) \in Nat BY LenProperties
<1>2. \A i \in 1..Len(s) : s[i] \in S BY ElementOfSeq
<1>3. /\ SubSeq(s, 1, n) \in Seq(S) /\ Len(SubSeq(s, 1, n)) = n
      /\ \A i \in 1..n : SubSeq(s, 1, n)[i] = s[i]
  <2>1. \A i \in 1..n : s[i] \in S BY <1>1, <1>2
  <2>2. 1 \in Int /\ n \in Int OBVIOUS
  <2> QED BY <2>1, <2>2, SubSeqProperties
<1>4. /\ SubSeq(s, 1, n + 1) \in Seq(S) /\ Len(SubSeq(s, 1, n + 1)) = n + 1
      /\ \A i \in 1..(n + 1) : SubSeq(s, 1, n + 1)[i] = s[i]
  <2>1. \A i \in 1..(n + 1) : s[i] \in S BY <1>1, <1>2
  <2>2. 1 \in Int /\ n + 1 \in Int OBVIOUS
  <2> QED BY <2>1, <2>2, SubSeqProperties
<1>5. s[n + 1] \in S BY <1>1, <1>2
<1>6. SubSeq(s, 1, n + 1) = Append(SubSeq(s, 1, n), s[n + 1])
  <2>1. /\ Append(SubSeq(s, 1, n), s[n + 1]) \in Seq(S)
        /\ Len(Append(SubSeq(s, 1, n), s[n + 1])) = n + 1
        /\ \A i \in 1..n : Append(SubSeq(s, 1, n), s[n + 1])[i] = SubSeq(s, 1, n)[i]
        /\ Append(SubSeq(s, 1, n), s[n + 1])[n + 1] = s[n + 1]
    BY <1>3, <1>5, AppendProperties
  <2>2. \A i \in 1..(n + 1) : SubSeq(s, 1, n + 1)[i] = Append(SubSeq(s, 1, n), s[n + 1])[i]
    <3> TAKE i \in 1..(n + 1)
    <3>1. CASE i \in 1..n BY <3>1, <2>1, <1>3, <1>4
    <3>2. CASE i = n + 1 BY <3>2, <2>1, <1>4
    <3> QED BY <3>1, <3>2
  <2> QED BY <2>1, <2>2, <1>4, SeqEqual
<1>7. /\ Head(SubSeq(s, n + 1, Len(s))) = s[n + 1]
      /\ Tail(SubSeq(s, n + 1, Len(s))) = SubSeq(s, n + 1 + 1, Len(s))
  <2>1. n + 1 \in 1..Len(s) /\ Len(s) \in (n + 1)..Len(s) BY <1>1
  <2> QED BY <2>1, HeadTailOfSubSeq
<1>8. SubSeq(s, n + 1, Len(s)) # <<>>
  <2>1. \A i \in (n + 1)..Len(s) : s[i] \in S BY <1>1, <1>2
  <2>2. n + 1 \in Int /\ Len(s) \in Int BY <1>1
  <2>3. /\ SubSeq(s, n + 1, Len(s)) \in Seq(S)
        /\ Len(SubSeq(s, n + 1, Len(s))) = IF n + 1 <= Len(s) THEN Len(s) - (n + 1) + 1 ELSE 0
    BY <2>1, <2>2, SubSeqProperties
  <2>4. Len(SubSeq(s, n + 1, Len(s))) # 0 BY <2>3, <1>1
  <2> QED BY <2>3, <2>4, EmptySeq
<1>9. n + 1 + 1 = n + 2 OBVIOUS
<1> QED BY <1>6, <1>7, <1>8, <1>9

------------------------------------------------------------------------------
(* The invariant is inductive. *)

\* It holds at first.
LEMMA RingStarts == Init => RingInv
<1> SUFFICES ASSUME Init PROVE RingInv OBVIOUS
<1> USE CapacityAssumption, MaxCallsAssumption
<1>1. RingTypeOK BY DEF Init, RingTypeOK, PCs
<1>2. OwnersClaim BY DEF Init, OwnersClaim, Owns
<1>3. UnreadPublished BY DEF Init, UnreadPublished
<1>4. Cursors
  <2>1. <<>> = SubSeq(<<>>, 1, 0) BY SMT
  <2> QED BY <2>1 DEF Init, Cursors
<1>5. EventsAreCalls BY DEF Init, EventsAreCalls
<1> QED BY <1>1, <1>2, <1>3, <1>4, <1>5 DEF RingInv

\* Types are kept.
LEMMA RingTyped == RingTypeOK /\ [RingNext]_ringVars => RingTypeOK'
<1> SUFFICES ASSUME RingTypeOK, [RingNext]_ringVars PROVE RingTypeOK' OBVIOUS
<1> USE DEF RingTypeOK, PCs, Goto, reading, producing
<1>1. ASSUME NEW p \in Producers, Produce(p), UNCHANGED <<consumer, reading>> PROVE RingTypeOK'
  <2> USE <1>1
  <2>1. CASE Call(p) BY <2>1 DEF Call
  <2>2. CASE LoadProducer(p) BY <2>2 DEF LoadProducer
  <2>3. CASE GiveUp(p) BY <2>3 DEF GiveUp
  <2>4. CASE FindRoom(p) BY <2>4 DEF FindRoom
  <2>5. CASE Claim(p)
    <3>1. log' \in Seq(Nat) BY <2>5, AppendProperties DEF Claim
    <3> QED BY <2>5, <3>1 DEF Claim
  <2>6. CASE Retry(p) BY <2>6 DEF Retry
  <2>7. CASE BeginWrite(p) BY <2>7 DEF BeginWrite
  <2>8. CASE EndWrite(p) BY <2>8 DEF EndWrite
  <2>9. CASE Commit(p)
    <3>1. seen[p] + 1 \in Nat OBVIOUS
    <3>2. slots' \in [0..(Capacity - 1) -> [event : Nat \cup {Torn}, committed : Nat]]
      BY <2>9, <3>1 DEF Commit
    <3>3. pc' \in [Producers -> PCs] BY <2>9 DEF Commit
    <3> QED BY <2>9, <3>2, <3>3 DEF Commit
  <2> QED BY <2>1, <2>2, <2>3, <2>4, <2>5, <2>6, <2>7, <2>8, <2>9 DEF Produce
<1>2. CASE Check BY <1>2 DEF Check
<1>3. CASE Copy
  <2>1. Slot(next) \in 0..(Capacity - 1) BY Divided
  <2>2. drained' \in Seq(Nat \cup {Torn}) BY <1>3, <2>1, AppendProperties DEF Copy
  <2> QED BY <1>3, <2>2 DEF Copy
<1>4. CASE Advance BY <1>4 DEF Advance
<1>5. CASE UNCHANGED ringVars BY <1>5 DEF ringVars
<1> QED BY <1>1, <1>2, <1>3, <1>4, <1>5 DEF RingNext

\* Events stay numbers of calls.
LEMMA EventsStayCalls == RingInv /\ [RingNext]_ringVars => EventsAreCalls'
<1> SUFFICES ASSUME RingInv, [RingNext]_ringVars PROVE EventsAreCalls' OBVIOUS
<1> USE MaxCallsAssumption DEF RingInv, RingTypeOK, PCs, EventsAreCalls, Goto, reading, producing
<1>1. ASSUME NEW p \in Producers, Produce(p), UNCHANGED <<consumer, reading>> PROVE EventsAreCalls'
  <2> USE <1>1
  <2>1. CASE Call(p) BY <2>1 DEF Call
  <2>2. CASE LoadProducer(p) BY <2>2 DEF LoadProducer
  <2>3. CASE GiveUp(p) BY <2>3 DEF GiveUp
  <2>4. CASE FindRoom(p) BY <2>4 DEF FindRoom
  <2>5. CASE Claim(p)
    <3>1. event[p] \in 1..MaxCalls BY <2>5 DEF Claim
    <3>2. log' \in Seq(1..MaxCalls) BY <2>5, <3>1, AppendProperties DEF Claim
    <3> QED BY <2>5, <3>2 DEF Claim
  <2>6. CASE Retry(p) BY <2>6 DEF Retry
  <2>7. CASE BeginWrite(p) BY <2>7 DEF BeginWrite
  <2>8. CASE EndWrite(p) BY <2>8 DEF EndWrite
  <2>9. CASE Commit(p) BY <2>9 DEF Commit
  <2> QED BY <2>1, <2>2, <2>3, <2>4, <2>5, <2>6, <2>7, <2>8, <2>9 DEF Produce
<1>2. CASE Check BY <1>2 DEF Check
<1>3. CASE Copy BY <1>3 DEF Copy
<1>4. CASE Advance BY <1>4 DEF Advance
<1>5. CASE UNCHANGED ringVars BY <1>5 DEF ringVars
<1> QED BY <1>1, <1>2, <1>3, <1>4, <1>5 DEF RingNext

\* A producer that holds no slot and gets none: the slots, the log and the reader's
\* cursor stay, and so do the owners' claims.
LEMMA QuietStep ==
  ASSUME RingInv, RingTypeOK',
         UNCHANGED <<producer, consumer, slots, log, reading>>,
         \A q \in Producers : (Owns(q)' <=> Owns(q))
                           /\ (Owns(q) => pc'[q] = pc[q] /\ seen'[q] = seen[q] /\ event'[q] = event[q]),
         \A q \in Producers : pc'[q] = "exchange" => seen'[q] < consumer + Capacity
  PROVE  OwnersClaim' /\ UnreadPublished' /\ Cursors'
<1> USE DEF RingInv, reading
<1>1. OwnersClaim'
  <2>1. \A q \in Producers : Owns(q)' =>
          /\ seen'[q] \in next'..(producer' - 1)
          /\ log'[seen'[q] + 1] = event'[q]
          /\ slots'[Slot(seen'[q])].committed <= seen'[q]
          /\ pc'[q] = "commit" => slots'[Slot(seen'[q])].event = event'[q]
    BY DEF OwnersClaim
  <2>2. \A p, q \in Producers : p # q /\ Owns(p)' /\ Owns(q)' => seen'[p] # seen'[q]
    BY DEF OwnersClaim
  <2> QED BY <2>1, <2>2 DEF OwnersClaim, Slot
<1>2. UnreadPublished'
  <2>1. \A s : Owned(s) => Owned(s)' BY DEF Owned
  <2> QED BY <2>1 DEF UnreadPublished, Slot
<1>3. Cursors' BY DEF Cursors, Published, Slot
<1> QED BY <1>1, <1>2, <1>3

\* The steps before a claim.
LEMMA BeforeClaim ==
  ASSUME RingInv, RingTypeOK', NEW p \in Producers, UNCHANGED <<consumer, reading>>,
         Call(p) \/ LoadProducer(p) \/ GiveUp(p) \/ FindRoom(p) \/ Retry(p)
  PROVE  OwnersClaim' /\ UnreadPublished' /\ Cursors'
<1> USE DEF Goto
<1>1. UNCHANGED <<producer, consumer, slots, log, reading>>
  BY DEF Call, LoadProducer, GiveUp, FindRoom, Retry
<1>2. pc[p] \in {"idle", "loadProducer", "loadConsumer", "exchange"}
      /\ pc'[p] \in {"idle", "loadProducer", "loadConsumer", "exchange"}
      /\ \A q \in Producers \ {p} : pc'[q] = pc[q] /\ seen'[q] = seen[q] /\ event'[q] = event[q]
  BY DEF Call, LoadProducer, GiveUp, FindRoom, Retry, RingInv, RingTypeOK
<1>3. \A q \in Producers : (Owns(q)' <=> Owns(q))
        /\ (Owns(q) => pc'[q] = pc[q] /\ seen'[q] = seen[q] /\ event'[q] = event[q])
  BY <1>2 DEF Owns
<1>4. pc'[p] = "exchange" => seen'[p] < consumer + Capacity
  BY CapacityAssumption DEF Call, LoadProducer, GiveUp, FindRoom, Retry, NoRoom, RingInv, RingTypeOK
<1>5. \A q \in Producers : pc'[q] = "exchange" => seen'[q] < consumer + Capacity
  BY <1>2, <1>4 DEF RingInv, OwnersClaim
<1> QED BY <1>1, <1>3, <1>5, QuietStep

\* A claim takes the next sequence, which nobody holds, and joins the log's end.
LEMMA ClaimStep ==
  ASSUME RingInv, RingTypeOK', NEW p \in Producers, UNCHANGED <<consumer, reading>>, Claim(p)
  PROVE  OwnersClaim' /\ UnreadPublished' /\ Cursors'
<1>0. OwnersClaim /\ UnreadPublished /\ Cursors BY DEF RingInv
<1>1. /\ pc[p] = "exchange" /\ producer = seen[p] /\ producer' = producer + 1
      /\ log' = Append(log, event[p])
      /\ pc' = [pc EXCEPT ![p] = "write"]
      /\ UNCHANGED <<slots, seen, event, consumer, reader, next, drained>>
  BY DEF Claim, Goto, reading
<1>2. /\ Len(log) = producer /\ log \in Seq(Nat) /\ event[p] \in Nat
      /\ consumer <= next /\ next <= producer /\ producer < consumer + Capacity
      /\ producer \in Nat /\ next \in Nat /\ consumer \in Nat
      /\ pc \in [Producers -> PCs] /\ seen \in [Producers -> Nat]
      /\ slots \in [0..(Capacity - 1) -> [event : Nat \cup {Torn}, committed : Nat]]
  BY <1>0, <1>1 DEF Cursors, OwnersClaim, RingInv, RingTypeOK
<1>3. /\ Len(log') = producer'
      /\ \A s \in 0..(producer - 1) : log'[s + 1] = log[s + 1]
      /\ log'[producer + 1] = event[p]
  <2>1. /\ Len(Append(log, event[p])) = Len(log) + 1
        /\ \A i \in 1..Len(log) : Append(log, event[p])[i] = log[i]
        /\ Append(log, event[p])[Len(log) + 1] = event[p]
    <3>1. log \in Seq(Nat) /\ event[p] \in Nat BY <1>2
    <3> QED BY <3>1, AppendProperties
  <2> QED BY <2>1, <1>1, <1>2
<1>4. \A q \in Producers : Owns(q)' <=> q = p \/ Owns(q)
  BY <1>1, <1>2 DEF Owns
<1>5. OwnersClaim'
  <2>1. ASSUME NEW q \in Producers, Owns(q)'
        PROVE  /\ seen'[q] \in next'..(producer' - 1)
               /\ log'[seen'[q] + 1] = event'[q]
               /\ slots'[Slot(seen'[q])].committed <= seen'[q]
               /\ pc'[q] = "commit" => slots'[Slot(seen'[q])].event = event'[q]
    <3>1. CASE q = p
      <4>1. Slot(producer) \in 0..(Capacity - 1) BY <1>2, Divided
      <4>2. slots[Slot(producer)].committed <= producer BY <4>1, <1>0 DEF Cursors
      <4>3. seen[p] = producer /\ producer \in next..(producer' - 1) BY <1>1, <1>2
      <4>4. pc'[p] # "commit" BY <1>1
      <4> QED BY <3>1, <4>2, <4>3, <4>4, <1>1, <1>3
    <3>2. CASE q # p
      <4>1. Owns(q) /\ pc'[q] = pc[q] BY <2>1, <3>2, <1>1, <1>2, <1>4
      <4>2. /\ seen[q] \in next..(producer - 1) /\ log[seen[q] + 1] = event[q]
            /\ slots[Slot(seen[q])].committed <= seen[q]
            /\ pc[q] = "commit" => slots[Slot(seen[q])].event = event[q]
        BY <4>1, <1>0 DEF OwnersClaim
      <4>3. seen[q] \in 0..(producer - 1) BY <4>2, <1>2
      <4>4. log'[seen[q] + 1] = event[q] BY <4>2, <4>3, <1>3
      <4>5. seen[q] \in next..(producer' - 1) BY <4>2, <1>1, <1>2
      <4> QED BY <4>1, <4>2, <4>4, <4>5, <1>1
    <3> QED BY <3>1, <3>2
  <2>2. ASSUME NEW q \in Producers, NEW r \in Producers, q # r, Owns(q)', Owns(r)'
        PROVE  seen'[q] # seen'[r]
    <3>1. \A u \in Producers \ {p} : Owns(u)' => seen[u] < producer
      <4> SUFFICES ASSUME NEW u \in Producers \ {p}, Owns(u)' PROVE seen[u] < producer OBVIOUS
      <4>1. Owns(u) BY <1>4
      <4>2. seen[u] \in next..(producer - 1) BY <4>1, <1>0 DEF OwnersClaim
      <4> QED BY <4>2, <1>2
    <3>2. CASE q = p BY <2>2, <3>1, <3>2, <1>1, <1>2
    <3>3. CASE r = p BY <2>2, <3>1, <3>3, <1>1, <1>2
    <3>4. CASE q # p /\ r # p BY <2>2, <3>4, <1>0, <1>1, <1>4 DEF OwnersClaim
    <3> QED BY <3>2, <3>3, <3>4
  <2>3. \A q \in Producers : pc'[q] = "exchange" => seen'[q] < consumer' + Capacity
    BY <1>0, <1>1, <1>2 DEF OwnersClaim
  <2> QED BY <2>1, <2>2, <2>3 DEF OwnersClaim, Slot
<1>6. UnreadPublished'
  <2>1. ASSUME NEW s \in next'..(producer' - 1)
        PROVE  Owned(s)' \/ slots'[Slot(s)] = [event |-> log'[s + 1], committed |-> s + 1]
    <3>1. CASE s = producer BY <3>1, <1>1, <1>4 DEF Owned
    <3>2. CASE s # producer
      <4>1. s \in next..(producer - 1) /\ s \in 0..(producer - 1)
        <5>1. s \in next..producer BY <1>1, <1>2
        <5> QED BY <5>1, <3>2, <1>2
      <4>2. Owned(s) => Owned(s)' BY <1>1, <1>4 DEF Owned
      <4>3. log'[s + 1] = log[s + 1] BY <4>1, <1>3
      <4> QED BY <4>1, <4>2, <4>3, <1>0, <1>1 DEF UnreadPublished
    <3> QED BY <3>1, <3>2
  <2> QED BY <2>1 DEF UnreadPublished, Slot
<1>7. Cursors'
  <2>1. drained' = SubSeq(log', 1, next')
    <3>1. next \in 0..Len(log) BY <1>2
    <3>2. SubSeq(Append(log, event[p]), 1, next) = SubSeq(log, 1, next)
      BY <3>1, <1>2, AppendSplit
    <3> QED BY <3>2, <1>0, <1>1 DEF Cursors
  <2>2. reader' = "copy" => Published' BY <1>0, <1>1 DEF Cursors, Published, Slot
  <2>3. \A i \in 0..(Capacity - 1) : slots'[i].committed <= producer'
    BY <1>0, <1>1, <1>2 DEF Cursors
  <2>4. consumer' <= next' /\ next' <= producer' /\ producer' <= consumer' + Capacity
    BY <1>1, <1>2, CapacityAssumption
  <2> QED BY <2>1, <2>2, <2>3, <2>4, <1>3 DEF Cursors
<1> QED BY <1>5, <1>6, <1>7

\* An owner's slot is its own: no other owner's, and not the one the reader copies.
LEMMA OwnSlot ==
  ASSUME RingInv, NEW p \in Producers, Owns(p)
  PROVE  /\ Slot(seen[p]) \in 0..(Capacity - 1)
         /\ \A s \in next..(producer - 1) : s # seen[p] => Slot(s) # Slot(seen[p])
         /\ reader = "copy" => Slot(next) # Slot(seen[p])
<1> USE CapacityAssumption DEF RingInv, RingTypeOK
<1>1. /\ seen[p] \in next..(producer - 1) /\ seen[p] \in Nat
      /\ next \in Nat /\ producer \in Nat /\ consumer \in Nat
      /\ producer <= consumer + Capacity /\ consumer <= next
  BY DEF OwnersClaim, Cursors
<1>2. Slot(seen[p]) \in 0..(Capacity - 1) BY <1>1, Divided
<1>3. ASSUME NEW s \in next..(producer - 1), Slot(s) = Slot(seen[p]) PROVE s = seen[p]
  <2>1. s \in Nat /\ next <= s /\ next <= seen[p] BY <1>1
  <2>2. s < next + Capacity /\ seen[p] < next + Capacity BY <1>1
  <2> QED BY <2>1, <2>2, <1>1, <1>3, SlotInjective
<1>4. ASSUME reader = "copy", Slot(next) = Slot(seen[p]) PROVE FALSE
  <2>1. next \in next..(producer - 1) BY <1>1
  <2>2. next = seen[p] BY <2>1, <1>3, <1>4
  <2>3. slots[Slot(seen[p])].committed <= seen[p] BY DEF OwnersClaim
  <2>4. slots[Slot(next)].committed = next + 1 BY <1>4 DEF Cursors, Published
  <2> QED BY <2>2, <2>3, <2>4, <1>1
<1> QED BY <1>2, <1>3, <1>4

\* An owner writes and publishes in its own slot, which no other claim is about.
LEMMA OwnerStep ==
  ASSUME RingInv, RingTypeOK', NEW p \in Producers, UNCHANGED <<consumer, reading>>,
         BeginWrite(p) \/ EndWrite(p) \/ Commit(p)
  PROVE  OwnersClaim' /\ UnreadPublished' /\ Cursors'
<1> DEFINE own == Slot(seen[p])
<1>0. OwnersClaim /\ UnreadPublished /\ Cursors BY DEF RingInv
<1>1. /\ Owns(p)
      /\ UNCHANGED <<producer, seen, event, log, consumer, reader, next, drained>>
      /\ \A q \in Producers \ {p} : pc'[q] = pc[q]
      /\ pc \in [Producers -> PCs] /\ pc' \in [Producers -> PCs]
  BY DEF BeginWrite, EndWrite, Commit, Goto, Owns, reading, RingInv, RingTypeOK
<1>2. /\ own \in 0..(Capacity - 1)
      /\ \A s \in next..(producer - 1) : s # seen[p] => Slot(s) # own
      /\ reader = "copy" => Slot(next) # own
  BY <1>1, OwnSlot
<1>3. /\ producer \in Nat /\ next \in Nat /\ consumer \in Nat
      /\ seen \in [Producers -> Nat] /\ event \in [Producers -> Nat]
      /\ slots \in [0..(Capacity - 1) -> [event : Nat \cup {Torn}, committed : Nat]]
  BY DEF RingInv, RingTypeOK
<1>4. /\ seen[p] \in next..(producer - 1) /\ log[seen[p] + 1] = event[p]
      /\ slots[own].committed <= seen[p]
      /\ pc[p] = "commit" => slots[own].event = event[p]
  BY <1>0, <1>1 DEF OwnersClaim
<1>5. \A i \in 0..(Capacity - 1) : i # own => slots'[i] = slots[i]
  BY <1>3 DEF BeginWrite, EndWrite, Commit
<1>6. CASE BeginWrite(p) \/ EndWrite(p)
  <2>1. /\ pc'[p] \in {"writing", "commit"}
        /\ pc'[p] = "commit" => slots'[own].event = event[p]
        /\ slots'[own].committed = slots[own].committed
    BY <1>1, <1>2, <1>3, <1>6 DEF BeginWrite, EndWrite, Goto, Owns, RingInv, RingTypeOK
  <2>2. \A q \in Producers : Owns(q)' <=> Owns(q) BY <1>1, <2>1 DEF Owns
  <2>3. ASSUME NEW q \in Producers, Owns(q)
        PROVE  /\ seen[q] \in next..(producer - 1) /\ log[seen[q] + 1] = event[q]
               /\ slots'[Slot(seen[q])].committed <= seen[q]
               /\ pc'[q] = "commit" => slots'[Slot(seen[q])].event = event[q]
    <3>1. /\ seen[q] \in next..(producer - 1) /\ log[seen[q] + 1] = event[q]
          /\ slots[Slot(seen[q])].committed <= seen[q]
          /\ pc[q] = "commit" => slots[Slot(seen[q])].event = event[q]
      BY <1>0, <2>3 DEF OwnersClaim
    <3>2. CASE q = p BY <3>1, <3>2, <2>1
    <3>3. CASE q # p
      <4>1. seen[q] # seen[p] BY <3>3, <2>3, <1>0, <1>1 DEF OwnersClaim
      <4>2. Slot(seen[q]) # own BY <4>1, <3>1, <1>2
      <4>3. Slot(seen[q]) \in 0..(Capacity - 1) BY <1>3, Divided
      <4>4. slots'[Slot(seen[q])] = slots[Slot(seen[q])] BY <4>2, <4>3, <1>5
      <4> QED BY <3>1, <3>3, <4>4, <1>1
    <3> QED BY <3>2, <3>3
  <2>4. OwnersClaim'
    <3>1. \A q \in Producers : pc'[q] = "exchange" => pc[q] = "exchange" BY <1>1, <2>1
    <3>2. \A q \in Producers : pc'[q] = "exchange" => seen'[q] < consumer' + Capacity
      BY <3>1, <1>0, <1>1 DEF OwnersClaim
    <3>3. \A q, u \in Producers : q # u /\ Owns(q)' /\ Owns(u)' => seen'[q] # seen'[u]
      BY <1>0, <1>1, <2>2 DEF OwnersClaim
    <3>4. \A q \in Producers : Owns(q)' =>
            /\ seen'[q] \in next'..(producer' - 1) /\ log'[seen'[q] + 1] = event'[q]
            /\ slots'[Slot(seen'[q])].committed <= seen'[q]
            /\ pc'[q] = "commit" => slots'[Slot(seen'[q])].event = event'[q]
      BY <2>2, <2>3, <1>1
    <3> QED BY <3>2, <3>3, <3>4 DEF OwnersClaim, Slot
  <2>5. UnreadPublished'
    <3>1. ASSUME NEW s \in next..(producer - 1)
          PROVE  Owned(s)' \/ slots'[Slot(s)] = [event |-> log[s + 1], committed |-> s + 1]
      <4>1. Owned(s) => Owned(s)' BY <1>1, <2>2 DEF Owned
      <4>2. CASE s = seen[p] BY <4>2, <4>1, <1>1 DEF Owned
      <4>3. CASE s # seen[p]
        <5>1. s \in Nat BY <1>3
        <5>2. Slot(s) \in 0..(Capacity - 1) BY <5>1, Divided
        <5>3. slots'[Slot(s)] = slots[Slot(s)] BY <4>3, <5>2, <1>2, <1>5
        <5> QED BY <4>1, <5>3, <1>0 DEF UnreadPublished
      <4> QED BY <4>2, <4>3
    <3> QED BY <3>1, <1>1 DEF UnreadPublished, Slot
  <2>6. Cursors'
    <3>1. reader' = "copy" => Published'
      <4>1. Slot(next) \in 0..(Capacity - 1) BY <1>3, Divided
      <4> QED BY <4>1, <1>0, <1>1, <1>2, <1>5 DEF Cursors, Published, Slot
    <3>2. \A i \in 0..(Capacity - 1) : slots'[i].committed <= producer'
      BY <1>0, <1>1, <1>5, <2>1 DEF Cursors
    <3> QED BY <3>1, <3>2, <1>0, <1>1 DEF Cursors
  <2> QED BY <2>4, <2>5, <2>6
<1>7. CASE Commit(p)
  <2>1. /\ pc[p] = "commit" /\ pc'[p] = "idle"
        /\ slots'[own] = [event |-> event[p], committed |-> seen[p] + 1]
    BY <1>1, <1>2, <1>3, <1>4, <1>7 DEF Commit, Goto, RingInv, RingTypeOK
  <2>2. \A q \in Producers : Owns(q)' <=> q # p /\ Owns(q) BY <1>1, <2>1 DEF Owns
  <2>3. ASSUME NEW q \in Producers, q # p, Owns(q)
        PROVE  /\ seen[q] \in next..(producer - 1) /\ log[seen[q] + 1] = event[q]
               /\ slots'[Slot(seen[q])].committed <= seen[q]
               /\ pc'[q] = "commit" => slots'[Slot(seen[q])].event = event[q]
    <3>1. /\ seen[q] \in next..(producer - 1) /\ log[seen[q] + 1] = event[q]
          /\ slots[Slot(seen[q])].committed <= seen[q]
          /\ pc[q] = "commit" => slots[Slot(seen[q])].event = event[q]
      BY <1>0, <2>3 DEF OwnersClaim
    <3>2. seen[q] # seen[p] BY <2>3, <1>0, <1>1 DEF OwnersClaim
    <3>3. Slot(seen[q]) # own BY <3>1, <3>2, <1>2
    <3>4. Slot(seen[q]) \in 0..(Capacity - 1) BY <1>3, Divided
    <3>5. slots'[Slot(seen[q])] = slots[Slot(seen[q])] BY <3>3, <3>4, <1>5
    <3> QED BY <2>3, <3>1, <3>5, <1>1
  <2>4. OwnersClaim'
    <3>1. \A q \in Producers : pc'[q] = "exchange" => pc[q] = "exchange" BY <1>1, <2>1
    <3>2. \A q \in Producers : pc'[q] = "exchange" => seen'[q] < consumer' + Capacity
      BY <3>1, <1>0, <1>1 DEF OwnersClaim
    <3>3. \A q, u \in Producers : q # u /\ Owns(q)' /\ Owns(u)' => seen'[q] # seen'[u]
      BY <1>0, <1>1, <2>2 DEF OwnersClaim
    <3>4. \A q \in Producers : Owns(q)' =>
            /\ seen'[q] \in next'..(producer' - 1) /\ log'[seen'[q] + 1] = event'[q]
            /\ slots'[Slot(seen'[q])].committed <= seen'[q]
            /\ pc'[q] = "commit" => slots'[Slot(seen'[q])].event = event'[q]
      BY <2>2, <2>3, <1>1
    <3> QED BY <3>2, <3>3, <3>4 DEF OwnersClaim, Slot
  <2>5. UnreadPublished'
    <3>1. ASSUME NEW s \in next..(producer - 1)
          PROVE  Owned(s)' \/ slots'[Slot(s)] = [event |-> log[s + 1], committed |-> s + 1]
      <4>1. CASE s = seen[p] BY <4>1, <2>1, <1>4
      <4>2. CASE s # seen[p]
        <5>1. s \in Nat BY <1>3
        <5>2. Slot(s) \in 0..(Capacity - 1) BY <5>1, Divided
        <5>3. slots'[Slot(s)] = slots[Slot(s)] BY <4>2, <5>2, <1>2, <1>5
        <5>4. Owned(s) => Owned(s)' BY <4>2, <1>1, <2>2 DEF Owned
        <5> QED BY <5>3, <5>4, <1>0 DEF UnreadPublished
      <4> QED BY <4>1, <4>2
    <3> QED BY <3>1, <1>1 DEF UnreadPublished, Slot
  <2>6. Cursors'
    <3>1. reader' = "copy" => Published'
      <4>1. Slot(next) \in 0..(Capacity - 1) BY <1>3, Divided
      <4> QED BY <4>1, <1>0, <1>1, <1>2, <1>5 DEF Cursors, Published, Slot
    <3>2. slots'[own].committed <= producer
      <4>1. slots'[own].committed = seen[p] + 1 BY <2>1
      <4> QED BY <4>1, <1>3, <1>4
    <3>3. \A i \in 0..(Capacity - 1) : slots'[i].committed <= producer'
      BY <1>0, <1>1, <1>5, <3>2 DEF Cursors
    <3> QED BY <3>1, <3>3, <1>0, <1>1 DEF Cursors
  <2> QED BY <2>4, <2>5, <2>6
<1> QED BY <1>6, <1>7

\* What is published next is what was claimed next: a number of a call, whole.
LEMMA NextEvent ==
  ASSUME RingInv, Published
  PROVE  next < producer /\ ~Owned(next) /\ slots[Slot(next)].event = log[next + 1]
<1>1. OwnersClaim /\ UnreadPublished /\ Cursors BY DEF RingInv
<1>2. producer \in Nat /\ next \in Nat /\ consumer \in Nat
  BY DEF RingInv, RingTypeOK
<1>3. Slot(next) \in 0..(Capacity - 1) BY <1>2, Divided
<1>4. slots[Slot(next)].committed = next + 1 BY DEF Published
<1>5. next < producer BY <1>1, <1>2, <1>3, <1>4 DEF Cursors
<1>6. ~Owned(next)
  <2>1. ASSUME NEW q \in Producers, Owns(q), seen[q] = next PROVE FALSE
    <3>1. slots[Slot(next)].committed <= next BY <2>1, <1>1 DEF OwnersClaim
    <3> QED BY <3>1, <1>2, <1>4
  <2> QED BY <2>1 DEF Owned
<1>7. next \in next..(producer - 1) BY <1>2, <1>5
<1>8. slots[Slot(next)] = [event |-> log[next + 1], committed |-> next + 1]
  BY <1>1, <1>6, <1>7 DEF UnreadPublished
<1> QED BY <1>5, <1>6, <1>8

\* The reader's steps.
LEMMA ReaderStep ==
  ASSUME RingInv, RingTypeOK', Check \/ Copy \/ Advance
  PROVE  OwnersClaim' /\ UnreadPublished' /\ Cursors'
<1>0. OwnersClaim /\ UnreadPublished /\ Cursors BY DEF RingInv
<1>1. /\ UNCHANGED <<producer, slots, pc, seen, event, calls, log>>
      /\ producer \in Nat /\ next \in Nat /\ consumer \in Nat /\ log \in Seq(Nat)
      /\ seen \in [Producers -> Nat]
  BY DEF Check, Copy, Advance, producing, RingInv, RingTypeOK
<1>2. CASE Check
  <2>1. UNCHANGED <<consumer, next, drained>> /\ Published /\ reader' = "copy" BY <1>2 DEF Check
  <2> QED BY <2>1, <1>0, <1>1 DEF OwnersClaim, UnreadPublished, Cursors, Owns, Owned, Slot, Published
<1>3. CASE Copy
  <2>1. /\ next' = next + 1 /\ reader' = "advance" /\ UNCHANGED consumer
        /\ drained' = Append(drained, slots[Slot(next)].event) /\ reader = "copy"
    BY <1>3 DEF Copy
  <2>2. Published BY <2>1, <1>0 DEF Cursors
  <2>3. next < producer /\ ~Owned(next) /\ slots[Slot(next)].event = log[next + 1]
    BY <2>2, NextEvent
  <2>4. Len(log) = producer /\ drained = SubSeq(log, 1, next) BY <1>0 DEF Cursors
  <2>5. drained' = SubSeq(log, 1, next')
    <3>1. next < Len(log) BY <2>3, <2>4
    <3>2. SubSeq(log, 1, next + 1) = Append(SubSeq(log, 1, next), log[next + 1])
      BY <1>1, <3>1, ReadSplit
    <3> QED BY <2>1, <2>3, <2>4, <3>2
  <2>6. OwnersClaim'
    <3>1. ASSUME NEW q \in Producers, Owns(q) PROVE seen[q] \in next'..(producer - 1)
      <4>1. seen[q] \in next..(producer - 1) BY <3>1, <1>0 DEF OwnersClaim
      <4>2. seen[q] # next BY <3>1, <2>3 DEF Owned
      <4> QED BY <4>1, <4>2, <2>1, <1>1
    <3> QED BY <3>1, <1>0, <1>1, <2>1 DEF OwnersClaim, Owns, Slot
  <2>7. UnreadPublished'
    <3>1. \A s \in next'..(producer' - 1) : s \in next..(producer - 1) BY <2>1, <1>1
    <3>2. \A s : Owned(s) => Owned(s)' BY <1>1 DEF Owned, Owns
    <3> QED BY <3>1, <3>2, <1>0, <1>1 DEF UnreadPublished, Slot
  <2>8. Cursors' BY <2>1, <2>3, <2>5, <1>0, <1>1 DEF Cursors
  <2> QED BY <2>6, <2>7, <2>8
<1>4. CASE Advance
  <2>1. UNCHANGED <<next, drained>> /\ consumer' = next /\ reader' = "check" BY <1>4 DEF Advance
  <2>2. consumer <= next BY <1>0 DEF Cursors
  <2>3. OwnersClaim'
    <3>1. \A q \in Producers : pc'[q] = "exchange" => seen'[q] < consumer' + Capacity
      BY <1>0, <1>1, <2>1, <2>2, CapacityAssumption DEF OwnersClaim
    <3> QED BY <3>1, <1>0, <1>1, <2>1 DEF OwnersClaim, Owns, Slot
  <2>4. UnreadPublished' BY <1>0, <1>1, <2>1 DEF UnreadPublished, Owned, Owns, Slot
  <2>5. Cursors' BY <1>0, <1>1, <2>1, <2>2, CapacityAssumption DEF Cursors
  <2> QED BY <2>3, <2>4, <2>5
<1> QED BY <1>2, <1>3, <1>4

\* The invariant is kept by every step.
LEMMA RingInductive == RingInv /\ [RingNext]_ringVars => RingInv'
<1> SUFFICES ASSUME RingInv, [RingNext]_ringVars PROVE RingInv' OBVIOUS
<1>1. RingTypeOK' BY RingTyped DEF RingInv
<1>2. EventsAreCalls' BY EventsStayCalls
<1>3. OwnersClaim' /\ UnreadPublished' /\ Cursors'
  <2>1. CASE Check \/ Copy \/ Advance BY <2>1, <1>1, ReaderStep
  <2>2. ASSUME NEW p \in Producers, Produce(p), UNCHANGED <<consumer, reading>>
        PROVE  OwnersClaim' /\ UnreadPublished' /\ Cursors'
    <3>1. CASE Call(p) \/ LoadProducer(p) \/ GiveUp(p) \/ FindRoom(p) \/ Retry(p)
      BY <3>1, <2>2, <1>1, BeforeClaim
    <3>2. CASE Claim(p) BY <3>2, <2>2, <1>1, ClaimStep
    <3>3. CASE BeginWrite(p) \/ EndWrite(p) \/ Commit(p) BY <3>3, <2>2, <1>1, OwnerStep
    <3> QED BY <3>1, <3>2, <3>3, <2>2 DEF Produce
  <2>3. CASE UNCHANGED ringVars
    BY <2>3 DEF ringVars, RingInv, OwnersClaim, UnreadPublished, Cursors, Owns, Owned, Slot, Published
  <2> QED BY <2>1, <2>2, <2>3 DEF RingNext
<1> QED BY <1>1, <1>2, <1>3 DEF RingInv

\* The ring's invariant.
LEMMA RingInvariant == RingSpec => []RingInv
<1>1. Init => RingInv BY RingStarts
<1>2. RingInv /\ [RingNext]_ringVars => RingInv' BY RingInductive
<1> QED BY <1>1, <1>2, PTL DEF RingSpec

------------------------------------------------------------------------------
(* What follows, for the ring by itself and within the recorder. *)

\* The recorder's steps are steps of the ring or leave it alone.
LEMMA RecorderIsRing == RecSpec => RingSpec
<1>1. RecInit => Init BY DEF RecInit
<1>2. [RecNext]_vars => [RingNext]_ringVars
  <2> SUFFICES ASSUME [RecNext]_vars PROVE [RingNext]_ringVars OBVIOUS
  <2>1. ASSUME NEW p \in Producers, Record(p) PROVE RingNext
    BY <2>1 DEF Record, RingNext
  <2>2. CASE Drain BY <2>2 DEF Drain, RingNext
  <2>3. CASE Drained \/ Look \/ Leave \/ Finish \/ DropRecorder
    BY <2>3 DEF Drained, Look, Leave, Finish, DropRecorder
  <2>4. CASE UNCHANGED vars BY <2>4 DEF vars
  <2> QED BY <2>1, <2>2, <2>3, <2>4 DEF RecNext
<1> QED BY <1>1, <1>2, PTL DEF RecSpec, RingSpec

\* The ring's variables keep their types, and no sequence of steps of the producers,
\* the flusher and Drop breaks them.
THEOREM RingTypes == RecSpec => []RingTypeOK
<1>1. RingInv => RingTypeOK BY DEF RingInv
<1> QED BY <1>1, RecorderIsRing, RingInvariant, PTL

\* No slot is written by two threads, nor read while it is written, for any number of
\* producers and any capacity.
THEOREM Exclusive == RecSpec => []SlotsExclusive
<1>1. RingInv => SlotsExclusive
  <2> SUFFICES ASSUME RingInv PROVE SlotsExclusive OBVIOUS
  <2>1. ASSUME NEW p \in Producers, NEW q \in Producers, p # q, Owns(p), Owns(q)
        PROVE  Slot(seen[p]) # Slot(seen[q])
    <3>1. seen[p] # seen[q] /\ seen[p] \in next..(producer - 1)
      BY <2>1 DEF RingInv, OwnersClaim
    <3>2. \A s \in next..(producer - 1) : s # seen[q] => Slot(s) # Slot(seen[q])
      BY <2>1, OwnSlot
    <3> QED BY <3>1, <3>2
  <2>2. ASSUME NEW p \in Producers, reader = "copy", Owns(p) PROVE Slot(seen[p]) # Slot(next)
    BY <2>2, OwnSlot
  <2> QED BY <2>1, <2>2 DEF SlotsExclusive
<1> QED BY <1>1, RecorderIsRing, RingInvariant, PTL

\* No event is overwritten before it is read.
THEOREM NotOverrun == RecSpec => []NeverOverrun
<1>1. RingInv => NeverOverrun
  BY CapacityAssumption DEF RingInv, RingTypeOK, Cursors, NeverOverrun
<1> QED BY <1>1, RecorderIsRing, RingInvariant, PTL

\* The ring starts as an empty queue.
LEMMA QueueStarts == Init => Queue!Init
<1> SUFFICES ASSUME Init PROVE Queue!Init OBVIOUS
<1>1. SubSeq(log, next + 1, Len(log)) = <<>>
  <2>1. log = <<>> /\ next = 0 BY DEF Init
  <2>2. Len(log) = 0 BY <2>1, EmptySeq
  <2>3. next + 1 \in Int /\ Len(log) \in Int /\ Len(log) < next + 1 BY <2>1, <2>2
  <2> QED BY <2>3, SubSeqEmpty
<1> QED BY <1>1 DEF Queue!Init, Init

\* A step of the ring is one of the queue, or none.
LEMMA QueueStep == RingInv /\ [RingNext]_ringVars => [Queue!Next]_(Queue!vars)
<1> SUFFICES ASSUME RingInv, [RingNext]_ringVars PROVE [Queue!Next]_(Queue!vars) OBVIOUS
<1>0. /\ Cursors /\ producer \in Nat /\ next \in Nat /\ consumer \in Nat
      /\ log \in Seq(Nat) /\ log \in Seq(1..MaxCalls) /\ Len(log) = producer
      /\ OwnersClaim /\ next <= producer /\ consumer <= next
  BY DEF RingInv, RingTypeOK, Cursors, EventsAreCalls
<1>1. ASSUME NEW p \in Producers, Claim(p), UNCHANGED <<consumer, reading>> PROVE Queue!Next
  <2>1. /\ log' = Append(log, event[p]) /\ UNCHANGED <<next, drained>>
        /\ producer < consumer + Capacity /\ event[p] \in 1..MaxCalls
    BY <1>0, <1>1 DEF Claim, Goto, OwnersClaim, RingInv, EventsAreCalls, reading
  <2>2. next \in 0..Len(log) BY <1>0
  <2>3. SubSeq(Append(log, event[p]), next + 1, Len(log) + 1)
          = Append(SubSeq(log, next + 1, Len(log)), event[p])
    BY <1>0, <2>1, <2>2, AppendSplit
  <2>4. Len(log') = Len(log) + 1 BY <1>0, <2>1, AppendProperties
  <2>5. SubSeq(log', next' + 1, Len(log')) = Append(SubSeq(log, next + 1, Len(log)), event[p])
    BY <2>1, <2>3, <2>4
  <2>6. Len(SubSeq(log, next + 1, Len(log))) < Capacity
    <3>1. \A i \in (next + 1)..Len(log) : log[i] \in Nat
      <4>1. \A i \in 1..Len(log) : log[i] \in Nat BY <1>0, ElementOfSeq
      <4> QED BY <4>1, <1>0
    <3>2. next + 1 \in Int /\ Len(log) \in Int BY <1>0
    <3>3. Len(SubSeq(log, next + 1, Len(log)))
            = IF next + 1 <= Len(log) THEN Len(log) - (next + 1) + 1 ELSE 0
      BY <3>1, <3>2, SubSeqProperties
    <3> QED BY <3>3, <1>0, <2>1, CapacityAssumption
  <2> QED BY <2>1, <2>5, <2>6 DEF Queue!Next, Queue!Enqueue
<1>2. CASE Copy
  <2>1. /\ next' = next + 1 /\ UNCHANGED log /\ reader = "copy"
        /\ drained' = Append(drained, slots[Slot(next)].event)
    BY <1>2 DEF Copy, producing
  <2>2. Published BY <1>0, <2>1 DEF Cursors
  <2>3. next < Len(log) /\ slots[Slot(next)].event = log[next + 1]
    BY <1>0, <2>2, NextEvent
  <2>4. /\ SubSeq(log, next + 1, Len(log)) # <<>>
        /\ Head(SubSeq(log, next + 1, Len(log))) = log[next + 1]
        /\ Tail(SubSeq(log, next + 1, Len(log))) = SubSeq(log, next + 2, Len(log))
    BY <1>0, <2>3, ReadSplit
  <2>5. next' + 1 = next + 2 BY <1>0, <2>1
  <2> QED BY <2>1, <2>3, <2>4, <2>5 DEF Queue!Next, Queue!Dequeue
<1>3. ASSUME NEW p \in Producers, Produce(p), ~Claim(p), UNCHANGED <<consumer, reading>>
      PROVE  UNCHANGED Queue!vars
  <2>1. UNCHANGED <<log, next, drained>>
    BY <1>3 DEF Produce, Call, LoadProducer, GiveUp, FindRoom, Retry, BeginWrite, EndWrite,
                Commit, reading
  <2> QED BY <2>1 DEF Queue!vars
<1>4. CASE Check \/ Advance
  <2>1. UNCHANGED <<log, next, drained>> BY <1>4 DEF Check, Advance, producing
  <2> QED BY <2>1 DEF Queue!vars
<1>5. CASE UNCHANGED ringVars BY <1>5 DEF ringVars, Queue!vars
<1> QED BY <1>1, <1>2, <1>3, <1>4, <1>5 DEF RingNext

\* The recorder's ring implements the bounded queue.
THEOREM RingIsQueue == RecSpec => ImplementsQueue
<1>1. RingSpec => Queue!Spec
  <2>1. Init => Queue!Init BY QueueStarts
  <2>2. RingInv /\ [RingNext]_ringVars => [Queue!Next]_(Queue!vars) BY QueueStep
  <2> QED BY <2>1, <2>2, RingInvariant, PTL DEF RingSpec, Queue!Spec
<1> QED BY <1>1, RecorderIsRing, PTL DEF ImplementsQueue

------------------------------------------------------------------------------
(* Concatenation: the buffer's batches, one after the other.  What FlattenSeq  *)
(* gives is known of every length by the least length of which it would not be. *)

\* The least of some numbers.
LEMMA LeastNumber ==
  ASSUME NEW S, S \subseteq Nat, S # {}
  PROVE  \E x \in S : \A y \in S : x <= y
<1> DEFINE R == {p \in Nat \X Nat : p[1] < p[2]}
<1>1. IsWellFoundedOn(R, Nat)
  BY NatLessThanWellFounded DEF OpToRel
<1>2. PICK x \in S : \A y \in S : ~(<<y, x>> \in R)
  <2> HIDE DEF R
  <2> QED BY <1>1, WFMin
<1>3. ASSUME NEW y \in S PROVE x <= y
  <2>1. x \in Nat /\ y \in Nat /\ ~(<<y, x>> \in R)
    BY <1>2
  <2>2. y < x => <<y, x>> \in R
    BY <2>1
  <2> QED BY <2>1, <2>2
<1> QED BY <1>3

\* The concatenation of s[1] to s[i], for each i in 1..m.
Flattens(f, s, m) == f = [i \in 1..m |-> IF i = 1 THEN s[i] ELSE f[i - 1] \o s[i]]

\* There is one for each m.
LEMMA FlattensExists ==
  ASSUME NEW s, NEW n \in Nat
  PROVE  \E f : Flattens(f, s, n)
<1> DEFINE Bad == {m \in Nat : ~\E f : Flattens(f, s, m)}
<1>1. SUFFICES ASSUME Bad # {} PROVE FALSE
  OBVIOUS
<1>2. PICK m \in Bad : \A k \in Bad : m <= k
  <2>1. Bad \subseteq Nat
    OBVIOUS
  <2> HIDE DEF Bad
  <2> QED BY <1>1, <2>1, LeastNumber
<1>3. CASE m = 0
  <2>1. Flattens([i \in 1..0 |-> s], s, 0)
    BY DEF Flattens
  <2> QED BY <1>2, <1>3, <2>1
<1>4. CASE m # 0
  <2>1. m - 1 \in Nat /\ m - 1 \notin Bad
    BY <1>2, <1>4
  <2>2. PICK g : Flattens(g, s, m - 1)
    BY <2>1
  <2> DEFINE f == [i \in 1..m |-> IF i = m THEN (IF m = 1 THEN s[m] ELSE g[m - 1] \o s[m]) ELSE g[i]]
  <2>3. ASSUME NEW i \in 1..m PROVE f[i] = IF i = 1 THEN s[i] ELSE f[i - 1] \o s[i]
    <3>1. CASE i = m
      BY <1>2, <1>4, <3>1
    <3>2. CASE i # m
      <4>1. i \in 1..(m - 1) /\ (i # 1 => i - 1 \in 1..m /\ i - 1 # m)
        BY <1>2, <3>2
      <4>2. g[i] = IF i = 1 THEN s[i] ELSE g[i - 1] \o s[i]
        BY <2>2, <4>1 DEF Flattens
      <4> QED BY <3>2, <4>1, <4>2
    <3> QED BY <3>1, <3>2
  <2>4. f = [i \in 1..m |-> f[i]]
    OBVIOUS
  <2> HIDE DEF f
  <2>5. Flattens(f, s, m)
    BY <2>3, <2>4 DEF Flattens
  <2> QED BY <1>2, <2>5
<1> QED BY <1>2, <1>3, <1>4

\* Two functions agree on 1..m.
Same(f, g, m) == \A i \in 1..m : f[i] = g[i]

\* Two agree where both are defined and the sequences agree.
LEMMA FlattensUnique ==
  ASSUME NEW s, NEW t, NEW m \in Nat, NEW n \in Nat, m <= n, NEW f, NEW g, Flattens(f, s, m), Flattens(g, t, n),
         Same(s, t, m)
  PROVE  Same(f, g, m)
<1> DEFINE Bad == {i \in 1..m : f[i] # g[i]}
<1>1. SUFFICES ASSUME Bad # {} PROVE FALSE
  BY DEF Same
<1>2. PICK i \in Bad : \A k \in Bad : i <= k
  <2>1. Bad \subseteq Nat
    OBVIOUS
  <2> HIDE DEF Bad
  <2> QED BY <1>1, <2>1, LeastNumber
<1>3. i \in 1..m /\ i \in 1..n /\ f[i] # g[i] /\ (i # 1 => i - 1 \in 1..m /\ i - 1 \notin Bad)
  BY <1>2
<1>4. f[i] = (IF i = 1 THEN s[i] ELSE f[i - 1] \o s[i]) /\ g[i] = (IF i = 1 THEN t[i] ELSE g[i - 1] \o t[i])
  BY <1>3 DEF Flattens
<1>5. i # 1 => f[i - 1] = g[i - 1]
  BY <1>3
<1>6. s[i] = t[i]
  BY <1>3 DEF Same
<1> HIDE DEF Bad
<1> QED BY <1>3, <1>4, <1>5, <1>6

\* What FlattenSeq gives.
LEMMA FlattenIs ==
  ASSUME NEW S, NEW s \in Seq(S)
  PROVE  /\ s = <<>> => FlattenSeq(s) = <<>>
         /\ s # <<>> => \E f : Flattens(f, s, Len(s)) /\ FlattenSeq(s) = f[Len(s)]
<1>1. Len(s) \in Nat /\ (s = <<>> <=> Len(s) = 0)
  BY EmptySeq, LenProperties
<1>2. CASE s = <<>>
  BY <1>1, <1>2 DEF FlattenSeq
<1>3. CASE s # <<>>
  <2> DEFINE h == CHOOSE f : Flattens(f, s, Len(s))
  <2>1. Flattens(h, s, Len(s))
    BY <1>1, FlattensExists
  <2>2. FlattenSeq(s) = h[Len(s)]
    BY <1>1, <1>3 DEF FlattenSeq, Flattens
  <2> QED BY <1>3, <2>1, <2>2
<1> QED BY <1>2, <1>3

\* One more sequence is concatenated.
LEMMA FlattenAppend ==
  ASSUME NEW S, NEW s \in Seq(Seq(S)), NEW b \in Seq(S), FlattenSeq(s) \in Seq(S)
  PROVE  FlattenSeq(Append(s, b)) = FlattenSeq(s) \o b
<1> DEFINE t == Append(s, b)
           n == Len(s)
<1>1. /\ t \in Seq(Seq(S)) /\ Len(t) = n + 1 /\ n \in Nat /\ t[n + 1] = b /\ \A i \in 1..n : t[i] = s[i]
      /\ t # <<>>
  BY AppendProperties, LenProperties
<1> HIDE DEF t
<1>2. PICK g : Flattens(g, t, n + 1) /\ FlattenSeq(t) = g[n + 1]
  BY <1>1, FlattenIs
<1>3. CASE s = <<>>
  <2>1. n = 0 /\ FlattenSeq(s) = <<>>
    BY <1>3, FlattenIs, EmptySeq
  <2>2. 1 \in 1..(n + 1) /\ n + 1 = 1
    BY <2>1
  <2>3. g[1] = t[1]
    BY <1>2, <2>2 DEF Flattens
  <2> QED BY <1>1, <1>2, <2>1, <2>2, <2>3, ConcatEmptySeq DEF t
<1>4. CASE s # <<>>
  <2>1. PICK f : Flattens(f, s, n) /\ FlattenSeq(s) = f[n]
    BY <1>4, FlattenIs
  <2>2. n > 0
    BY <1>1, <1>4, EmptySeq
  <2>3. f[n] = g[n]
    <3>1. n <= n + 1 /\ n + 1 \in Nat /\ n \in 1..n
      BY <1>1, <2>2
    <3>2. Same(s, t, n)
      BY <1>1 DEF Same
    <3>3. Flattens(f, s, n) /\ Flattens(g, t, n + 1)
      BY <1>2, <2>1
    <3>4. Same(f, g, n)
      <4> HIDE DEF n
      <4> QED BY <1>1, <3>1, <3>2, <3>3, FlattensUnique
    <3> QED BY <3>1, <3>4 DEF Same
  <2>4. g[n + 1] = g[n] \o t[n + 1]
    <3>1. n + 1 \in 1..(n + 1) /\ n + 1 # 1 /\ (n + 1) - 1 = n
      BY <1>1, <2>2
    <3> QED BY <1>2, <3>1 DEF Flattens
  <2> QED BY <1>1, <1>2, <2>1, <2>3, <2>4 DEF t
<1> QED BY <1>3, <1>4

\* A sequence of sequences gives a sequence.
LEMMA FlattenType ==
  ASSUME NEW S, NEW s \in Seq(Seq(S))
  PROVE  FlattenSeq(s) \in Seq(S)
<1>1. Len(s) \in Nat
  BY LenProperties
<1>2. CASE s = <<>>
  BY <1>2, FlattenIs, EmptySeq
<1>3. CASE s # <<>>
  <2>1. PICK f : Flattens(f, s, Len(s)) /\ FlattenSeq(s) = f[Len(s)]
    BY <1>3, FlattenIs
  <2> DEFINE Bad == {i \in 1..Len(s) : f[i] \notin Seq(S)}
  <2>2. Bad = {}
    <3> SUFFICES ASSUME Bad # {} PROVE FALSE
      OBVIOUS
    <3>1. PICK i \in Bad : \A k \in Bad : i <= k
      <4>1. Bad \subseteq Nat
        OBVIOUS
      <4> HIDE DEF Bad
      <4> QED BY <4>1, LeastNumber
    <3>2. i \in 1..Len(s) /\ f[i] \notin Seq(S) /\ (i # 1 => i - 1 \in 1..Len(s) /\ i - 1 \notin Bad)
      BY <1>1, <3>1
    <3>3. f[i] = IF i = 1 THEN s[i] ELSE f[i - 1] \o s[i]
      BY <2>1, <3>2 DEF Flattens
    <3>4. s[i] \in Seq(S)
      BY <3>2, ElementOfSeq
    <3>5. i # 1 => f[i - 1] \in Seq(S)
      BY <3>2
    <3> HIDE DEF Bad
    <3> QED BY <3>2, <3>3, <3>4, <3>5, ConcatProperties
  <2>3. Len(s) \in 1..Len(s)
    BY <1>1, <1>3, EmptySeq
  <2> QED BY <2>1, <2>2, <2>3
<1> QED BY <1>2, <1>3

\* Three sequences, and two and an element, can be put together in either order.
Regroups(a, b, c) == (a \o b) \o c = a \o (b \o c)
AppendsAfter(a, b, x) == a \o Append(b, x) = Append(a \o b, x)

\* Concatenation is associative.
LEMMA Regroup ==
  ASSUME NEW S, NEW a \in Seq(S), NEW b \in Seq(S), NEW c \in Seq(S)
  PROVE  Regroups(a, b, c)
BY DEF Regroups

\* One more element after another sequence.
LEMMA AppendAfter ==
  ASSUME NEW S, NEW a \in Seq(S), NEW b \in Seq(S), NEW x \in S
  PROVE  AppendsAfter(a, b, x)
BY DEF AppendsAfter

\* Two parts, of which the second gets one more sequence.
LEMMA FlattenConcatOne ==
  ASSUME NEW S, NEW s \in Seq(Seq(S)), NEW u \in Seq(Seq(S)), NEW b \in Seq(S),
         FlattenSeq(s \o u) = FlattenSeq(s) \o FlattenSeq(u)
  PROVE  FlattenSeq(s \o Append(u, b)) = FlattenSeq(s) \o FlattenSeq(Append(u, b))
<1>1. s \o u \in Seq(Seq(S))
  BY ConcatProperties
<1>2. AppendsAfter(s, u, b)
  BY AppendAfter
<1>4. FlattenSeq(Append(s \o u, b)) = FlattenSeq(s \o u) \o b
  BY <1>1, FlattenAppend, FlattenType
<1>5. FlattenSeq(Append(u, b)) = FlattenSeq(u) \o b
  BY FlattenAppend, FlattenType
<1>6. Regroups(FlattenSeq(s), FlattenSeq(u), b)
  <2>1. FlattenSeq(s) \in Seq(S) /\ FlattenSeq(u) \in Seq(S)
    BY FlattenType
  <2> QED BY <2>1, Regroup
<1> QED BY <1>2, <1>4, <1>5, <1>6 DEF AppendsAfter, Regroups

\* One more element of a prefix.
LEMMA LongerPrefix ==
  ASSUME NEW S, NEW t \in Seq(S), NEW n \in 1..Len(t)
  PROVE  /\ SubSeq(t, 1, n - 1) \in Seq(S) /\ t[n] \in S
         /\ SubSeq(t, 1, n) = Append(SubSeq(t, 1, n - 1), t[n])
OBVIOUS

\* The concatenation of two parts.
LEMMA FlattenConcat ==
  ASSUME NEW S, NEW s \in Seq(Seq(S)), NEW t \in Seq(Seq(S))
  PROVE  FlattenSeq(s \o t) = FlattenSeq(s) \o FlattenSeq(t)
<1> DEFINE Good(n) == FlattenSeq(s \o SubSeq(t, 1, n)) = FlattenSeq(s) \o FlattenSeq(SubSeq(t, 1, n))
           Bad == {n \in 0..Len(t) : ~Good(n)}
<1>1. Len(t) \in Nat /\ SubSeq(t, 1, Len(t)) = t
  BY LenProperties, SubSeqFull
<1>2. Good(0)
  <2>1. SubSeq(t, 1, 0) = <<>>
    BY SubSeqEmpty
  <2>2. FlattenSeq(<<>>) = <<>> /\ FlattenSeq(s) \in Seq(S)
    BY FlattenIs, FlattenType, EmptySeq
  <2>3. s \o <<>> = s /\ FlattenSeq(s) \o <<>> = FlattenSeq(s)
    BY <2>2, ConcatEmptySeq
  <2> QED BY <2>1, <2>2, <2>3
<1>3. ASSUME NEW n \in 1..Len(t), Good(n - 1) PROVE Good(n)
  <2>1. /\ SubSeq(t, 1, n - 1) \in Seq(Seq(S)) /\ t[n] \in Seq(S)
        /\ SubSeq(t, 1, n) = Append(SubSeq(t, 1, n - 1), t[n])
    BY LongerPrefix
  <2> DEFINE u == SubSeq(t, 1, n - 1)
             v == t[n]
  <2>2. u \in Seq(Seq(S)) /\ v \in Seq(S) /\ FlattenSeq(s \o u) = FlattenSeq(s) \o FlattenSeq(u)
    BY <1>3, <2>1
  <2>3. SubSeq(t, 1, n) = Append(u, v)
    BY <2>1
  <2> HIDE DEF u, v
  <2>4. FlattenSeq(s \o Append(u, v)) = FlattenSeq(s) \o FlattenSeq(Append(u, v))
    BY <2>2, FlattenConcatOne
  <2> QED BY <2>3, <2>4
<1> HIDE DEF Good
<1>4. Bad = {}
  <2> SUFFICES ASSUME Bad # {} PROVE FALSE
    OBVIOUS
  <2>1. PICK n \in Bad : \A k \in Bad : n <= k
    <3>1. Bad \subseteq Nat
      BY <1>1
    <3> HIDE DEF Bad
    <3> QED BY <3>1, LeastNumber
  <2>2. n \in 0..Len(t) /\ ~Good(n) /\ n # 0
    BY <1>2, <2>1
  <2>3. n \in 1..Len(t) /\ n - 1 \in 0..Len(t) /\ ~(n <= n - 1)
    BY <1>1, <2>2
  <2>4. n - 1 \notin Bad
    <3> HIDE DEF Bad
    <3> QED BY <2>1, <2>3
  <2> QED BY <1>3, <2>2, <2>3, <2>4
<1>5. Len(t) \in 0..Len(t)
  BY <1>1
<1>6. Good(Len(t))
  BY <1>4, <1>5
<1> QED BY <1>1, <1>6 DEF Good

\* After another sequence, the concatenations of two parts.
LEMMA FlattenAfter ==
  ASSUME NEW S, NEW p \in Seq(S), NEW x \in Seq(Seq(S)), NEW y \in Seq(Seq(S))
  PROVE  Regroups(p, FlattenSeq(x), FlattenSeq(y))
<1>1. FlattenSeq(x) \in Seq(S)
  BY FlattenType
<1>2. FlattenSeq(y) \in Seq(S)
  BY FlattenType
<1> QED BY <1>1, <1>2, Regroup

------------------------------------------------------------------------------
(* The recorder: what is read from the ring gets to the file, in order. *)

Row == Nat \cup {Torn}

WriterType == [open : BOOLEAN, buffer : Seq(Seq(Row)), file : Seq(Row)]

\* What a writer was given, in the file or on the way to it.
Stored(w) == w.file \o FlattenSeq(w.buffer)

\* Every row that was read is stored or pending, and there are no others.
RowsKept == ToSet(Stored(writer)) \cup ToSet(pending) = ToSet(drained)

\* While nothing fails, a flush leaves no batch behind, and the order is that of the reads.
InOrder ==
  faults = 0 =>
    /\ Stored(writer) \o pending = drained
    /\ writer.buffer = <<>>
    /\ writer.open <=> writer.file # <<>>

\* The thread leaves its loop after Drop has set the flag, when everything is read.
AllRead ==
  /\ flusher \in {"leave", "finish", "done"} => shutdown
  /\ shutdown => \A p \in Producers : pc[p] = "idle"
  /\ flusher \in {"finish", "done"} => next >= producer
  /\ flusher = "done" /\ faults = 0 =>
       pending = <<>> /\ outcome = IF writer.file = <<>> THEN "none" ELSE "published"

RecTypes ==
  /\ shutdown \in BOOLEAN /\ faults \in Nat
  /\ pending \in Seq(Row) /\ writer \in WriterType

RecInv == RecTypes /\ RowsKept /\ InOrder /\ AllRead

\* The elements of a sequence.
LEMMA InToSet ==
  ASSUME NEW S, NEW s \in Seq(S), NEW x
  PROVE  x \in ToSet(s) <=> \E i \in 1..Len(s) : x = s[i]
BY DEF ToSet

\* The elements of two sequences.
LEMMA ToSetConcat ==
  ASSUME NEW S, NEW a \in Seq(S), NEW b \in Seq(S)
  PROVE  ToSet(a \o b) = ToSet(a) \cup ToSet(b)
<1> DEFINE c == a \o b
<1>1. /\ c \in Seq(S) /\ Len(c) = Len(a) + Len(b) /\ Len(a) \in Nat /\ Len(b) \in Nat
      /\ \A i \in 1..(Len(a) + Len(b)) : c[i] = IF i <= Len(a) THEN a[i] ELSE b[i - Len(a)]
  BY ConcatProperties, LenProperties
<1> HIDE DEF c
<1>2. ASSUME NEW x \in ToSet(c) PROVE x \in ToSet(a) \cup ToSet(b)
  <2>1. PICK i \in 1..Len(c) : x = c[i]
    BY <1>1, <1>2, InToSet
  <2>2. i <= Len(a) => i \in 1..Len(a) /\ x = a[i]
    BY <1>1, <2>1
  <2>3. ~(i <= Len(a)) => i - Len(a) \in 1..Len(b) /\ x = b[i - Len(a)]
    BY <1>1, <2>1
  <2> QED BY <2>2, <2>3, InToSet
<1>3. ASSUME NEW x \in ToSet(a) PROVE x \in ToSet(c)
  <2>1. PICK i \in 1..Len(a) : x = a[i]
    BY <1>3, InToSet
  <2>2. i \in 1..Len(c) /\ x = c[i]
    BY <1>1, <2>1
  <2> QED BY <1>1, <2>2, InToSet
<1>4. ASSUME NEW x \in ToSet(b) PROVE x \in ToSet(c)
  <2>1. PICK j \in 1..Len(b) : x = b[j]
    BY <1>4, InToSet
  <2>2. Len(a) + j \in 1..(Len(a) + Len(b)) /\ ~(Len(a) + j <= Len(a)) /\ (Len(a) + j) - Len(a) = j
    BY <1>1, <2>1
  <2>3. Len(a) + j \in 1..Len(c) /\ x = c[Len(a) + j]
    BY <1>1, <2>1, <2>2
  <2> QED BY <1>1, <2>3, InToSet
<1>5. ToSet(c) = ToSet(a) \cup ToSet(b)
  BY <1>2, <1>3, <1>4
<1> QED BY <1>5 DEF c

\* The elements of a sequence with one more.
LEMMA ToSetAppend ==
  ASSUME NEW S, NEW a \in Seq(S), NEW x \in S
  PROVE  ToSet(Append(a, x)) = ToSet(a) \cup {x}
<1> DEFINE e == <<x>>
<1>1. e \in Seq(S) /\ ToSet(e) = {x}
  BY DEF ToSet
<1>2. Append(a, x) = a \o e
  BY AppendIsConcat
<1> HIDE DEF e
<1>3. ToSet(a \o e) = ToSet(a) \cup ToSet(e)
  BY <1>1, ToSetConcat
<1> QED BY <1>1, <1>2, <1>3

\* A sequence is its first n elements and the others.
LEMMA Cut ==
  ASSUME NEW S, NEW s \in Seq(S), NEW n \in 0..Len(s)
  PROVE  /\ SubSeq(s, 1, n) \in Seq(S) /\ SubSeq(s, n + 1, Len(s)) \in Seq(S)
         /\ SubSeq(s, 1, n) \o SubSeq(s, n + 1, Len(s)) = s
<1> DEFINE x == SubSeq(s, 1, n)
           y == SubSeq(s, n + 1, Len(s))
<1>1. Len(s) \in Nat /\ n \in Nat /\ n <= Len(s)
  BY LenProperties
<1>2. x \in Seq(S) /\ Len(x) = n /\ \A i \in 1..n : x[i] = s[i]
  BY <1>1
<1>3. y \in Seq(S) /\ Len(y) = Len(s) - n /\ \A i \in 1..(Len(s) - n) : y[i] = s[n + i]
  BY <1>1
<1> HIDE DEF x, y
<1>4. /\ x \o y \in Seq(S) /\ Len(x \o y) = Len(s)
      /\ \A i \in 1..Len(s) : (x \o y)[i] = IF i <= n THEN x[i] ELSE y[i - n]
  BY <1>1, <1>2, <1>3
<1>5. ASSUME NEW i \in 1..Len(s) PROVE (x \o y)[i] = s[i]
  <2>1. i <= n => i \in 1..n
    BY <1>1
  <2>2. ~(i <= n) => i - n \in 1..(Len(s) - n) /\ n + (i - n) = i
    BY <1>1
  <2>3. ~(i <= n) => y[i - n] = s[n + (i - n)]
    BY <1>3, <2>2
  <2> QED BY <1>2, <1>4, <2>1, <2>2, <2>3
<1>6. x \o y = s
  BY <1>4, <1>5, SeqEqual
<1> QED BY <1>2, <1>3, <1>6 DEF x, y

\* An attempt keeps what the writer has and what it is given; one in which nothing
\* failed succeeds.
Kept(w, rows, a) ==
  /\ a.writer \in WriterType /\ a.ok \in BOOLEAN /\ a.faults \in Nat
  /\ Stored(a.writer) = Stored(w) \o rows
  /\ a.faults = 0 => a.ok

\* The types of what is stored.
LEMMA StoredType ==
  ASSUME NEW w \in WriterType
  PROVE  /\ w.open \in BOOLEAN /\ w.file \in Seq(Row) /\ w.buffer \in Seq(Seq(Row))
         /\ FlattenSeq(w.buffer) \in Seq(Row) /\ Stored(w) \in Seq(Row)
<1>1. w.open \in BOOLEAN /\ w.file \in Seq(Row) /\ w.buffer \in Seq(Seq(Row))
  BY DEF WriterType
<1>2. FlattenSeq(w.buffer) \in Seq(Row)
  BY <1>1, FlattenType
<1> QED BY <1>1, <1>2, ConcatProperties DEF Stored

\* With an empty buffer everything is in the file.
LEMMA StoredInFile ==
  ASSUME NEW w \in WriterType, w.buffer = <<>>
  PROVE  Stored(w) = w.file
<1>1. FlattenSeq(w.buffer) = <<>>
  BY StoredType, FlattenIs
<1> QED BY <1>1, StoredType, ConcatEmptySeq DEF Stored

\* Batches that get into the file are not lost.
LEMMA WrittenKeeps ==
  ASSUME NEW w \in WriterType, NEW n \in 0..Len(w.buffer)
  PROVE  /\ Written(w, n) \in WriterType /\ Stored(Written(w, n)) = Stored(w)
         /\ Written(w, n).open = TRUE
         /\ n = Len(w.buffer) => Written(w, n).buffer = <<>>
<1> DEFINE b == w.buffer
           x == SubSeq(b, 1, n)
           y == SubSeq(b, n + 1, Len(b))
<1>1. b \in Seq(Seq(Row)) /\ w.file \in Seq(Row)
  BY StoredType
<1>2. x \in Seq(Seq(Row)) /\ y \in Seq(Seq(Row)) /\ x \o y = b
  BY <1>1, Cut
<1>3. Written(w, n) = [open |-> TRUE, buffer |-> y, file |-> w.file \o FlattenSeq(x)]
  BY DEF Written
<1>4. n = Len(b) => y = <<>>
  BY <1>1, SubSeqEmpty, LenProperties
<1> HIDE DEF x, y
<1>5. /\ FlattenSeq(x) \in Seq(Row) /\ FlattenSeq(y) \in Seq(Row)
      /\ FlattenSeq(b) = FlattenSeq(x) \o FlattenSeq(y)
  BY <1>2, FlattenType, FlattenConcat
<1>6. w.file \o FlattenSeq(x) \in Seq(Row)
  BY <1>1, <1>5, ConcatProperties
<1>7. Regroups(w.file, FlattenSeq(x), FlattenSeq(y))
  BY <1>1, <1>2, FlattenAfter
<1>8. Written(w, n) \in WriterType
  BY <1>2, <1>3, <1>6 DEF WriterType
<1>9. Stored(Written(w, n)) = (w.file \o FlattenSeq(x)) \o FlattenSeq(y)
  BY <1>3 DEF Stored
<1>10. Stored(w) = w.file \o (FlattenSeq(x) \o FlattenSeq(y))
  BY <1>5 DEF Stored
<1>11. Written(w, n).open = TRUE /\ Written(w, n).buffer = y
  BY <1>3
<1> QED BY <1>4, <1>7, <1>8, <1>9, <1>10, <1>11 DEF Regroups

\* An attempt at nothing.
LEMMA KeptAsIs ==
  ASSUME NEW w \in WriterType, NEW ok \in BOOLEAN, NEW n \in Nat, n = 0 => ok
  PROVE  Kept(w, <<>>, Attempt(w, ok, n))
<1>1. Stored(w) \o <<>> = Stored(w)
  BY StoredType, ConcatEmptySeq
<1> QED BY <1>1 DEF Kept, Attempt

\* A flush keeps everything; with nothing in the buffer it does nothing, and one
\* without a failure leaves the buffer empty and the file open.
LEMMA FlushKeeps ==
  ASSUME NEW w \in WriterType, NEW a \in Flush(w)
  PROVE  /\ Kept(w, <<>>, a)
         /\ w.buffer = <<>> => a = Attempt(w, TRUE, 0)
         /\ a.ok => a.faults = 0
         /\ a.faults = 0 /\ w.buffer # <<>> => a.writer.buffer = <<>> /\ a.writer.open
<1>1. CASE w.buffer = <<>>
  <2>1. a = Attempt(w, TRUE, 0)
    BY <1>1 DEF Flush
  <2>2. a.faults = 0
    BY <2>1 DEF Attempt
  <2> QED BY <1>1, <2>1, <2>2, KeptAsIs
<1>2. CASE w.buffer # <<>>
  <2>0. Len(w.buffer) \in Nat
    BY StoredType, LenProperties
  <2>1. CASE a = Attempt(w, FALSE, 1)
    <3>1. a.ok \in BOOLEAN /\ ~a.ok /\ a.faults \in Nat /\ a.faults # 0
      BY <2>1 DEF Attempt
    <3>2. Stored(w) \o <<>> = Stored(w) /\ a.writer = w
      BY <2>1, StoredType, ConcatEmptySeq DEF Attempt
    <3>3. Kept(w, <<>>, a)
      BY <3>1, <3>2 DEF Kept
    <3> QED BY <3>3, <1>2, <3>1, <3>2
  <2>2. ASSUME NEW n \in 0..Len(w.buffer), NEW ok \in BOOLEAN, NEW m \in Nat,
               a = Attempt(Written(w, n), ok, m), m = 0 <=> ok, ok => n = Len(w.buffer)
        PROVE  /\ Kept(w, <<>>, a)
               /\ a.ok => a.faults = 0
               /\ a.faults = 0 => a.writer.buffer = <<>> /\ a.writer.open
    <3>1. a.writer = Written(w, n) /\ a.ok = ok /\ a.faults = m
      BY <2>2 DEF Attempt
    <3>2. /\ a.writer \in WriterType /\ Stored(a.writer) = Stored(w)
          /\ a.writer.open = TRUE
          /\ ok => a.writer.buffer = <<>>
      BY <2>2, <3>1, WrittenKeeps
    <3>3. Kept(a.writer, <<>>, Attempt(a.writer, ok, m))
      BY <2>2, <3>2, KeptAsIs
    <3>4. Kept(w, <<>>, a)
      BY <2>2, <3>1, <3>2, <3>3 DEF Kept
    <3> QED BY <2>2, <3>1, <3>2, <3>4
  <2>3. \/ a = Attempt(w, FALSE, 1)
        \/ a = Attempt(Written(w, Len(w.buffer)), TRUE, 0)
        \/ \E n \in 0..(Len(w.buffer) - 1) : a = Attempt(Written(w, n), FALSE, 1)
    BY <1>2 DEF Flush
  <2>4. CASE a = Attempt(Written(w, Len(w.buffer)), TRUE, 0)
    <3>1. Len(w.buffer) \in 0..Len(w.buffer) /\ 0 \in Nat
      BY <2>0
    <3> QED BY <1>2, <2>2, <2>4, <3>1
  <2>5. ASSUME NEW n \in 0..(Len(w.buffer) - 1), a = Attempt(Written(w, n), FALSE, 1)
        PROVE  /\ Kept(w, <<>>, a)
               /\ a.ok => a.faults = 0
               /\ a.faults = 0 => a.writer.buffer = <<>> /\ a.writer.open
    <3>1. n \in 0..Len(w.buffer) /\ 1 \in Nat /\ ~(1 = 0)
      BY <2>0
    <3> QED BY <2>2, <2>5, <3>1
  <2> QED BY <1>2, <2>1, <2>3, <2>4, <2>5
<1> QED BY <1>1, <1>2

\* Two attempts, one after the other.
LEMMA KeptTwice ==
  ASSUME NEW w, NEW rows, NEW a, NEW b, Kept(w, rows, a), Kept(a.writer, <<>>, b)
  PROVE  Kept(w, rows, b)
<1>1. /\ a.writer \in WriterType /\ Stored(a.writer) = Stored(w) \o rows
      /\ Stored(b.writer) = Stored(a.writer) \o <<>>
  BY DEF Kept
<1>2. Stored(a.writer) \o <<>> = Stored(a.writer)
  BY <1>1, StoredType, ConcatEmptySeq
<1> QED BY <1>1, <1>2 DEF Kept

\* The batch is in the buffer, whatever the flush does.
LEMMA WriteKeeps ==
  ASSUME NEW w \in WriterType, NEW rows \in Seq(Row), NEW a \in Write(w, rows)
  PROVE  /\ Kept(w, rows, a)
         /\ a.ok => a.faults = 0
         /\ a.ok /\ a.writer.buffer = <<>> => a.writer.open
<1> DEFINE v == [w EXCEPT !.buffer = Append(@, rows)]
           p == w.file
           q == FlattenSeq(w.buffer)
<1>1. /\ w.open \in BOOLEAN /\ p \in Seq(Row) /\ w.buffer \in Seq(Seq(Row)) /\ q \in Seq(Row)
      /\ w = [open |-> w.open, buffer |-> w.buffer, file |-> w.file]
  BY StoredType DEF WriterType
<1>2. /\ v = [open |-> w.open, buffer |-> Append(w.buffer, rows), file |-> p]
      /\ Append(w.buffer, rows) \in Seq(Seq(Row)) /\ Append(w.buffer, rows) # <<>>
  <2>1. Append(w.buffer, rows) \in Seq(Seq(Row)) /\ Append(w.buffer, rows) # <<>>
    BY <1>1, AppendProperties
  <2>2. v = [open |-> w.open, buffer |-> Append(w.buffer, rows), file |-> p]
    <3> DEFINE x == Append(w.buffer, rows)
    <3>1. v = [w EXCEPT !.buffer = x]
      OBVIOUS
    <3> HIDE DEF x, v
    <3>2. v = [open |-> w.open, buffer |-> x, file |-> p]
      BY <1>1, <3>1
    <3> QED BY <3>2 DEF x
  <2> QED BY <2>1, <2>2
<1>3. v \in WriterType /\ v.buffer # <<>>
  BY <1>1, <1>2 DEF WriterType
<1>4. Stored(v) = Stored(w) \o rows
  <2>1. FlattenSeq(Append(w.buffer, rows)) = q \o rows
    BY <1>1, FlattenAppend
  <2>2. Stored(v) = p \o (q \o rows) /\ Stored(w) = p \o q
    BY <1>2, <2>1 DEF Stored
  <2>3. Regroups(p, q, rows)
    BY <1>1, Regroup
  <2> QED BY <2>2, <2>3 DEF Regroups
<1>5. a \in Flush(v) \/ a = Attempt(v, TRUE, 0)
  BY DEF Write
<1> HIDE DEF v
<1>6. Kept(w, rows, Attempt(v, TRUE, 0))
  BY <1>3, <1>4 DEF Kept, Attempt
<1>7. CASE a \in Flush(v)
  <2>1. /\ Kept(v, <<>>, a)
        /\ a.ok => a.faults = 0
        /\ a.faults = 0 => a.writer.buffer = <<>> /\ a.writer.open
    BY <1>3, <1>7, FlushKeeps
  <2>2. Kept(w, rows, a)
    <3>1. Attempt(v, TRUE, 0).writer = v
      BY DEF Attempt
    <3> QED BY <1>6, <2>1, <3>1, KeptTwice
  <2> QED BY <2>1, <2>2
<1>8. CASE a = Attempt(v, TRUE, 0)
  <2>1. a.writer = v /\ a.ok = TRUE /\ a.faults = 0
    BY <1>8 DEF Attempt
  <2> QED BY <1>3, <1>6, <1>8, <2>1
<1> QED BY <1>5, <1>7, <1>8

\* The rows of the flusher: whatever happens they are in the writer as well; with no
\* failure they are in the file.
LEMMA FlushPendingKeeps ==
  ASSUME NEW w \in WriterType, NEW rows \in Seq(Row), NEW a \in FlushPending(w, rows)
  PROVE  /\ Kept(w, rows, a)
         /\ rows = <<>> => a = Attempt(w, TRUE, 0)
         /\ a.faults = 0 /\ rows # <<>> => a.writer.buffer = <<>> /\ a.writer.open
<1>1. CASE rows = <<>>
  <2>1. a = Attempt(w, TRUE, 0)
    BY <1>1 DEF FlushPending
  <2>2. Kept(w, <<>>, a)
    BY <2>1, KeptAsIs
  <2> QED BY <1>1, <2>1, <2>2
<1>2. CASE rows # <<>>
  <2>1. PICK b \in Write(w, rows) : a \in IF b.ok THEN Flush(b.writer) ELSE {b}
    BY <1>2 DEF FlushPending
  <2>2. /\ Kept(w, rows, b)
        /\ b.ok => b.faults = 0
        /\ b.ok /\ b.writer.buffer = <<>> => b.writer.open
    BY <2>1, WriteKeeps
  <2>3. b.writer \in WriterType /\ (b.faults = 0 => b.ok)
    BY <2>2 DEF Kept
  <2>4. CASE b.ok
    <3>1. a \in Flush(b.writer)
      BY <2>1, <2>4
    <3>2. /\ Kept(b.writer, <<>>, a)
          /\ b.writer.buffer = <<>> => a = Attempt(b.writer, TRUE, 0)
          /\ a.faults = 0 /\ b.writer.buffer # <<>> => a.writer.buffer = <<>> /\ a.writer.open
      BY <2>3, <3>1, FlushKeeps
    <3>3. Kept(w, rows, a)
      BY <2>2, <3>2, KeptTwice
    <3>4. CASE b.writer.buffer = <<>>
      <4>1. a.writer = b.writer
        BY <3>2, <3>4 DEF Attempt
      <4> QED BY <1>2, <2>2, <2>4, <3>3, <3>4, <4>1
    <3> QED BY <1>2, <3>2, <3>3, <3>4
  <2>5. CASE ~b.ok
    <3>1. a = b
      BY <2>1, <2>5
    <3> QED BY <1>2, <2>2, <2>3, <2>5, <3>1
  <2> QED BY <2>4, <2>5
<1> QED BY <1>1, <1>2

\* What an end makes of a writer: it keeps what is stored.
Ended(w, d) ==
  /\ d.writer \in WriterType /\ d.faults \in Nat
  /\ Stored(d.writer) = Stored(w)

\* An end with the writer that a flush left.
LEMMA EndAfterFlush ==
  ASSUME NEW w \in WriterType, NEW a, Kept(w, <<>>, a), NEW what, NEW n \in Nat
  PROVE  Ended(w, End(a.writer, what, n))
<1>1. Stored(w) \o <<>> = Stored(w)
  BY StoredType, ConcatEmptySeq
<1> QED BY <1>1 DEF Kept, Ended, End

\* Dropping a writer keeps what is stored; with nothing to write and no failure its
\* file gets its name, if there is one.
LEMMA DroppedKeeps ==
  ASSUME NEW w \in WriterType, NEW taken \in BOOLEAN, NEW d \in Dropped(w, taken)
  PROVE  /\ Ended(w, d)
         /\ d.faults = 0 /\ w.buffer = <<>> /\ ~taken =>
              d.writer = w /\ d.outcome = IF w.open THEN "published" ELSE "none"
<1>1. PICK a \in Flush(w) :
        d \in IF ~a.writer.open THEN {End(a.writer, "none", a.faults)}
              ELSE IF ~a.ok THEN {End(a.writer, "removed", a.faults)}
              ELSE {End(a.writer, IF taken THEN "noFooter" ELSE "published", a.faults),
                    End(a.writer, "temporary", a.faults + 1)}
                   \cup {End(a.writer, "removed", a.faults + 1) : c \in {FALSE} \ {taken}}
  BY DEF Dropped
<1>2. /\ Kept(w, <<>>, a)
      /\ w.buffer = <<>> => a = Attempt(w, TRUE, 0)
  BY <1>1, FlushKeeps
<1>3. a.faults \in Nat /\ a.faults + 1 \in Nat /\ a.faults + 1 # 0 /\ a.writer \in WriterType
      /\ (a.faults = 0 => a.ok)
  BY <1>2 DEF Kept
<1>4. w.buffer = <<>> => a.writer = w /\ a.faults = 0
  BY <1>2 DEF Attempt
<1>5. \/ ~a.writer.open /\ d = End(a.writer, "none", a.faults)
      \/ a.writer.open /\ a.ok /\ d = End(a.writer, IF taken THEN "noFooter" ELSE "published", a.faults)
      \/ ~a.ok /\ d = End(a.writer, "removed", a.faults)
      \/ d = End(a.writer, "temporary", a.faults + 1)
      \/ d = End(a.writer, "removed", a.faults + 1)
  BY <1>1
<1>6. CASE ~a.writer.open /\ d = End(a.writer, "none", a.faults)
  <2>1. Ended(w, d)
    BY <1>2, <1>3, <1>6, EndAfterFlush
  <2>2. d.writer = a.writer /\ d.outcome = "none"
    BY <1>6 DEF End
  <2> QED BY <1>4, <1>6, <2>1, <2>2
<1>7. CASE a.writer.open /\ a.ok /\ d = End(a.writer, IF taken THEN "noFooter" ELSE "published", a.faults)
  <2>1. Ended(w, d)
    BY <1>2, <1>3, <1>7, EndAfterFlush
  <2>2. d.writer = a.writer /\ (~taken => d.outcome = "published")
    BY <1>7 DEF End
  <2> QED BY <1>4, <1>7, <2>1, <2>2
<1>8. CASE ~a.ok /\ d = End(a.writer, "removed", a.faults)
  <2>1. Ended(w, d)
    BY <1>2, <1>3, <1>8, EndAfterFlush
  <2>2. d.faults = a.faults
    BY <1>8 DEF End
  <2> QED BY <1>3, <1>8, <2>1, <2>2
<1>9. ASSUME NEW what, d = End(a.writer, what, a.faults + 1)
      PROVE  Ended(w, d) /\ d.faults # 0
  <2>1. Ended(w, d)
    BY <1>2, <1>3, <1>9, EndAfterFlush
  <2>2. d.faults = a.faults + 1
    BY <1>9 DEF End
  <2> QED BY <1>3, <2>1, <2>2
<1> QED BY <1>5, <1>6, <1>7, <1>8, <1>9

\* An end of a writer, with more failures counted.
LEMMA EndLater ==
  ASSUME NEW w \in WriterType, NEW a, Kept(w, <<>>, a), NEW taken \in BOOLEAN,
         NEW d \in Dropped(a.writer, taken), NEW n \in Nat
  PROVE  /\ Ended(w, [d EXCEPT !.faults = @ + n])
         /\ [d EXCEPT !.faults = @ + n].faults = d.faults + n /\ d.faults \in Nat
<1>1. a.writer \in WriterType /\ Stored(a.writer) = Stored(w)
  BY StoredType, ConcatEmptySeq DEF Kept
<1>2. Ended(a.writer, d)
  BY <1>1, DroppedKeeps
<1>3. PICK v, what, k : d = End(v, what, k)
  BY DEF Dropped
<1>4. [d EXCEPT !.faults = @ + n] = End(v, what, k + n) /\ d.writer = v /\ d.faults = k
  BY <1>3 DEF End
<1>5. k \in Nat /\ k + n \in Nat /\ v \in WriterType /\ Stored(v) = Stored(w)
  BY <1>1, <1>2, <1>4 DEF Ended
<1>6. End(v, what, k + n).writer = v /\ End(v, what, k + n).faults = k + n
  BY DEF End
<1>7. Ended(w, End(v, what, k + n))
  BY <1>5, <1>6 DEF Ended
<1> QED BY <1>4, <1>5, <1>6, <1>7

\* Closing a writer keeps what is stored; with nothing to write and no failure the
\* file gets its name.
LEMMA ClosedKeeps ==
  ASSUME NEW w \in WriterType, NEW d \in Closed(w)
  PROVE  /\ Ended(w, d)
         /\ d.faults = 0 /\ w.buffer = <<>> => d.writer = w /\ d.outcome = "published"
<1>1. PICK a \in Flush(w) :
        d \in IF ~a.ok
              THEN {[e EXCEPT !.faults = @ + a.faults] : e \in Dropped(a.writer, FALSE)}
              ELSE {End(a.writer, "published", a.faults), End(a.writer, "temporary", a.faults + 1)}
                   \cup {[e EXCEPT !.faults = @ + a.faults + 1] : e \in Dropped(a.writer, TRUE)}
  BY DEF Closed
<1>2. /\ Kept(w, <<>>, a)
      /\ w.buffer = <<>> => a = Attempt(w, TRUE, 0)
  BY <1>1, FlushKeeps
<1>3. a.faults \in Nat /\ a.faults + 1 \in Nat /\ (a.faults = 0 => a.ok) /\ a.writer \in WriterType
  BY <1>2 DEF Kept
<1>4. w.buffer = <<>> => a.writer = w
  BY <1>2 DEF Attempt
<1>5. CASE d = End(a.writer, "published", a.faults)
  <2>1. Ended(w, d)
    BY <1>2, <1>3, <1>5, EndAfterFlush
  <2>2. d.writer = a.writer /\ d.outcome = "published"
    BY <1>5 DEF End
  <2> QED BY <1>4, <2>1, <2>2
<1>6. CASE d = End(a.writer, "temporary", a.faults + 1)
  <2>1. Ended(w, d)
    BY <1>2, <1>3, <1>6, EndAfterFlush
  <2>2. d.faults = a.faults + 1
    BY <1>6 DEF End
  <2>3. d.faults # 0
    BY <1>3, <2>2
  <2> QED BY <2>1, <2>3
<1>7. CASE ~a.ok /\ d \in {[e EXCEPT !.faults = @ + a.faults] : e \in Dropped(a.writer, FALSE)}
  <2>1. PICK e \in Dropped(a.writer, FALSE) : d = [e EXCEPT !.faults = @ + a.faults]
    BY <1>7
  <2>2. /\ Ended(w, [e EXCEPT !.faults = @ + a.faults])
        /\ [e EXCEPT !.faults = @ + a.faults].faults = e.faults + a.faults /\ e.faults \in Nat
    BY <1>2, <1>3, <2>1, EndLater
  <2>3. e.faults + a.faults # 0
    BY <1>3, <1>7, <2>2
  <2> QED BY <2>1, <2>2, <2>3
<1>8. CASE d \in {[e EXCEPT !.faults = @ + a.faults + 1] : e \in Dropped(a.writer, TRUE)}
  <2> DEFINE n == a.faults + 1
  <2>1. PICK e \in Dropped(a.writer, TRUE) : d = [e EXCEPT !.faults = @ + a.faults + 1]
    BY <1>8
  <2>2. /\ Ended(w, [e EXCEPT !.faults = @ + n])
        /\ [e EXCEPT !.faults = @ + n].faults = e.faults + n /\ e.faults \in Nat
    <3>1. n \in Nat
      BY <1>3
    <3> HIDE DEF n
    <3> QED BY <1>2, <2>1, <3>1, EndLater
  <2>3. e.faults + a.faults + 1 = e.faults + n /\ e.faults + n # 0
    BY <1>3, <2>2
  <2>4. d = [e EXCEPT !.faults = @ + n]
    BY <2>1, <2>3
  <2> QED BY <2>2, <2>3, <2>4
<1> QED BY <1>1, <1>5, <1>6, <1>7, <1>8

------------------------------------------------------------------------------
(* The recorder's steps. *)

\* An attempt at the pending rows: everything that was read is then in the writer, and
\* in its file, if nothing ever failed.
LEMMA GivenRows ==
  ASSUME RecTypes, RowsKept, InOrder, NEW a \in FlushPending(writer, pending)
  PROVE  /\ a.writer \in WriterType /\ a.ok \in BOOLEAN /\ a.faults \in Nat
         /\ ToSet(Stored(a.writer)) = ToSet(drained)
         /\ ToSet(pending) \subseteq ToSet(drained)
         /\ faults = 0 /\ a.faults = 0 =>
              /\ a.ok
              /\ Stored(a.writer) = drained
              /\ a.writer.buffer = <<>>
              /\ a.writer.open <=> a.writer.file # <<>>
<1>1. pending \in Seq(Row) /\ writer \in WriterType
  BY DEF RecTypes
<1>2. /\ Kept(writer, pending, a)
      /\ pending = <<>> => a = Attempt(writer, TRUE, 0)
      /\ a.faults = 0 /\ pending # <<>> => a.writer.buffer = <<>> /\ a.writer.open
  BY <1>1, FlushPendingKeeps
<1>3. /\ a.writer \in WriterType /\ a.ok \in BOOLEAN /\ a.faults \in Nat
      /\ Stored(a.writer) = Stored(writer) \o pending
      /\ a.faults = 0 => a.ok
  BY <1>2 DEF Kept
<1>4. Stored(writer) \in Seq(Row)
  BY <1>1, StoredType
<1>5. ToSet(Stored(a.writer)) = ToSet(Stored(writer)) \cup ToSet(pending)
  BY <1>1, <1>3, <1>4, ToSetConcat
<1>6. ASSUME faults = 0, a.faults = 0
      PROVE  /\ Stored(a.writer) = drained
             /\ a.writer.buffer = <<>>
             /\ a.writer.open <=> a.writer.file # <<>>
  <2>1. Stored(a.writer) = drained
    BY <1>3, <1>6 DEF InOrder
  <2>2. CASE pending = <<>>
    <3>1. a.writer = writer
      BY <1>2, <2>2 DEF Attempt
    <3> QED BY <1>6, <2>1, <3>1 DEF InOrder
  <2>3. CASE pending # <<>>
    <3>1. a.writer.buffer = <<>> /\ a.writer.open
      BY <1>2, <1>6, <2>3
    <3>2. a.writer.file = Stored(writer) \o pending
      BY <1>3, <3>1, StoredInFile
    <3>3. Stored(writer) \o pending # <<>>
      <4> DEFINE s == Stored(writer)
      <4> HIDE DEF s
      <4>1. s \in Seq(Row)
        BY <1>4 DEF s
      <4>2. s \o pending # <<>>
        BY <1>1, <2>3, <4>1
      <4> QED BY <4>2 DEF s
    <3> QED BY <2>1, <3>1, <3>2, <3>3
  <2> QED BY <2>1, <2>2, <2>3
<1> QED BY <1>3, <1>5, <1>6 DEF RowsKept

\* The flusher's writes.
LEMMA FlushedKeeps ==
  ASSUME RecTypes, RowsKept, InOrder, Flushed(pending), drained' = drained
  PROVE  /\ pending' \in Seq(Row) /\ writer' \in WriterType /\ faults' \in Nat
         /\ RowsKept' /\ InOrder'
<1>1. PICK a \in FlushPending(writer, pending) :
        /\ writer' = a.writer
        /\ pending' = IF a.ok THEN <<>> ELSE pending
        /\ faults' = faults + a.faults
  BY DEF Flushed
<1>2. pending \in Seq(Row) /\ faults \in Nat
  BY DEF RecTypes
<1>3. /\ a.writer \in WriterType /\ a.ok \in BOOLEAN /\ a.faults \in Nat
      /\ ToSet(Stored(a.writer)) = ToSet(drained)
      /\ ToSet(pending) \subseteq ToSet(drained)
      /\ faults = 0 /\ a.faults = 0 =>
           /\ a.ok
           /\ Stored(a.writer) = drained
           /\ a.writer.buffer = <<>>
           /\ a.writer.open <=> a.writer.file # <<>>
  BY GivenRows
<1>4. pending' \in Seq(Row) /\ faults' \in Nat /\ (faults' = 0 => faults = 0 /\ a.faults = 0)
  BY <1>1, <1>2, <1>3
<1>5. RowsKept'
  <2>1. ToSet(<<>>) = {}
    BY DEF ToSet
  <2>2. ToSet(pending') \subseteq ToSet(drained)
    BY <1>1, <1>3, <2>1
  <2>3. Stored(writer)' = Stored(a.writer)
    BY <1>1 DEF Stored
  <2> QED BY <1>3, <2>2, <2>3 DEF RowsKept
<1>6. InOrder'
  <2> SUFFICES ASSUME faults' = 0
               PROVE  /\ Stored(writer') \o pending' = drained
                      /\ writer'.buffer = <<>>
                      /\ writer'.open <=> writer'.file # <<>>
    BY DEF InOrder, Stored
  <2>1. /\ a.ok /\ Stored(a.writer) = drained
        /\ a.writer.buffer = <<>>
        /\ a.writer.open <=> a.writer.file # <<>>
    BY <1>3, <1>4
  <2>2. Stored(a.writer) \o <<>> = Stored(a.writer)
    BY <1>3, StoredType, ConcatEmptySeq
  <2>3. pending' = <<>> /\ writer' = a.writer
    BY <1>1, <2>1
  <2> QED BY <2>1, <2>2, <2>3
<1> QED BY <1>1, <1>3, <1>4, <1>5, <1>6

\* A row is copied from the ring.
LEMMA CopyKeeps ==
  ASSUME RecTypes, RowsKept, InOrder, RingTypeOK, Copy, UNCHANGED <<writer, faults>>,
         pending' = Append(pending, drained'[Len(drained')])
  PROVE  pending' \in Seq(Row) /\ RowsKept' /\ InOrder'
<1> DEFINE x == slots[Slot(next)].event
<1>1. x \in Row
  <2>1. Slot(next) \in 0..(Capacity - 1)
    BY CapacityAssumption DEF RingTypeOK, Slot
  <2> QED BY <2>1 DEF RingTypeOK, Row
<1>2. drained \in Seq(Row) /\ pending \in Seq(Row) /\ Stored(writer) \in Seq(Row)
  BY StoredType DEF RingTypeOK, Row, RecTypes
<1>3. drained' = Append(drained, x)
  BY DEF Copy
<1> HIDE DEF x
<1>4. drained'[Len(drained')] = x
  BY <1>1, <1>2, <1>3
<1>5. pending' = Append(pending, x) /\ pending' \in Seq(Row)
  BY <1>1, <1>2, <1>4
<1>6. Stored(writer)' = Stored(writer)
  BY DEF Stored
<1>7. RowsKept'
  <2>1. ToSet(Append(pending, x)) = ToSet(pending) \cup {x}
    BY <1>1, <1>2, ToSetAppend
  <2>2. ToSet(Append(drained, x)) = ToSet(drained) \cup {x}
    BY <1>1, <1>2, ToSetAppend
  <2> QED BY <1>3, <1>5, <1>6, <2>1, <2>2 DEF RowsKept
<1>8. InOrder'
  <2> DEFINE s == Stored(writer)
  <2>1. s \in Seq(Row)
    BY <1>2
  <2> HIDE DEF s
  <2>2. s \o Append(pending, x) = Append(s \o pending, x)
    BY <1>1, <1>2, <2>1
  <2> QED BY <1>3, <1>5, <1>6, <2>2 DEF InOrder, s
<1> QED BY <1>5, <1>7, <1>8

\* The end of the thread.
LEMMA FinishKeeps ==
  ASSUME RecInv, RingInv, Finish
  PROVE  RecInv'
<1>0. RecTypes /\ RowsKept /\ InOrder /\ AllRead
  BY DEF RecInv
<1>1. PICK a \in FlushPending(writer, pending) :
        \E end \in IF a.writer.open THEN Closed(a.writer) ELSE Dropped(a.writer, FALSE) :
          /\ faults + a.faults + end.faults <= MaxFaults
          /\ writer' = end.writer /\ outcome' = end.outcome
          /\ faults' = faults + a.faults + end.faults
          /\ pending' = IF a.ok THEN <<>> ELSE pending
  BY DEF Finish
<1>2. PICK end \in IF a.writer.open THEN Closed(a.writer) ELSE Dropped(a.writer, FALSE) :
        /\ writer' = end.writer /\ outcome' = end.outcome
        /\ faults' = faults + a.faults + end.faults
        /\ pending' = IF a.ok THEN <<>> ELSE pending
  BY <1>1
<1>3. flusher = "finish" /\ flusher' = "done" /\ UNCHANGED <<ringVars, shutdown>>
  BY DEF Finish
<1>4. /\ a.writer \in WriterType /\ a.ok \in BOOLEAN /\ a.faults \in Nat
      /\ ToSet(Stored(a.writer)) = ToSet(drained)
      /\ ToSet(pending) \subseteq ToSet(drained)
      /\ faults = 0 /\ a.faults = 0 =>
           /\ a.ok
           /\ Stored(a.writer) = drained
           /\ a.writer.buffer = <<>>
           /\ a.writer.open <=> a.writer.file # <<>>
  BY <1>0, GivenRows
<1>5. /\ Ended(a.writer, end)
      /\ end.faults = 0 /\ a.writer.buffer = <<>> =>
           end.writer = a.writer /\ end.outcome = IF a.writer.open THEN "published" ELSE "none"
  <2>1. CASE a.writer.open
    BY <1>2, <1>4, <2>1, ClosedKeeps
  <2>2. CASE ~a.writer.open
    BY <1>2, <1>4, <2>2, DroppedKeeps
  <2> QED BY <2>1, <2>2
<1>6. /\ end.writer \in WriterType /\ end.faults \in Nat
      /\ Stored(end.writer) = Stored(a.writer)
  BY <1>5 DEF Ended
<1>7. pending \in Seq(Row) /\ faults \in Nat /\ shutdown \in BOOLEAN
  BY <1>0 DEF RecTypes
<1>8. faults' \in Nat /\ (faults' = 0 => faults = 0 /\ a.faults = 0 /\ end.faults = 0)
  BY <1>2, <1>4, <1>6, <1>7
<1>9. UNCHANGED <<drained, next, producer, pc>>
  BY <1>3 DEF ringVars
<1>10. RecTypes'
  BY <1>2, <1>3, <1>6, <1>7, <1>8 DEF RecTypes
<1>11. RowsKept'
  <2>1. ToSet(<<>>) = {}
    BY DEF ToSet
  <2>2. ToSet(pending') \subseteq ToSet(drained)
    BY <1>2, <1>4, <2>1
  <2>3. Stored(writer)' = Stored(a.writer)
    BY <1>2, <1>6 DEF Stored
  <2> QED BY <1>4, <1>9, <2>2, <2>3 DEF RowsKept
<1>12. ASSUME faults' = 0
       PROVE  /\ pending' = <<>> /\ writer' = a.writer /\ Stored(writer') = drained
              /\ writer'.buffer = <<>>
              /\ writer'.open <=> writer'.file # <<>>
              /\ outcome' = IF writer'.open THEN "published" ELSE "none"
  <2>1. /\ a.ok /\ Stored(a.writer) = drained
        /\ a.writer.buffer = <<>>
        /\ a.writer.open <=> a.writer.file # <<>>
    BY <1>4, <1>8, <1>12
  <2>2. end.writer = a.writer /\ end.outcome = IF a.writer.open THEN "published" ELSE "none"
    BY <1>5, <1>8, <1>12, <2>1
  <2> QED BY <1>2, <2>1, <2>2
<1>13. InOrder'
  <2>1. drained \in Seq(Row)
    BY DEF RingInv, RingTypeOK, Row
  <2>2. drained \o <<>> = drained
    BY <2>1, ConcatEmptySeq
  <2> QED BY <1>9, <1>12, <2>2 DEF InOrder, Stored
<1>14. AllRead'
  <2>1. shutdown /\ (\A p \in Producers : pc[p] = "idle") /\ next >= producer
    BY <1>0, <1>3 DEF AllRead
  <2>2. shutdown' /\ (\A p \in Producers : pc'[p] = "idle") /\ next' >= producer'
    BY <1>3, <1>9, <2>1
  <2>3. faults' = 0 => pending' = <<>> /\ outcome' = IF writer'.file = <<>> THEN "none" ELSE "published"
    BY <1>12
  <2> QED BY <2>2, <2>3 DEF AllRead
<1> QED BY <1>10, <1>11, <1>13, <1>14 DEF RecInv

\* The recorder starts with nothing read.
LEMMA RecStarts == RecInit => RecInv
<1> SUFFICES ASSUME RecInit PROVE RecInv
  OBVIOUS
<1>1. /\ drained = <<>> /\ pc = [p \in Producers |-> "idle"]
      /\ shutdown = FALSE /\ flusher = "drain" /\ pending = <<>>
      /\ writer = [open |-> FALSE, buffer |-> <<>>, file |-> <<>>]
      /\ faults = 0
  BY DEF RecInit, Init
<1>2. RecTypes
  <2>1. shutdown \in BOOLEAN
    BY DEF RecInit
  <2>2. <<>> \in Seq(Seq(Row)) /\ <<>> \in Seq(Row) /\ 0 \in Nat
    BY EmptySeq
  <2>3. [open |-> FALSE, buffer |-> <<>>, file |-> <<>>] \in WriterType
    BY <2>2 DEF WriterType
  <2> QED BY <1>1, <2>1, <2>2, <2>3 DEF RecTypes
<1>3. Stored(writer) = <<>>
  <2>1. writer.buffer = <<>> /\ writer.file = <<>> /\ writer \in WriterType
    BY <1>1, <1>2 DEF RecTypes
  <2> QED BY <2>1, StoredInFile
<1>4. RowsKept
  BY <1>1, <1>3 DEF RowsKept, ToSet
<1>5. InOrder
  <2>1. <<>> \o <<>> = <<>>
    OBVIOUS
  <2> QED BY <1>1, <1>3, <2>1 DEF InOrder
<1>6. AllRead
  BY <1>1 DEF AllRead
<1> QED BY <1>2, <1>4, <1>5, <1>6 DEF RecInv

\* The invariant is kept by every step.
LEMMA RecInductive == RecInv /\ RingInv /\ [RecNext]_vars => RecInv'
<1> SUFFICES ASSUME RecInv, RingInv, [RecNext]_vars PROVE RecInv'
  OBVIOUS
<1>0. RecTypes /\ RowsKept /\ InOrder /\ AllRead /\ RingTypeOK
  BY DEF RecInv, RingInv
<1>1. ASSUME UNCHANGED <<drained, pending, writer, faults>>
      PROVE  RowsKept' /\ InOrder'
  BY <1>0, <1>1 DEF RowsKept, InOrder, Stored
<1>2. ASSUME NEW p \in Producers, Record(p) PROVE RecInv'
  <2>1. UNCHANGED <<drained, shutdown, flusher, pending, writer, outcome, faults>> /\ ~shutdown
    BY <1>2 DEF Record, reading, recording
  <2>2. RecTypes' /\ AllRead'
    BY <1>0, <2>1 DEF RecTypes, AllRead
  <2> QED BY <1>1, <2>1, <2>2 DEF RecInv
<1>3. CASE Drain
  <2>1. flusher = "drain" /\ flusher' = "drain" /\ UNCHANGED <<shutdown, outcome>>
    BY <1>3 DEF Drain
  <2>2. pc' = pc
    BY <1>3 DEF Drain, Check, Copy, Advance, producing
  <2>3. AllRead'
    BY <1>0, <2>1, <2>2 DEF AllRead
  <2>4. CASE Copy /\ pending' = Append(pending, drained'[Len(drained')]) /\ UNCHANGED <<writer, faults>>
    <3>1. pending' \in Seq(Row) /\ RowsKept' /\ InOrder'
      BY <1>0, <2>4, CopyKeeps
    <3>2. RecTypes'
      BY <1>0, <2>1, <2>4, <3>1 DEF RecTypes
    <3> QED BY <2>3, <3>1, <3>2 DEF RecInv
  <2>5. CASE drained' = drained /\ UNCHANGED <<pending, writer, faults>>
    <3>1. RecTypes'
      BY <1>0, <2>1, <2>5 DEF RecTypes
    <3> QED BY <1>1, <2>3, <2>5, <3>1 DEF RecInv
  <2>6. CASE drained' = drained /\ Flushed(pending)
    <3>1. /\ pending' \in Seq(Row) /\ writer' \in WriterType /\ faults' \in Nat
          /\ RowsKept' /\ InOrder'
      BY <1>0, <2>6, FlushedKeeps
    <3>2. RecTypes'
      BY <1>0, <2>1, <3>1 DEF RecTypes
    <3> QED BY <2>3, <3>1, <3>2 DEF RecInv
  <2> QED BY <1>3, <2>4, <2>5, <2>6 DEF Drain, Check, Copy, Advance
<1>4. CASE Look
  <2>1. /\ flusher = "look" /\ flusher' = (IF shutdown THEN "leave" ELSE "drain")
        /\ UNCHANGED <<drained, next, producer, pc, shutdown, outcome>>
    BY <1>4 DEF Look, ringVars
  <2>2. AllRead'
    BY <1>0, <2>1 DEF AllRead
  <2>3. CASE Flushed(pending)
    <3>1. /\ pending' \in Seq(Row) /\ writer' \in WriterType /\ faults' \in Nat
          /\ RowsKept' /\ InOrder'
      BY <1>0, <2>1, <2>3, FlushedKeeps
    <3>2. RecTypes'
      BY <1>0, <2>1, <3>1 DEF RecTypes
    <3> QED BY <2>2, <3>1, <3>2 DEF RecInv
  <2>4. CASE UNCHANGED <<pending, writer, faults>>
    <3>1. RecTypes'
      BY <1>0, <2>1, <2>4 DEF RecTypes
    <3> QED BY <1>1, <2>1, <2>2, <2>4, <3>1 DEF RecInv
  <2> QED BY <1>4, <2>3, <2>4 DEF Look
<1>5. CASE Drained \/ Leave \/ DropRecorder
  <2>1. UNCHANGED <<drained, next, producer, pc, pending, writer, outcome, faults>>
    BY <1>5 DEF Drained, Leave, DropRecorder, ringVars
  <2>2. RecTypes'
    <3>1. shutdown' \in BOOLEAN
      BY <1>0, <1>5 DEF Drained, Leave, DropRecorder, RecTypes
    <3> QED BY <1>0, <2>1, <3>1 DEF RecTypes
  <2>3. AllRead'
    <3>1. CASE Drained
      BY <1>0, <2>1, <3>1 DEF AllRead, Drained
    <3>2. CASE Leave
      BY <1>0, <2>1, <3>2 DEF AllRead, Leave
    <3>3. CASE DropRecorder
      BY <1>0, <2>1, <3>3 DEF AllRead, DropRecorder
    <3> QED BY <1>5, <3>1, <3>2, <3>3
  <2> QED BY <1>1, <2>1, <2>2, <2>3 DEF RecInv
<1>6. CASE Finish
  BY <1>6, FinishKeeps
<1>7. CASE UNCHANGED vars
  <2>1. UNCHANGED <<drained, next, producer, pc, shutdown, flusher, pending, writer, outcome, faults>>
    BY <1>7 DEF vars, ringVars, recording
  <2>2. RecTypes' /\ AllRead'
    BY <1>0, <2>1 DEF RecTypes, AllRead
  <2> QED BY <1>1, <2>1, <2>2 DEF RecInv
<1> QED BY <1>2, <1>3, <1>4, <1>5, <1>6, <1>7 DEF RecNext

\* The recorder's invariant.
LEMMA RecInvariant == RecSpec => [](RecInv /\ RingInv)
<1>1. RecInit => RecInv
  BY RecStarts
<1>2. RecInv /\ RingInv /\ [RecNext]_vars => RecInv'
  BY RecInductive
<1> QED BY <1>1, <1>2, RecorderIsRing, RingInvariant, PTL DEF RecSpec

\* Whatever fails, whenever, an event that was read from the ring is in the file, in the
\* writer's buffer or pending, and nothing else is.
THEOREM EventsKept == RecSpec => []NothingLost
<1>1. RecInv /\ RingInv => NothingLost
  <2> SUFFICES ASSUME RecInv PROVE NothingLost
    OBVIOUS
  <2>1. writer \in WriterType /\ RowsKept
    BY DEF RecInv, RecTypes
  <2>2. ToSet(Stored(writer)) = ToSet(writer.file) \cup ToSet(FlattenSeq(writer.buffer))
    BY <2>1, StoredType, ToSetConcat DEF Stored
  <2> QED BY <2>1, <2>2 DEF RowsKept, NothingLost, Rows
<1> QED BY <1>1, RecInvariant, PTL

\* When nothing failed, the file that Drop leaves has every recorded event, once, in the
\* order of the claims, for any number of producers and events and every batch size.
THEOREM FileComplete == RecSpec => []PublishedComplete
<1>1. RecInv /\ RingInv => PublishedComplete
  <2> SUFFICES ASSUME RecInv, RingInv, flusher = "done", faults = 0
               PROVE  writer.file = log /\ outcome = IF log = <<>> THEN "none" ELSE "published"
    BY DEF PublishedComplete
  <2>1. /\ writer \in WriterType /\ writer.buffer = <<>> /\ pending = <<>>
        /\ Stored(writer) \o pending = drained
        /\ next >= producer /\ outcome = IF writer.file = <<>> THEN "none" ELSE "published"
    BY DEF RecInv, RecTypes, InOrder, AllRead
  <2>2. Stored(writer) = drained
    BY <2>1, StoredType, ConcatEmptySeq
  <2>3. writer.file = drained
    BY <2>1, <2>2, StoredInFile
  <2>4. drained = log
    <3>1. log \in Seq(Nat) /\ next \in Nat /\ producer \in Nat /\ next <= producer
          /\ Len(log) = producer /\ drained = SubSeq(log, 1, next)
      BY DEF RingInv, RingTypeOK, Cursors
    <3>2. next = Len(log)
      BY <2>1, <3>1
    <3> QED BY <3>1, <3>2, SubSeqFull
  <2> QED BY <2>1, <2>3, <2>4
<1> QED BY <1>1, RecInvariant, PTL
=============================================================================
