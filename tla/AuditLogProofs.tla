--------------------------- MODULE AuditLogProofs ---------------------------
(* Theorems of AuditLog, for any number of AuditLogs, entries, files and faults: no kill *)
(* or failing call costs more than one acknowledged entry, and with one AuditLog after   *)
(* another none breaks the chain in more than one place.                                 *)
EXTENDS AuditLog, FiniteSetTheorems, SequenceTheorems, TLAPS

EntrySet == [id : Int, prev : Int]
FileSet == [lines : Seq(EntrySet), tail : EntrySet, whole : BOOLEAN]
LogSet == [pc : {"closed", "ready", "rotate", "rename", "write"}, last : Int,
           file : Nat, buffer : Seq(EntrySet), rest : BOOLEAN, entry : EntrySet]

LineIds(f) == {f.lines[i].id : i \in DOMAIN f.lines}
BufferIds(buffer) == {buffer[i].id : i \in DOMAIN buffer}

\* What an AuditLog has in memory at each point of its code, with so many files and
\* entries.
Fits(r, made, entries) ==
  /\ r.file <= made
  /\ r.buffer # <<>> => r.file # 0
  /\ r.rest => r.buffer # <<>>
  /\ r.pc \in {"closed", "rename"} => r.file = 0
  /\ r.pc \in {"closed", "ready"} => r.entry = NoLine
  /\ r.pc = "write" => r.entry # NoLine
  /\ r.entry # NoLine => r.entry.id \in 1..entries
  /\ r.pc = "closed" => r = Closed
  /\ \A id \in BufferIds(r.buffer) : id > 0

Shared ==
  /\ files \in Seq(FileSet) /\ named \in 0..Len(files)
  /\ begun \in Nat /\ faults \in Nat /\ acked \subseteq 1..begun /\ overlapped \in BOOLEAN

Types ==
  /\ Shared
  /\ log \in [Logs -> LogSet]
  /\ \A l \in Logs : Fits(log[l], Len(files), begun)

------------------------------------------------------------------------------
(* Writes to a file. *)

\* The names that no entry has.
LEMMA SpecialEntries ==
  /\ NoLine \in EntrySet /\ Garbled \in EntrySet /\ NoLine.id = -1 /\ Garbled.id = 0 /\ Garbled # NoLine
  /\ NewFile \in FileSet /\ NewFile.tail = NoLine
  /\ Closed \in LogSet
<1>1. NoLine = [id |-> -1, prev |-> 0] /\ Garbled = [id |-> 0, prev |-> 0]
  BY DEF NoLine, Garbled, Entry, Genesis
<1>2. <<>> \in Seq(EntrySet)
  BY EmptySeq
<1> QED BY <1>1, <1>2 DEF EntrySet, NewFile, FileSet, Closed, LogSet, Genesis

\* What is closed.
LEMMA ClosedFits ==
  /\ Closed.file = 0 /\ Closed.buffer = <<>> /\ Closed.rest = FALSE /\ Closed.pc = "closed" /\ Closed.entry = NoLine
  /\ BufferIds(<<>>) = {}
  /\ \A n \in Nat : \A b : Fits(Closed, n, b)
<1>1. /\ Closed.file = 0 /\ Closed.buffer = <<>> /\ Closed.rest = FALSE /\ Closed.pc = "closed" /\ Closed.entry = NoLine
  BY DEF Closed
<1>2. BufferIds(<<>>) = {}
  BY EmptySeq DEF BufferIds
<1> QED BY <1>1, <1>2 DEF Fits

\* One sequence after another.
LEMMA Joined ==
  ASSUME NEW s \in Seq(EntrySet), NEW t \in Seq(EntrySet)
  PROVE  /\ s \o t \in Seq(EntrySet) /\ Len(s \o t) = Len(s) + Len(t)
         /\ Len(s) \in Nat /\ Len(t) \in Nat
         /\ \A i \in 1..Len(s) : (s \o t)[i] = s[i]
         /\ \A i \in 1..Len(t) : (s \o t)[Len(s) + i] = t[i]
<1>1. \A i \in 1..Len(t) : Len(s) + i \in 1..(Len(s) + Len(t)) /\ Len(s) + i > Len(s) /\ Len(s) + i - Len(s) = i
  OBVIOUS
<1> QED BY <1>1, ConcatProperties

\* A sequence with a length that is not zero.
LEMMA NotEmpty ==
  ASSUME NEW s \in Seq(EntrySet)
  PROVE  /\ Len(s) \in Nat /\ DOMAIN s = 1..Len(s) /\ (Len(s) > 0 <=> s # <<>>)
         /\ \A i \in DOMAIN s : s[i] \in EntrySet
<1>1. Len(<<>>) = 0
  OBVIOUS
<1>2. Len(s) = 0 => s = <<>>
  BY EmptySeq
<1> QED BY <1>1, <1>2, ElementOfSeq, LenProperties

\* What the second ends with is in both.
LEMMA JoinedLast ==
  ASSUME NEW s \in Seq(EntrySet), NEW t \in Seq(EntrySet), Len(t) > 0
  PROVE  \E i \in DOMAIN (s \o t) : (s \o t)[i] = t[Len(t)]
<1>1. Len(s) \in Nat /\ Len(t) \in 1..Len(t) /\ Len(s) + Len(t) \in 1..(Len(s) + Len(t))
  OBVIOUS
<1>2. s \o t \in Seq(EntrySet) /\ Len(s \o t) = Len(s) + Len(t) /\ (s \o t)[Len(s) + Len(t)] = t[Len(t)]
  BY <1>1, Joined
<1>3. DOMAIN (s \o t) = 1..(Len(s) + Len(t))
  BY <1>2, NotEmpty
<1> QED BY <1>1, <1>2, <1>3

\* A file that lines are written to keeps its own, and loses its unfinished one.
LEMMA ExtendedFile ==
  ASSUME NEW f \in FileSet, NEW b \in Seq(EntrySet), NEW rest \in BOOLEAN
  PROVE  /\ Extended(f, b, rest) \in FileSet
         /\ LineIds(f) \subseteq LineIds(Extended(f, b, rest))
         /\ b = <<>> => Extended(f, b, rest) = f
         /\ b # <<>> => Extended(f, b, rest).tail = NoLine
<1> DEFINE more == IF Begins(f, Head(b), rest) THEN b ELSE <<Garbled>> \o Tail(b)
<1>1. CASE b = <<>>
  BY <1>1 DEF Extended
<1>2. CASE b # <<>>
  <2>1. Extended(f, b, rest) = [lines |-> f.lines \o more, tail |-> NoLine, whole |-> FALSE]
    BY <1>2 DEF Extended
  <2>2. more \in Seq(EntrySet)
    <3>1. Tail(b) \in Seq(EntrySet)
      BY <1>2, HeadTailProperties
    <3>2. <<Garbled>> \in Seq(EntrySet)
      BY SpecialEntries
    <3> QED BY <3>1, <3>2, ConcatProperties
  <2>3. f.lines \in Seq(EntrySet)
    BY DEF FileSet
  <2> HIDE DEF more
  <2>4. /\ f.lines \o more \in Seq(EntrySet)
        /\ \A i \in DOMAIN f.lines : i \in DOMAIN (f.lines \o more) /\ (f.lines \o more)[i] = f.lines[i]
    BY <2>2, <2>3
  <2>5. LineIds(f) \subseteq LineIds(Extended(f, b, rest))
    BY <2>1, <2>4 DEF LineIds
  <2>6. Extended(f, b, rest) \in FileSet
    BY <2>1, <2>4, SpecialEntries DEF FileSet
  <2>7. Extended(f, b, rest).tail = NoLine
    BY <2>1
  <2> QED BY <1>2, <2>5, <2>6, <2>7
<1> QED BY <1>1, <1>2

\* The last of several lines is written whatever the file ends in.
LEMMA ExtendedLast ==
  ASSUME NEW f \in FileSet, NEW b \in Seq(EntrySet), NEW e \in EntrySet, NEW rest \in BOOLEAN,
         b # <<>> \/ Begins(f, e, rest)
  PROVE  e.id \in LineIds(Extended(f, Append(b, e), rest))
<1> DEFINE c == Append(b, e)
           more == IF Begins(f, Head(c), rest) THEN c ELSE <<Garbled>> \o Tail(c)
<1>1. c # <<>> /\ c \in Seq(EntrySet) /\ Len(c) = Len(b) + 1 /\ c[Len(c)] = e /\ Len(b) \in Nat
  OBVIOUS
<1>2. Extended(f, c, rest) = [lines |-> f.lines \o more, tail |-> NoLine, whole |-> FALSE]
  BY <1>1 DEF Extended
<1>3. more \in Seq(EntrySet) /\ Len(more) = Len(c) /\ more[Len(c)] = e
  <2>1. CASE Begins(f, Head(c), rest)
    BY <1>1, <2>1
  <2>2. CASE ~Begins(f, Head(c), rest)
    <3>1. b # <<>>
      <4>1. b = <<>> => Head(c) = e
        OBVIOUS
      <4> QED BY <2>2, <4>1
    <3>2. Len(c) > 1
      BY <1>1, <3>1, EmptySeq
    <3>3. Tail(c) \in Seq(EntrySet) /\ Len(Tail(c)) = Len(c) - 1 /\ Tail(c)[Len(c) - 1] = e
      BY <1>1, <3>2, HeadTailProperties
    <3>4. more = <<Garbled>> \o Tail(c) /\ <<Garbled>> \in Seq(EntrySet) /\ Len(<<Garbled>>) = 1
      BY <2>2, SpecialEntries
    <3> HIDE DEF c, more
    <3>5. more \in Seq(EntrySet) /\ Len(more) = Len(c) /\ more[Len(c)] = Tail(c)[Len(c) - 1]
      BY <1>1, <3>2, <3>3, <3>4, ConcatProperties
    <3> QED BY <3>3, <3>5
  <2> QED BY <2>1, <2>2
<1>4. f.lines \in Seq(EntrySet)
  BY DEF FileSet
<1> HIDE DEF c, more
<1>5. \E i \in DOMAIN (f.lines \o more) : (f.lines \o more)[i] = e
  <2>1. Len(more) > 0 /\ more[Len(more)] = e
    BY <1>1, <1>3
  <2> QED BY <1>3, <1>4, <2>1, JoinedLast
<1>6. e.id \in LineIds(Extended(f, c, rest))
  <2>1. Extended(f, c, rest).lines = f.lines \o more
    BY <1>2
  <2> QED BY <1>5, <2>1 DEF LineIds
<1> QED BY <1>6 DEF c

\* What a failed write leaves.
LEMMA FailedFile ==
  ASSUME NEW f \in FileSet, NEW b \in Seq(EntrySet), NEW rest \in BOOLEAN, NEW a \in Failures(f, b, rest)
  PROVE  /\ a.file \in FileSet /\ LineIds(f) \subseteq LineIds(a.file)
         /\ a.file.tail.id \in {f.tail.id, -1, 0} \cup BufferIds(b)
         /\ a.buffer \in Seq(EntrySet) /\ a.buffer # <<>> /\ BufferIds(a.buffer) \subseteq BufferIds(b)
         /\ a.rest \in BOOLEAN
<1>1. PICK n \in 0..(Len(b) - 1), part \in {"none", "part", "whole"} :
        a = LET g == Extended(f, SubSeq(b, 1, n), rest)
            IN [file |-> IF part = "none" THEN g ELSE Partly(g, b[n + 1], rest /\ n = 0, part = "whole"),
                buffer |-> SubSeq(b, n + 1, Len(b)),
                rest |-> part # "none" \/ (rest /\ n = 0)]
  BY DEF Failures
<1> DEFINE g == Extended(f, SubSeq(b, 1, n), rest)
<1>2. n \in Nat /\ n < Len(b) /\ Len(b) \in Nat
  OBVIOUS
<1>3. SubSeq(b, 1, n) \in Seq(EntrySet) /\ (n = 0 => SubSeq(b, 1, n) = <<>>)
  BY <1>2
<1>4. g \in FileSet /\ LineIds(f) \subseteq LineIds(g) /\ g.tail.id \in {f.tail.id, -1}
  BY <1>3, ExtendedFile, SpecialEntries
<1>5. b[n + 1] \in EntrySet /\ b[n + 1].id \in BufferIds(b)
  BY <1>2 DEF BufferIds
<1>6. ASSUME NEW h, h = Partly(g, b[n + 1], rest /\ n = 0, part = "whole")
      PROVE  h \in FileSet /\ LineIds(h) = LineIds(g) /\ h.tail.id \in {0, b[n + 1].id}
  BY <1>4, <1>5, <1>6, SpecialEntries DEF Partly, Begins, FileSet, LineIds
<1>7. a.file = (IF part = "none" THEN g ELSE Partly(g, b[n + 1], rest /\ n = 0, part = "whole"))
  BY <1>1
<1>8. a.buffer = SubSeq(b, n + 1, Len(b)) /\ a.rest \in BOOLEAN
  BY <1>1
<1>9. /\ SubSeq(b, n + 1, Len(b)) \in Seq(EntrySet) /\ SubSeq(b, n + 1, Len(b)) # <<>>
      /\ BufferIds(SubSeq(b, n + 1, Len(b))) \subseteq BufferIds(b)
  <2> DEFINE c == SubSeq(b, n + 1, Len(b))
  <2>1. c \in Seq(EntrySet) /\ Len(c) = Len(b) - n /\ \A i \in 1..Len(c) : c[i] = b[i + n]
    BY <1>2
  <2>2. \A i \in DOMAIN c : i + n \in DOMAIN b /\ c[i] = b[i + n]
    BY <1>2, <2>1
  <2>3. c # <<>>
    <3>1. Len(c) > 0
      BY <1>2, <2>1
    <3> QED BY <2>1, <3>1, NotEmpty
  <2> HIDE DEF c
  <2>4. BufferIds(c) \subseteq BufferIds(b)
    BY <2>2 DEF BufferIds
  <2> QED BY <2>1, <2>3, <2>4 DEF c
<1> HIDE DEF g
<1> QED BY <1>4, <1>5, <1>6, <1>7, <1>8, <1>9

------------------------------------------------------------------------------
(* Types. *)

\* What is read of a file.
LEMMA ReadTyped ==
  ASSUME Types, NEW f \in 0..Len(files)
  PROVE  Read(f) \in Seq(EntrySet) /\ Len(Read(f)) \in Nat /\ LastHash(f) \in Int
<1>1. Read(f) \in Seq(EntrySet)
  <2>1. CASE f = 0
    BY <2>1 DEF Read
  <2>2. CASE f # 0
    <3>1. files[f] \in FileSet
      BY <2>2, ElementOfSeq DEF Types, Shared
    <3> DEFINE tail == IF files[f].tail = NoLine THEN <<>> ELSE IF files[f].whole THEN <<files[f].tail>> ELSE <<Garbled>>
    <3>2. files[f].lines \in Seq(EntrySet) /\ tail \in Seq(EntrySet)
      BY <3>1, SpecialEntries DEF FileSet
    <3> HIDE DEF tail
    <3>3. files[f].lines \o tail \in Seq(EntrySet)
      BY <3>2, Joined
    <3> QED BY <2>2, <3>3 DEF Read, tail
  <2> QED BY <2>1, <2>2
<1>2. Len(Read(f)) \in Nat /\ DOMAIN Read(f) = 1..Len(Read(f)) /\ (Read(f) # <<>> => Len(Read(f)) > 0)
  BY <1>1, NotEmpty
<1>3. Read(f) # <<>> => Last(Read(f)) \in EntrySet
  <2>1. Read(f) # <<>> => Len(Read(f)) \in DOMAIN Read(f)
    BY <1>2
  <2> QED BY <1>1, <2>1, NotEmpty DEF Last
<1> QED BY <1>1, <1>2, <1>3 DEF LastHash, Genesis, EntrySet

\* One log changes, and neither files nor entries become fewer.
LEMMA TypesKept ==
  ASSUME Types, NEW l \in Logs, NEW r \in LogSet, log' = [log EXCEPT ![l] = r],
         Shared', Len(files') >= Len(files), begun' >= begun, Fits(r, Len(files'), begun')
  PROVE  Types'
<1>1. log' \in [Logs -> LogSet] /\ log'[l] = r /\ \A m \in Logs \ {l} : log'[m] = log[m]
  BY DEF Types
<1>2. Len(files) \in Nat /\ Len(files') \in Nat /\ begun \in Nat /\ begun' \in Nat
  BY LenProperties DEF Types, Shared
<1>3. ASSUME NEW m \in Logs PROVE Fits(log'[m], Len(files'), begun')
  <2>1. CASE m = l
    BY <1>1, <2>1
  <2>2. CASE m # l
    <3>1. Fits(log[m], Len(files), begun) /\ log'[m] = log[m] /\ log[m].file \in Nat
      BY <1>1, <2>2 DEF Types, LogSet
    <3>2. log'[m].file <= Len(files')
      BY <1>2, <3>1 DEF Fits
    <3>3. 1..begun \subseteq 1..begun'
      BY <1>2
    <3> QED BY <3>1, <3>2, <3>3 DEF Fits
  <2> QED BY <2>1, <2>2
<1> QED BY <1>1, <1>3 DEF Types

\* A file is written to.
LEMMA OneFile ==
  ASSUME Types, NEW k \in DOMAIN files, NEW g \in FileSet, files' = [files EXCEPT ![k] = g]
  PROVE  /\ files' \in Seq(FileSet) /\ Len(files') = Len(files) /\ Len(files) \in Nat
         /\ files'[k] = g /\ DOMAIN files' = DOMAIN files
         /\ \A f \in DOMAIN files \ {k} : files'[f] = files[f]
<1>1. files \in Seq(FileSet)
  BY DEF Types, Shared
<1> QED BY <1>1, ExceptSeq, LenProperties

\* What dropping a writer does to the files.
LEMMA Dropped ==
  ASSUME Types, NEW l \in Logs, Drop(l)
  PROVE  /\ files' \in Seq(FileSet) /\ Len(files') = Len(files) /\ faults' \in {faults, faults + 1}
         /\ \/ files' = files /\ faults' = faults /\ log[l].buffer = <<>>
            \/ /\ log[l].buffer # <<>> /\ log[l].file \in DOMAIN files /\ faults' = faults
               /\ files' = [files EXCEPT ![log[l].file] = Extended(files[log[l].file], log[l].buffer, log[l].rest)]
            \/ /\ log[l].buffer # <<>> /\ log[l].file \in DOMAIN files /\ faults' = faults + 1
               /\ \E a \in Failures(files[log[l].file], log[l].buffer, log[l].rest) :
                    files' = [files EXCEPT ![log[l].file] = a.file]
<1>1. CASE log[l].buffer = <<>>
  BY <1>1 DEF Drop, Types, Shared
<1>2. CASE log[l].buffer # <<>>
  <2>1. log[l] \in LogSet /\ log[l].file \in DOMAIN files /\ files[log[l].file] \in FileSet
    <3>1. Fits(log[l], Len(files), begun) /\ log[l] \in LogSet
      BY DEF Types
    <3>2. log[l].file \in 1..Len(files)
      BY <1>2, <3>1, LenProperties DEF Fits, LogSet, Types, Shared
    <3> QED BY <3>1, <3>2, ElementOfSeq, LenProperties DEF Types, Shared
  <2>2. log[l].buffer \in Seq(EntrySet) /\ log[l].rest \in BOOLEAN
    BY <2>1 DEF LogSet
  <2>3. CASE /\ files' = [files EXCEPT ![log[l].file] = Extended(files[log[l].file], log[l].buffer, log[l].rest)]
             /\ UNCHANGED faults
    BY <1>2, <2>1, <2>2, <2>3, ExtendedFile, OneFile
  <2>4. CASE \E a \in Failures(files[log[l].file], log[l].buffer, log[l].rest) :
               Fault /\ files' = [files EXCEPT ![log[l].file] = a.file]
    <3>1. PICK a \in Failures(files[log[l].file], log[l].buffer, log[l].rest) :
               Fault /\ files' = [files EXCEPT ![log[l].file] = a.file]
      BY <2>4
    <3>2. a.file \in FileSet
      BY <2>1, <2>2, FailedFile
    <3>3. files' \in Seq(FileSet) /\ Len(files') = Len(files)
      BY <2>1, <3>1, <3>2, OneFile
    <3> QED BY <1>2, <2>1, <3>1, <3>3 DEF Fault
  <2> QED BY <1>2, <2>3, <2>4 DEF Drop
<1> QED BY <1>1, <1>2

------------------------------------------------------------------------------
(* What a step does. *)

\* The file that an AuditLog writes to, with "b" written to it, or a part of "b".
Written(l, b) == [files EXCEPT ![log[l].file] = Extended(files[log[l].file], b, log[l].rest)]
Torn(l, b) == Failures(files[log[l].file], b, log[l].rest)

\* What is written, what goes from memory to the file or is lost, and what faults there are.
Effect(l) ==
  /\ log' = [log EXCEPT ![l] = log'[l]]
  /\ \/ WriteEntry(l) \/ Write(l)
     \/ /\ acked' = acked /\ begun' = begun /\ log'[l].entry \in {log[l].entry, NoLine}
        /\ \/ /\ files' = files /\ faults' \in {faults, faults + 1}
              /\ log'[l].buffer \in {log[l].buffer, <<>>}
           \/ /\ files' = Append(files, NewFile) /\ faults' = faults
              /\ log'[l].buffer = log[l].buffer
           \/ /\ log[l].file \in DOMAIN files /\ files' = Written(l, log[l].buffer) /\ faults' = faults
              /\ log[l].buffer # <<>> /\ log'[l].buffer = <<>>
           \/ /\ log[l].file \in DOMAIN files /\ faults' = faults + 1
              /\ \E a \in Torn(l, log[l].buffer) :
                   files' = [files EXCEPT ![log[l].file] = a.file] /\ log'[l].buffer \in {a.buffer, <<>>}
           \/ /\ log[l].file \in DOMAIN files /\ faults' = faults + 1
              /\ log[l].entry # NoLine /\ log'[l].entry = NoLine
              /\ \E a \in Torn(l, Buffered(l)) :
                   files' = [files EXCEPT ![log[l].file] = a.file] /\ log'[l].buffer \in {a.buffer, <<>>}

\* A step that leaves the files.
LEMMA QuietStep ==
  ASSUME Types, NEW l \in Logs,
         \/ Open(l) \/ Kill(l) \/ WriteEntry(l) \/ RotateNow(l) \/ Rename(l) \/ RenameFails(l) \/ OpenWriterFails(l)
  PROVE  Types' /\ Effect(l)
<1>0. /\ log \in [Logs -> LogSet] /\ log[l] \in LogSet /\ Fits(log[l], Len(files), begun) /\ named \in 0..Len(files) /\ Len(files) \in Nat
      /\ files \in Seq(FileSet) /\ begun \in Nat /\ faults \in Nat /\ acked \subseteq 1..begun /\ overlapped \in BOOLEAN
  BY LenProperties DEF Types, Shared
<1>1. CASE Open(l)
  <2> DEFINE r == [Closed EXCEPT !.pc = "ready", !.last = LastHash(named)]
  <2>1. r \in LogSet /\ r.file = 0 /\ r.buffer = <<>> /\ r.rest = FALSE /\ r.pc = "ready" /\ r.entry = NoLine
    BY <1>0, ReadTyped, SpecialEntries DEF Closed, LogSet
  <2>2. log' = [log EXCEPT ![l] = r] /\ files' = files /\ named' = named /\ begun' = begun /\ faults' = faults /\ acked' = acked
    BY <1>1 DEF Open
  <2>3. overlapped' \in BOOLEAN
    BY <1>0, <1>1 DEF Open
  <2> HIDE DEF r
  <2>4. Types'
    <3>1. Shared' /\ Len(files') >= Len(files) /\ begun' >= begun
      BY <1>0, <2>1, <2>2, <2>3 DEF Shared
    <3>2. Fits(r, Len(files'), begun')
      BY <1>0, <2>1, <2>2, <2>3, ClosedFits DEF Fits
    <3> QED BY <1>0, <2>1, <2>2, <2>3, <3>1, <3>2, TypesKept
  <2>5. log'[l] = r
    BY <1>0, <2>2
  <2> QED BY <2>1, <2>2, <2>4, <2>5 DEF Effect
<1>2. CASE Kill(l)
  <2>1. Closed \in LogSet /\ Closed.file = 0 /\ Closed.buffer = <<>> /\ Closed.rest = FALSE /\ Closed.pc = "closed" /\ Closed.entry = NoLine
    BY SpecialEntries DEF Closed
  <2>2. /\ log' = [log EXCEPT ![l] = Closed] /\ files' = files /\ named' = named /\ begun' = begun /\ acked' = acked
        /\ faults' = faults + 1 /\ overlapped' = overlapped
    BY <1>2 DEF Kill, Fault
  <2>3. Types'
    <3>1. Shared' /\ Len(files') >= Len(files) /\ begun' >= begun
      BY <1>0, <2>1, <2>2 DEF Shared
    <3>2. Fits(Closed, Len(files'), begun')
      BY <1>0, <2>2, ClosedFits
    <3> QED BY <1>0, <2>1, <2>2, <3>1, <3>2, TypesKept
  <2>4. log'[l] = Closed
    BY <1>0, <2>2
  <2> QED BY <2>1, <2>2, <2>3, <2>4 DEF Effect
<1>3. CASE WriteEntry(l)
  <2> DEFINE pc == IF Len(Read(named)) >= Limit THEN "rotate" ELSE "write"
             r == [log[l] EXCEPT !.entry = Entry(begun + 1, Genesis), !.pc = pc]
  <2>1. Entry(begun + 1, Genesis) \in EntrySet /\ Entry(begun + 1, Genesis).id = begun + 1 /\ Entry(begun + 1, Genesis) # NoLine
    BY <1>0 DEF Entry, NoLine, Genesis, EntrySet
  <2>2. pc \in {"rotate", "write"}
    OBVIOUS
  <2> HIDE DEF pc
  <2>3. /\ r \in LogSet /\ r.file = log[l].file /\ r.buffer = log[l].buffer /\ r.rest = log[l].rest /\ r.pc = pc
        /\ r.entry.id = begun + 1 /\ r.entry # NoLine
    BY <1>0, <2>1, <2>2 DEF LogSet
  <2>4. /\ log' = [log EXCEPT ![l] = r] /\ files' = files /\ named' = named /\ begun' = begun + 1 /\ acked' = acked
        /\ faults' = faults /\ overlapped' = overlapped
    BY <1>0, <1>3 DEF WriteEntry, pc
  <2>5. log[l].file <= Len(files) /\ (log[l].buffer # <<>> => log[l].file # 0) /\ (log[l].rest => log[l].buffer # <<>>)
    BY <1>0 DEF Fits
  <2>6. begun + 1 \in 1..(begun + 1) /\ acked \subseteq 1..(begun + 1)
    BY <1>0
  <2> HIDE DEF r
  <2>7. Types'
    <3>1. Shared' /\ Len(files') >= Len(files) /\ begun' >= begun
      BY <1>0, <2>2, <2>3, <2>4, <2>5, <2>6 DEF Shared
    <3>2. Fits(r, Len(files'), begun')
      BY <1>0, <2>2, <2>3, <2>4, <2>5, <2>6 DEF Fits
    <3> QED BY <1>0, <2>2, <2>3, <2>4, <2>5, <2>6, <3>1, <3>2, TypesKept
  <2>8. log'[l] = r
    BY <1>0, <2>4
  <2> QED BY <1>3, <2>4, <2>7, <2>8 DEF Effect
<1>4. CASE RotateNow(l)
  <2> DEFINE r == [log[l] EXCEPT !.pc = "rotate"]
  <2>1. r \in LogSet /\ r.file = log[l].file /\ r.buffer = log[l].buffer /\ r.rest = log[l].rest /\ r.pc = "rotate" /\ r.entry = log[l].entry
    BY <1>0 DEF LogSet
  <2>2. /\ log' = [log EXCEPT ![l] = r] /\ files' = files /\ named' = named /\ begun' = begun /\ acked' = acked
        /\ faults' = faults /\ overlapped' = overlapped
    BY <1>0, <1>4 DEF RotateNow
  <2>3. /\ log[l].file <= Len(files) /\ (log[l].buffer # <<>> => log[l].file # 0) /\ (log[l].rest => log[l].buffer # <<>>)
        /\ log[l].entry # NoLine => log[l].entry.id \in 1..begun
    BY <1>0 DEF Fits
  <2> HIDE DEF r
  <2>4. Types'
    <3>1. Shared' /\ Len(files') >= Len(files) /\ begun' >= begun
      BY <1>0, <2>1, <2>2, <2>3 DEF Shared
    <3>2. Fits(r, Len(files'), begun')
      BY <1>0, <2>1, <2>2, <2>3 DEF Fits
    <3> QED BY <1>0, <2>1, <2>2, <2>3, <3>1, <3>2, TypesKept
  <2>5. log'[l] = r
    BY <1>0, <2>2
  <2> QED BY <2>1, <2>2, <2>4, <2>5 DEF Effect
<1>5. CASE Rename(l)
  <2> DEFINE pc == IF log[l].entry = NoLine THEN "ready" ELSE "write"
             r == [log[l] EXCEPT !.last = RotatedFrom(named), !.pc = pc]
  <2>0. pc \in {"ready", "write"} /\ RotatedFrom(named) \in Int /\ (pc = "ready" <=> log[l].entry = NoLine)
    BY <1>0 DEF RotatedFrom
  <2>a. log' = [log EXCEPT ![l] = r]
    BY <1>0, <1>5 DEF Rename
  <2> HIDE DEF pc
  <2>1. /\ r \in LogSet /\ r.file = log[l].file /\ r.buffer = log[l].buffer /\ r.rest = log[l].rest
        /\ r.pc = pc /\ r.entry = log[l].entry
    BY <1>0, <2>0 DEF LogSet
  <2>2. /\ log' = [log EXCEPT ![l] = r] /\ files' = files /\ named' = 0 /\ begun' = begun /\ acked' = acked
        /\ faults' = faults /\ overlapped' = overlapped
    BY <2>a, <1>5 DEF Rename
  <2>3. /\ log[l].file <= Len(files) /\ (log[l].buffer # <<>> => log[l].file # 0) /\ (log[l].rest => log[l].buffer # <<>>)
        /\ log[l].entry # NoLine => log[l].entry.id \in 1..begun
    BY <1>0 DEF Fits
  <2> HIDE DEF r
  <2>4. Types'
    <3>1. Shared' /\ Len(files') >= Len(files) /\ begun' >= begun
      BY <1>0, <2>0, <2>1, <2>2, <2>3 DEF Shared
    <3>2. Fits(r, Len(files'), begun')
      BY <1>0, <2>0, <2>1, <2>2, <2>3 DEF Fits
    <3> QED BY <1>0, <2>0, <2>1, <2>2, <2>3, <3>1, <3>2, TypesKept
  <2>5. log'[l] = r
    BY <1>0, <2>2
  <2> QED BY <2>1, <2>2, <2>4, <2>5 DEF Effect
<1>6. CASE RenameFails(l) \/ OpenWriterFails(l)
  <2> DEFINE r == [log[l] EXCEPT !.pc = "ready", !.entry = NoLine]
  <2>1. r \in LogSet /\ r.file = log[l].file /\ r.buffer = log[l].buffer /\ r.rest = log[l].rest /\ r.pc = "ready" /\ r.entry = NoLine
    BY <1>0, SpecialEntries DEF LogSet
  <2>2. /\ log' = [log EXCEPT ![l] = r] /\ files' = files /\ named' = named /\ begun' = begun /\ acked' = acked
        /\ faults' \in {faults, faults + 1} /\ overlapped' = overlapped
    BY <1>0, <1>6 DEF RenameFails, OpenWriterFails, Ready, Fault
  <2>3. log[l].file <= Len(files) /\ (log[l].buffer # <<>> => log[l].file # 0) /\ (log[l].rest => log[l].buffer # <<>>)
    BY <1>0 DEF Fits
  <2> HIDE DEF r
  <2>4. Types'
    <3>1. Shared' /\ Len(files') >= Len(files) /\ begun' >= begun
      BY <1>0, <2>1, <2>2, <2>3 DEF Shared
    <3>2. Fits(r, Len(files'), begun')
      BY <1>0, <2>1, <2>2, <2>3 DEF Fits
    <3> QED BY <1>0, <2>1, <2>2, <2>3, <3>1, <3>2, TypesKept
  <2>5. log'[l] = r
    BY <1>0, <2>2
  <2> QED BY <2>1, <2>2, <2>4, <2>5 DEF Effect
<1> QED BY <1>1, <1>2, <1>3, <1>4, <1>5, <1>6

\* A step that drops the writer.
LEMMA DropStep ==
  ASSUME Types, NEW l \in Logs, Close(l) \/ Panic(l) \/ CloseWriter(l)
  PROVE  Types' /\ Effect(l)
<1>0. /\ log \in [Logs -> LogSet] /\ log[l] \in LogSet /\ Fits(log[l], Len(files), begun) /\ named \in 0..Len(files) /\ Len(files) \in Nat
      /\ begun \in Nat /\ faults \in Nat /\ acked \subseteq 1..begun /\ overlapped \in BOOLEAN
  BY LenProperties DEF Types, Shared
<1>1. /\ Drop(l) /\ named' = named /\ begun' = begun /\ acked' = acked /\ overlapped' = overlapped
  BY DEF Close, Panic, CloseWriter
<1>2. PICK r \in LogSet : /\ log' = [log EXCEPT ![l] = r]
                          /\ r.file = 0 /\ r.buffer = <<>> /\ r.rest = FALSE
                          /\ r.pc \in {"closed", "rename"} /\ r.entry \in {log[l].entry, NoLine}
                          /\ r.pc = "closed" => r = Closed /\ r.entry = NoLine
  <2>1. CASE Close(l) \/ Panic(l)
    <3>1. Closed \in LogSet /\ Closed.file = 0 /\ Closed.buffer = <<>> /\ Closed.rest = FALSE /\ Closed.pc = "closed" /\ Closed.entry = NoLine
      BY SpecialEntries DEF Closed
    <3>2. log' = [log EXCEPT ![l] = Closed]
      BY <2>1 DEF Close, Panic
    <3> QED BY <3>1, <3>2
  <2>2. CASE CloseWriter(l)
    <3> DEFINE r == [log[l] EXCEPT !.pc = "rename", !.file = 0, !.buffer = <<>>, !.rest = FALSE]
    <3>1. <<>> \in Seq(EntrySet)
      BY EmptySeq
    <3>2. r \in LogSet /\ r.file = 0 /\ r.buffer = <<>> /\ r.rest = FALSE /\ r.pc = "rename" /\ r.entry = log[l].entry
      BY <1>0, <3>1 DEF LogSet
    <3>3. log' = [log EXCEPT ![l] = r]
      BY <1>0, <2>2 DEF CloseWriter
    <3> HIDE DEF r
    <3> QED BY <3>2, <3>3
  <2> QED BY <2>1, <2>2
<1>3. /\ files' \in Seq(FileSet) /\ Len(files') = Len(files) /\ faults' \in Nat
  BY <1>0, <1>1, Dropped
<1>4. Types'
  <2>1. Shared' /\ Len(files') >= Len(files) /\ begun' >= begun
    BY <1>0, <1>1, <1>3 DEF Shared
  <2>2. Fits(r, Len(files'), begun')
    BY <1>0, <1>1, <1>2, <1>3, ClosedFits DEF Fits
  <2> QED BY <1>2, <2>1, <2>2, TypesKept
<1>5. log'[l] = r
  BY <1>0, <1>2
<1> QED BY <1>1, <1>2, <1>4, <1>5, Dropped DEF Effect, Written, Torn

\* A step that makes the file, or opens the one there is.
LEMMA OpenWriterStep ==
  ASSUME Types, NEW l \in Logs, OpenWriter(l)
  PROVE  Types' /\ Effect(l)
<1>0. /\ log \in [Logs -> LogSet] /\ log[l] \in LogSet /\ Fits(log[l], Len(files), begun) /\ named \in 0..Len(files) /\ Len(files) \in Nat
      /\ begun \in Nat /\ faults \in Nat /\ acked \subseteq 1..begun /\ overlapped \in BOOLEAN /\ files \in Seq(FileSet)
  BY LenProperties DEF Types, Shared
<1>1. /\ files' \in Seq(FileSet) /\ Len(files') \in Nat /\ Len(files') >= Len(files) /\ named' \in 1..Len(files')
      /\ files' = files \/ files' = Append(files, NewFile)
  <2>1. CASE named # 0
    BY <1>0, <2>1 DEF OpenWriter
  <2>2. CASE named = 0
    <3>1. files' = Append(files, NewFile) /\ named' = Len(files) + 1
      BY <2>2 DEF OpenWriter
    <3>2. Append(files, NewFile) \in Seq(FileSet) /\ Len(Append(files, NewFile)) = Len(files) + 1
      BY <1>0, SpecialEntries, AppendProperties
    <3> QED BY <1>0, <3>1, <3>2
  <2> QED BY <2>1, <2>2
<1>a. named' \in Nat
  BY <1>1
<1> DEFINE r == [log[l] EXCEPT !.file = named']
<1>2. /\ r \in LogSet /\ r.file = named' /\ r.buffer = log[l].buffer /\ r.rest = log[l].rest
      /\ r.pc = log[l].pc /\ r.entry = log[l].entry
  BY <1>0, <1>a DEF LogSet
<1>3. /\ log' = [log EXCEPT ![l] = r] /\ log[l].pc = "write"
      /\ begun' = begun /\ acked' = acked /\ faults' = faults /\ overlapped' = overlapped
  BY <1>0 DEF OpenWriter, At
<1>4. /\ (log[l].rest => log[l].buffer # <<>>) /\ log[l].entry # NoLine /\ log[l].entry.id \in 1..begun
  BY <1>0, <1>3 DEF Fits
<1> HIDE DEF r
<1>5. Types'
  <2>1. Shared' /\ Len(files') >= Len(files) /\ begun' >= begun
    BY <1>0, <1>1, <1>2, <1>3, <1>4 DEF Shared
  <2>2. Fits(r, Len(files'), begun')
    BY <1>0, <1>1, <1>2, <1>3, <1>4 DEF Fits
  <2> QED BY <1>0, <1>1, <1>2, <1>3, <1>4, <2>1, <2>2, TypesKept
<1>6. log'[l] = r
  BY <1>0, <1>3
<1> QED BY <1>1, <1>2, <1>3, <1>5, <1>6 DEF Effect

\* What is written with an entry: what is in the buffer, and the entry.
LEMMA BufferedTyped ==
  ASSUME Types, NEW l \in Logs
  PROVE  /\ Buffered(l) \in Seq(EntrySet) /\ Buffered(l) # <<>>
         /\ Buffered(l) = Append(log[l].buffer, [log[l].entry EXCEPT !.prev = log[l].last])
         /\ [log[l].entry EXCEPT !.prev = log[l].last] \in EntrySet
         /\ [log[l].entry EXCEPT !.prev = log[l].last].id = log[l].entry.id
         /\ BufferIds(Buffered(l)) = BufferIds(log[l].buffer) \cup {log[l].entry.id}
<1> DEFINE e == [log[l].entry EXCEPT !.prev = log[l].last]
<1>1. log[l].buffer \in Seq(EntrySet) /\ e \in EntrySet /\ e.id = log[l].entry.id
  BY DEF Types, LogSet, EntrySet
<1>2. Buffered(l) = Append(log[l].buffer, e)
  BY DEF Buffered
<1> HIDE DEF e
<1>3. /\ Append(log[l].buffer, e) \in Seq(EntrySet) /\ Append(log[l].buffer, e) # <<>>
      /\ DOMAIN Append(log[l].buffer, e) = DOMAIN log[l].buffer \cup {Len(log[l].buffer) + 1}
      /\ \A i \in DOMAIN log[l].buffer : Append(log[l].buffer, e)[i] = log[l].buffer[i]
      /\ Append(log[l].buffer, e)[Len(log[l].buffer) + 1] = e
  BY <1>1
<1>4. BufferIds(Append(log[l].buffer, e)) = BufferIds(log[l].buffer) \cup {e.id}
  BY <1>3 DEF BufferIds
<1> QED BY <1>1, <1>2, <1>3, <1>4 DEF e

\* A step that writes, or fails to.
LEMMA WriteStep ==
  ASSUME Types, NEW l \in Logs, Write(l) \/ WriteFails(l) \/ Flush(l)
  PROVE  Types' /\ Effect(l) /\ log[l].file \in DOMAIN files
<1>0. /\ log \in [Logs -> LogSet] /\ log[l] \in LogSet /\ Fits(log[l], Len(files), begun) /\ named \in 0..Len(files) /\ Len(files) \in Nat
      /\ begun \in Nat /\ faults \in Nat /\ acked \subseteq 1..begun /\ overlapped \in BOOLEAN /\ files \in Seq(FileSet)
  BY LenProperties DEF Types, Shared
<1> DEFINE k == log[l].file
<1>1. k \in DOMAIN files /\ k # 0 /\ files[k] \in FileSet /\ log[l].rest \in BOOLEAN /\ log[l].buffer \in Seq(EntrySet)
  <2>1. k # 0 /\ k <= Len(files) /\ k \in Nat
    BY <1>0 DEF Write, WriteFails, Flush, Fits, LogSet
  <2>2. k \in 1..Len(files) /\ log[l].rest \in BOOLEAN /\ log[l].buffer \in Seq(EntrySet)
    BY <1>0, <2>1 DEF LogSet
  <2> QED BY <1>0, <2>1, <2>2, ElementOfSeq
<1>2. named' = named /\ begun' = begun /\ overlapped' = overlapped
  BY DEF Write, WriteFails, Flush
<1>3. <<>> \in Seq(EntrySet)
  BY EmptySeq
<1>4. CASE Write(l)
  <2> DEFINE r == [log[l] EXCEPT !.pc = "ready", !.entry = NoLine, !.buffer = <<>>, !.rest = FALSE,
                                 !.last = log[l].entry.id]
             g == Extended(files[k], Buffered(l), log[l].rest)
  <2>1. log[l].entry # NoLine /\ log[l].entry.id \in 1..begun
    BY <1>0, <1>4 DEF Write, At, Fits
  <2>a. log[l].entry.id \in Int
    BY <1>0, <2>1
  <2>2. r \in LogSet /\ r.file = k /\ r.buffer = <<>> /\ r.rest = FALSE /\ r.pc = "ready" /\ r.entry = NoLine
    BY <1>0, <1>3, <2>a, SpecialEntries DEF LogSet
  <2>3. /\ log' = [log EXCEPT ![l] = r] /\ acked' = acked \cup {log[l].entry.id} /\ faults' = faults
        /\ files' = [files EXCEPT ![k] = g]
    BY <1>0, <1>1, <1>4 DEF Write
  <2>4. g \in FileSet
    BY <1>1, BufferedTyped, ExtendedFile
  <2> HIDE DEF r, g
  <2>5. files' \in Seq(FileSet) /\ Len(files') = Len(files)
    BY <1>1, <2>3, <2>4, OneFile
  <2>6. k <= Len(files)
    BY <1>0 DEF Fits
  <2>7. Types'
    <3>1. Shared' /\ Len(files') >= Len(files) /\ begun' >= begun
      <4>1. acked' \subseteq 1..begun'
        BY <1>0, <1>2, <2>1, <2>3
      <4> QED BY <1>0, <1>1, <1>2, <2>3, <2>5, <4>1 DEF Shared
    <3>2. Fits(r, Len(files'), begun')
      BY <1>0, <1>1, <1>2, <2>1, <2>2, <2>3, <2>5, <2>6, ClosedFits DEF Fits
    <3> QED BY <1>0, <1>1, <1>2, <2>1, <2>2, <2>3, <2>5, <2>6, <3>1, <3>2, TypesKept
  <2>8. log'[l] = r
    BY <1>0, <2>3
  <2> QED BY <1>1, <1>4, <2>3, <2>7, <2>8 DEF Effect
<1>5. CASE WriteFails(l)
  <2>1. log[l].entry # NoLine /\ faults' = faults + 1 /\ acked' = acked
    BY <1>0, <1>5 DEF WriteFails, At, Fits, Fault
  <2>2. PICK a \in Torn(l, Buffered(l)), killed \in BOOLEAN :
          /\ files' = [files EXCEPT ![k] = a.file]
          /\ log' = [log EXCEPT ![l] = IF killed THEN Closed ELSE
                       [log[l] EXCEPT !.pc = "ready", !.entry = NoLine, !.buffer = a.buffer, !.rest = a.rest]]
    BY <1>0, <1>5 DEF WriteFails, Torn
  <2>3. /\ a.file \in FileSet /\ a.buffer \in Seq(EntrySet) /\ a.buffer # <<>> /\ a.rest \in BOOLEAN
        /\ BufferIds(a.buffer) \subseteq BufferIds(log[l].buffer) \cup {log[l].entry.id}
    <3>1. a \in Failures(files[k], Buffered(l), log[l].rest)
      BY DEF Torn
    <3>2. Buffered(l) \in Seq(EntrySet) /\ BufferIds(Buffered(l)) = BufferIds(log[l].buffer) \cup {log[l].entry.id}
      BY BufferedTyped
    <3> QED BY <1>1, <3>1, <3>2, FailedFile
  <2>a. \A id \in BufferIds(a.buffer) : id > 0
    BY <1>0, <2>1, <2>3 DEF Fits
  <2> DEFINE r == IF killed THEN Closed ELSE
                    [log[l] EXCEPT !.pc = "ready", !.entry = NoLine, !.buffer = a.buffer, !.rest = a.rest]
  <2>4. /\ r \in LogSet /\ r.file \in {0, k} /\ r.buffer \in {a.buffer, <<>>} /\ r.entry = NoLine
        /\ r.buffer # <<>> => r.file # 0
        /\ r.rest => r.buffer # <<>>
        /\ r.pc \in {"closed", "ready"} /\ (r.pc = "closed" => r.file = 0 /\ r = Closed)
    <3>1. CASE killed
      BY <3>1, SpecialEntries DEF Closed
    <3>2. CASE ~killed
      BY <1>0, <1>1, <2>3, <3>2, SpecialEntries DEF LogSet
    <3> QED BY <3>1, <3>2
  <2>5. log' = [log EXCEPT ![l] = r]
    BY <2>2
  <2> HIDE DEF r
  <2>6. files' \in Seq(FileSet) /\ Len(files') = Len(files)
    BY <1>1, <2>2, <2>3, OneFile
  <2>7. r.file <= Len(files)
    BY <1>0, <2>4 DEF Fits
  <2>8. Types'
    <3>1. Shared' /\ Len(files') >= Len(files) /\ begun' >= begun
      BY <1>0, <1>2, <2>1, <2>4, <2>5, <2>6, <2>7 DEF Shared
    <3>2. \A id \in BufferIds(r.buffer) : id > 0
      BY <2>a, <2>4, ClosedFits
    <3>3. Fits(r, Len(files'), begun')
      BY <2>4, <2>6, <2>7, <3>2 DEF Fits
    <3> QED BY <1>0, <1>2, <2>1, <2>4, <2>5, <2>6, <2>7, <3>1, <3>3, TypesKept
  <2>9. log'[l] = r
    BY <1>0, <2>5
  <2> QED BY <1>1, <1>2, <2>1, <2>2, <2>4, <2>5, <2>8, <2>9 DEF Effect
<1>6. CASE Flush(l)
  <2>0. log[l].pc = "ready" /\ log[l].entry = NoLine /\ acked' = acked /\ log[l].buffer # <<>> /\ k <= Len(files)
    BY <1>0, <1>6 DEF Flush, At, Fits
  <2>1. CASE /\ files' = [files EXCEPT ![k] = Extended(files[k], log[l].buffer, log[l].rest)]
             /\ log' = [log EXCEPT ![l].buffer = <<>>, ![l].rest = FALSE]
             /\ UNCHANGED faults
    <3> DEFINE r == [log[l] EXCEPT !.buffer = <<>>, !.rest = FALSE]
               g == Extended(files[k], log[l].buffer, log[l].rest)
    <3>1. r \in LogSet /\ r.file = k /\ r.buffer = <<>> /\ r.rest = FALSE /\ r.pc = "ready" /\ r.entry = NoLine
      BY <1>0, <1>3, <2>0 DEF LogSet
    <3>2. log' = [log EXCEPT ![l] = r] /\ files' = [files EXCEPT ![k] = g]
      BY <1>0, <2>1
    <3>3. g \in FileSet
      BY <1>1, ExtendedFile
    <3> HIDE DEF r, g
    <3>4. files' \in Seq(FileSet) /\ Len(files') = Len(files)
      BY <1>1, <3>2, <3>3, OneFile
    <3>5. Types'
      <4>1. Shared' /\ Len(files') >= Len(files) /\ begun' >= begun
        BY <1>0, <1>1, <1>2, <2>0, <2>1, <3>1, <3>2, <3>4 DEF Shared
      <4>2. Fits(r, Len(files'), begun')
        BY <1>0, <1>1, <1>2, <2>0, <2>1, <3>1, <3>2, <3>4, ClosedFits DEF Fits
      <4> QED BY <1>0, <1>1, <1>2, <2>0, <2>1, <3>1, <3>2, <3>4, <4>1, <4>2, TypesKept
    <3>6. log'[l] = r
      BY <1>0, <3>2
    <3>7. log' = [log EXCEPT ![l] = log'[l]] /\ log'[l].buffer = <<>> /\ log'[l].entry = log[l].entry
      BY <2>0, <3>1, <3>2, <3>6
    <3> QED BY <1>1, <1>2, <2>0, <2>1, <3>5, <3>7 DEF Effect, Written
  <2>2. CASE \E a \in Torn(l, log[l].buffer) :
               /\ Fault
               /\ files' = [files EXCEPT ![k] = a.file]
               /\ log' = [log EXCEPT ![l].buffer = a.buffer, ![l].rest = a.rest]
    <3>0. PICK a \in Torn(l, log[l].buffer) :
               /\ faults' = faults + 1
               /\ files' = [files EXCEPT ![k] = a.file]
               /\ log' = [log EXCEPT ![l].buffer = a.buffer, ![l].rest = a.rest]
      BY <2>2 DEF Fault
    <3> DEFINE r == [log[l] EXCEPT !.buffer = a.buffer, !.rest = a.rest]
    <3>1. /\ a.file \in FileSet /\ a.buffer \in Seq(EntrySet) /\ a.buffer # <<>> /\ a.rest \in BOOLEAN
          /\ \A id \in BufferIds(a.buffer) : id > 0
      <4>1. \A id \in BufferIds(log[l].buffer) : id > 0
        BY <1>0 DEF Fits
      <4> QED BY <1>1, <4>1, FailedFile DEF Torn
    <3>2. r \in LogSet /\ r.file = k /\ r.buffer = a.buffer /\ r.rest = a.rest /\ r.pc = "ready" /\ r.entry = NoLine
      BY <1>0, <2>0, <3>1 DEF LogSet
    <3>3. log' = [log EXCEPT ![l] = r]
      BY <1>0, <3>0
    <3> HIDE DEF r
    <3>4. files' \in Seq(FileSet) /\ Len(files') = Len(files)
      BY <1>1, <3>0, <3>1, OneFile
    <3>5. Types'
      <4>1. Shared' /\ Len(files') >= Len(files) /\ begun' >= begun
        BY <1>0, <1>1, <1>2, <2>0, <3>0, <3>1, <3>2, <3>3, <3>4 DEF Shared
      <4>2. Fits(r, Len(files'), begun')
        BY <1>0, <1>1, <1>2, <2>0, <3>0, <3>1, <3>2, <3>3, <3>4 DEF Fits
      <4> QED BY <1>0, <1>1, <1>2, <2>0, <3>0, <3>1, <3>2, <3>3, <3>4, <4>1, <4>2, TypesKept
    <3>6. log'[l] = r
      BY <1>0, <3>3
    <3>7. log' = [log EXCEPT ![l] = log'[l]] /\ log'[l].buffer = a.buffer /\ log'[l].entry = log[l].entry
      BY <2>0, <3>2, <3>3, <3>6
    <3> QED BY <1>1, <1>2, <2>0, <3>0, <3>5, <3>7 DEF Effect
  <2> QED BY <1>1, <1>6, <2>1, <2>2 DEF Flush, Torn
<1> QED BY <1>4, <1>5, <1>6

\* Every step.
LEMMA EveryStep ==
  ASSUME Types, NEW l \in Logs, Step(l)
  PROVE  Types' /\ Effect(l)
BY QuietStep, DropStep, OpenWriterStep, WriteStep DEF Step

------------------------------------------------------------------------------
(* Whose an entry is. *)

\* The entries in a buffer or an unfinished line, which nobody has been told of.
Loose == {files[f].tail.id : f \in DOMAIN files} \cup UNION {BufferIds(log[m].buffer) : m \in Logs}

Tickets ==
  /\ Loose \subseteq (-1..begun) \ acked
  /\ \A l \in Logs : log[l].entry # NoLine => log[l].entry.id \notin acked \cup Loose
  /\ \A l, m \in Logs : log[l].entry # NoLine /\ log[m].entry # NoLine /\ l # m =>
       log[l].entry.id # log[m].entry.id

\* Which entries become loose.
LEMMA LooseGrows ==
  ASSUME Types, NEW l \in Logs, log' = [log EXCEPT ![l] = log'[l]], NEW X,
         \A f \in DOMAIN files' : files'[f].tail.id \in Loose \cup X,
         BufferIds(log'[l].buffer) \subseteq Loose \cup X
  PROVE  Loose' \subseteq Loose \cup X
<1>1. \A m \in Logs \ {l} : log'[m] = log[m]
  BY DEF Types
<1>2. ASSUME NEW m \in Logs PROVE BufferIds(log'[m].buffer) \subseteq Loose \cup X
  <2>1. CASE m = l
    BY <2>1
  <2>2. CASE m # l
    BY <1>1, <2>2 DEF Loose
  <2> QED BY <2>1, <2>2
<1> QED BY <1>2 DEF Loose

\* What a step without the entry leaves loose, and what one that gives it up does.
LEMMA LooseEffect ==
  ASSUME Types, Types', NEW l \in Logs, Effect(l), ~WriteEntry(l), ~Write(l)
  PROVE  /\ acked' = acked /\ begun' = begun
         /\ \/ Loose' \subseteq Loose \cup {-1, 0} /\ log'[l].entry \in {log[l].entry, NoLine}
            \/ /\ log[l].entry # NoLine /\ log'[l].entry = NoLine
               /\ Loose' \subseteq Loose \cup {-1, 0, log[l].entry.id}
<1>0. log[l] \in LogSet /\ files \in Seq(FileSet) /\ log' = [log EXCEPT ![l] = log'[l]] /\ log \in [Logs -> LogSet]
  BY DEF Types, Shared, Effect
<1>1. acked' = acked /\ begun' = begun /\ log'[l].entry \in {log[l].entry, NoLine}
  BY DEF Effect
<1>2. \A f \in DOMAIN files : files[f].tail.id \in Loose
  BY DEF Loose
<1>3. BufferIds(log[l].buffer) \subseteq Loose /\ BufferIds(<<>>) = {}
  BY EmptySeq DEF Loose, BufferIds
<1>4. ASSUME NEW k \in DOMAIN files, NEW g \in FileSet, files' = [files EXCEPT ![k] = g],
             NEW X, g.tail.id \in Loose \cup X, BufferIds(log'[l].buffer) \subseteq Loose \cup X
      PROVE  Loose' \subseteq Loose \cup X
  <2>1. \A f \in DOMAIN files' : files'[f].tail.id \in Loose \cup X
    <3>1. DOMAIN files' = DOMAIN files /\ files'[k] = g /\ \A f \in DOMAIN files \ {k} : files'[f] = files[f]
      BY <1>4, OneFile
    <3> QED BY <1>2, <1>4, <3>1
  <2> QED BY <1>0, <1>4, <2>1, LooseGrows
<1>a. ASSUME log[l].file \in DOMAIN files
      PROVE  /\ files[log[l].file] \in FileSet /\ log[l].buffer \in Seq(EntrySet) /\ log[l].rest \in BOOLEAN
             /\ files[log[l].file].tail.id \in Loose
  BY <1>0, <1>2, <1>a, ElementOfSeq DEF LogSet
<1>5. CASE files' = files /\ log'[l].buffer \in {log[l].buffer, <<>>}
  <2>1. Loose' \subseteq Loose \cup {}
    BY <1>0, <1>2, <1>3, <1>5, LooseGrows
  <2> QED BY <1>1, <2>1
<1>6. CASE files' = Append(files, NewFile) /\ log'[l].buffer = log[l].buffer
  <2>1. \A f \in DOMAIN files' : files'[f].tail.id \in Loose \cup {-1}
    <3>1. ASSUME NEW f \in DOMAIN files' PROVE files'[f] = NewFile \/ (f \in DOMAIN files /\ files'[f] = files[f])
      BY <1>0, <1>6, SpecialEntries
    <3> QED BY <1>2, <3>1, SpecialEntries
  <2>2. Loose' \subseteq Loose \cup {-1}
    BY <1>0, <1>3, <1>6, <2>1, LooseGrows
  <2> QED BY <1>1, <2>2
<1>7. CASE /\ log[l].file \in DOMAIN files /\ files' = Written(l, log[l].buffer)
           /\ log[l].buffer # <<>> /\ log'[l].buffer = <<>>
  <2> DEFINE g == Extended(files[log[l].file], log[l].buffer, log[l].rest)
  <2>1. g \in FileSet /\ g.tail.id \in Loose \cup {-1}
    BY <1>7, <1>a, ExtendedFile, SpecialEntries
  <2>2. files' = [files EXCEPT ![log[l].file] = g]
    BY <1>7 DEF Written
  <2> HIDE DEF g
  <2>3. Loose' \subseteq Loose \cup {-1}
    BY <1>3, <1>4, <1>7, <2>1, <2>2
  <2> QED BY <1>1, <2>3
<1>8. CASE /\ log[l].file \in DOMAIN files
           /\ \E a \in Torn(l, log[l].buffer) :
                files' = [files EXCEPT ![log[l].file] = a.file] /\ log'[l].buffer \in {a.buffer, <<>>}
  <2>1. PICK a \in Torn(l, log[l].buffer) :
           files' = [files EXCEPT ![log[l].file] = a.file] /\ log'[l].buffer \in {a.buffer, <<>>}
    BY <1>8
  <2>2. /\ a.file \in FileSet /\ a.file.tail.id \in Loose \cup {-1, 0}
        /\ BufferIds(log'[l].buffer) \subseteq Loose \cup {-1, 0}
    <3>1. /\ a.file \in FileSet /\ a.file.tail.id \in {files[log[l].file].tail.id, -1, 0} \cup BufferIds(log[l].buffer)
          /\ BufferIds(a.buffer) \subseteq BufferIds(log[l].buffer)
      BY <1>8, <1>a, FailedFile DEF Torn
    <3> QED BY <1>3, <1>8, <1>a, <2>1, <3>1
  <2>3. Loose' \subseteq Loose \cup {-1, 0}
    BY <1>4, <1>8, <2>1, <2>2
  <2> QED BY <1>1, <2>3
<1>9. CASE /\ log[l].file \in DOMAIN files
           /\ log[l].entry # NoLine /\ log'[l].entry = NoLine
           /\ \E a \in Torn(l, Buffered(l)) :
                files' = [files EXCEPT ![log[l].file] = a.file] /\ log'[l].buffer \in {a.buffer, <<>>}
  <2>1. PICK a \in Torn(l, Buffered(l)) :
           files' = [files EXCEPT ![log[l].file] = a.file] /\ log'[l].buffer \in {a.buffer, <<>>}
    BY <1>9
  <2>2. /\ a.file \in FileSet /\ a.file.tail.id \in Loose \cup {-1, 0, log[l].entry.id}
        /\ BufferIds(log'[l].buffer) \subseteq Loose \cup {-1, 0, log[l].entry.id}
    <3>1. /\ a.file \in FileSet /\ a.file.tail.id \in {files[log[l].file].tail.id, -1, 0} \cup BufferIds(Buffered(l))
          /\ BufferIds(a.buffer) \subseteq BufferIds(Buffered(l))
      <4>1. Buffered(l) \in Seq(EntrySet) /\ a \in Failures(files[log[l].file], Buffered(l), log[l].rest)
        BY BufferedTyped DEF Torn
      <4> QED BY <1>9, <1>a, <4>1, FailedFile
    <3>2. BufferIds(Buffered(l)) = BufferIds(log[l].buffer) \cup {log[l].entry.id}
      BY BufferedTyped
    <3>3. BufferIds(log'[l].buffer) \subseteq BufferIds(Buffered(l))
      BY <1>3, <2>1, <3>1
    <3>4. files[log[l].file].tail.id \in Loose /\ BufferIds(log[l].buffer) \subseteq Loose
      BY <1>9 DEF Loose
    <3>5. BufferIds(Buffered(l)) \subseteq Loose \cup {log[l].entry.id}
      BY <3>2, <3>4
    <3>6. a.file.tail.id \in Loose \cup {-1, 0, log[l].entry.id}
      BY <3>1, <3>4, <3>5
    <3>7. BufferIds(log'[l].buffer) \subseteq Loose \cup {-1, 0, log[l].entry.id}
      BY <3>3, <3>5
    <3> QED BY <3>1, <3>6, <3>7
  <2>3. Loose' \subseteq Loose \cup {-1, 0, log[l].entry.id}
    <3>1. log[l].file \in DOMAIN files /\ files' = [files EXCEPT ![log[l].file] = a.file]
      BY <1>9, <2>1
    <3> QED BY <1>4, <2>2, <3>1
  <2> QED BY <1>1, <1>9, <2>3
<1> QED BY <1>5, <1>6, <1>7, <1>8, <1>9 DEF Effect

\* What is in a buffer, an unfinished line or a call is not acknowledged, and nobody else's.
LEMMA TicketsKept ==
  ASSUME Types, Types', Tickets, NEW l \in Logs, Effect(l), Step(l)
  PROVE  Tickets'
<1>0. /\ log[l] \in LogSet /\ log' = [log EXCEPT ![l] = log'[l]] /\ log \in [Logs -> LogSet]
      /\ begun \in Nat /\ acked \subseteq 1..begun /\ files \in Seq(FileSet)
  BY DEF Types, Shared, Effect
<1>1. \A m \in Logs \ {l} : log'[m] = log[m]
  BY <1>0
<1>2. /\ \A m \in Logs : log[m].entry # NoLine => log[m].entry.id \in 1..begun
      /\ -1 \in (-1..begun) \ acked /\ 0 \in (-1..begun) \ acked /\ 1..begun \subseteq -1..begun
  BY <1>0 DEF Types, Fits
<1>3. CASE WriteEntry(l)
  <2>1. /\ log'[l] = [log[l] EXCEPT !.entry = Entry(begun + 1, Genesis),
                                   !.pc = IF Len(Read(named)) >= Limit THEN "rotate" ELSE "write"]
        /\ files' = files /\ begun' = begun + 1 /\ acked' = acked
    BY <1>0, <1>3 DEF WriteEntry
  <2>2. log'[l].buffer = log[l].buffer /\ log'[l].entry.id = begun + 1
    <3>1. Entry(begun + 1, Genesis).id = begun + 1
      BY DEF Entry
    <3> QED BY <1>0, <2>1, <3>1 DEF LogSet
  <2>3. Loose' = Loose
    <3>1. \A m \in Logs : log'[m].buffer = log[m].buffer
      BY <1>1, <2>2
    <3> QED BY <2>1, <3>1 DEF Loose
  <2>4. Loose' \subseteq (-1..begun') \ acked' /\ begun + 1 \notin acked \cup Loose
    BY <1>0, <2>1, <2>3 DEF Tickets
  <2>5. \A m \in Logs : log[m].entry # NoLine => log[m].entry.id # begun + 1
    BY <1>0, <1>2
  <2>6. \A m \in Logs : log'[m].entry # NoLine => log'[m].entry.id \notin acked' \cup Loose'
    BY <1>1, <2>1, <2>2, <2>3, <2>4 DEF Tickets
  <2>7. \A i, m \in Logs : log'[i].entry # NoLine /\ log'[m].entry # NoLine /\ i # m => log'[i].entry.id # log'[m].entry.id
    <3>1. \A i \in Logs \ {l} : log'[i].entry # NoLine => log'[i].entry.id # log'[l].entry.id
      BY <1>1, <2>2, <2>5
    <3>2. \A i, m \in Logs \ {l} : log'[i].entry # NoLine /\ log'[m].entry # NoLine /\ i # m => log'[i].entry.id # log'[m].entry.id
      BY <1>1 DEF Tickets
    <3> QED BY <3>1, <3>2
  <2> QED BY <2>4, <2>6, <2>7 DEF Tickets
<1>4. CASE Write(l)
  <2>1. log[l].entry # NoLine /\ log[l].file \in DOMAIN files
    <3>1. log[l].pc = "write"
      BY <1>4 DEF Write, At
    <3> QED BY <1>4, <3>1, WriteStep DEF Types, Fits
  <2>2. /\ log'[l].entry = NoLine /\ log'[l].buffer = <<>> /\ acked' = acked \cup {log[l].entry.id} /\ begun' = begun
        /\ files' = [files EXCEPT ![log[l].file] = Extended(files[log[l].file], Buffered(l), log[l].rest)]
    BY <1>0, <1>4 DEF Write, LogSet
  <2>3. Loose' \subseteq Loose \cup {-1}
    <3> DEFINE g == Extended(files[log[l].file], Buffered(l), log[l].rest)
    <3>1. g \in FileSet /\ g.tail = NoLine
      <4>1. files[log[l].file] \in FileSet /\ log[l].rest \in BOOLEAN
        BY <1>0, <2>1, ElementOfSeq DEF LogSet
      <4> QED BY <4>1, BufferedTyped, ExtendedFile
    <3> HIDE DEF g
    <3>2. DOMAIN files' = DOMAIN files /\ files'[log[l].file] = g /\ \A f \in DOMAIN files \ {log[l].file} : files'[f] = files[f]
      BY <2>1, <2>2, <3>1, OneFile DEF g
    <3>3. \A f \in DOMAIN files' : files'[f].tail.id \in Loose \cup {-1}
      BY <3>1, <3>2, SpecialEntries DEF Loose
    <3>4. BufferIds(log'[l].buffer) = {}
      BY <2>2, EmptySeq DEF BufferIds
    <3> QED BY <1>0, <3>3, <3>4, LooseGrows
  <2>4. log[l].entry.id \in 1..begun /\ log[l].entry.id \notin Loose /\ log[l].entry.id # -1
    BY <1>0, <1>2, <2>1 DEF Tickets
  <2>5. Loose' \subseteq (-1..begun') \ acked'
    BY <1>0, <1>2, <2>2, <2>3, <2>4 DEF Tickets
  <2>6. ASSUME NEW m \in Logs, log'[m].entry # NoLine
        PROVE  m # l /\ log'[m].entry.id \notin acked' \cup Loose'
    <3>1. m # l
      BY <2>2, <2>6
    <3>2. log[m].entry # NoLine /\ log'[m] = log[m]
      BY <1>1, <2>6, <3>1
    <3>3. log[m].entry.id \in 1..begun /\ log[m].entry.id \notin acked \cup Loose /\ log[m].entry.id # log[l].entry.id
      BY <1>2, <2>1, <3>1, <3>2 DEF Tickets
    <3> QED BY <1>0, <2>2, <2>3, <3>1, <3>2, <3>3
  <2>7. \A i, m \in Logs : log'[i].entry # NoLine /\ log'[m].entry # NoLine /\ i # m => log'[i].entry.id # log'[m].entry.id
    BY <1>1, <2>6 DEF Tickets
  <2> QED BY <2>5, <2>6, <2>7 DEF Tickets
<1>5. CASE ~WriteEntry(l) /\ ~Write(l)
  <2>1. PICK lost \in SUBSET {log[l].entry.id} :
          /\ acked' = acked /\ begun' = begun /\ Loose' \subseteq Loose \cup {-1, 0} \cup lost
          /\ log'[l].entry \in {log[l].entry, NoLine}
          /\ lost # {} => log[l].entry # NoLine /\ log'[l].entry = NoLine
    <3>1. CASE Loose' \subseteq Loose \cup {-1, 0} /\ log'[l].entry \in {log[l].entry, NoLine}
      BY <1>5, <3>1, LooseEffect
    <3>2. CASE log[l].entry # NoLine /\ log'[l].entry = NoLine /\ Loose' \subseteq Loose \cup {-1, 0, log[l].entry.id}
      BY <1>5, <3>2, LooseEffect
    <3> QED BY <1>5, <3>1, <3>2, LooseEffect
  <2>2. lost \subseteq (1..begun) \ acked
    BY <1>2, <2>1 DEF Tickets
  <2>3. Loose' \subseteq (-1..begun') \ acked'
    BY <1>2, <2>1, <2>2 DEF Tickets
  <2>4. ASSUME NEW m \in Logs, log'[m].entry # NoLine
        PROVE  log'[m].entry = log[m].entry /\ log'[m].entry.id \notin acked' \cup Loose'
    <3>1. log'[m].entry = log[m].entry
      BY <1>1, <2>1, <2>4
    <3>2. log[m].entry.id \in 1..begun /\ log[m].entry.id \notin acked \cup Loose
      BY <1>2, <2>4, <3>1 DEF Tickets
    <3>3. log[m].entry.id \notin lost
      <4>1. CASE m = l
        BY <2>1, <2>4, <4>1
      <4>2. CASE m # l
        BY <2>1, <2>4, <3>1, <4>2 DEF Tickets
      <4> QED BY <4>1, <4>2
    <3>4. log[m].entry.id \notin {-1, 0}
      BY <1>0, <3>2
    <3> QED BY <2>1, <3>1, <3>2, <3>3, <3>4
  <2>5. \A i, m \in Logs : log'[i].entry # NoLine /\ log'[m].entry # NoLine /\ i # m => log'[i].entry.id # log'[m].entry.id
    BY <2>4 DEF Tickets
  <2> QED BY <2>3, <2>4, <2>5 DEF Tickets
<1> QED BY <1>3, <1>4, <1>5

------------------------------------------------------------------------------
(* What is lost. *)

\* The acknowledged entries that are no line of a file, and the files that end in the middle
\* of a line: each was charged to a fault.
Lines == UNION {LineIds(files[f]) : f \in DOMAIN files}
Lost == acked \ Lines
Unfinished == {f \in DOMAIN files : files[f].tail # NoLine}
LossBounded == Cardinality(Lost) + Cardinality(Unfinished) <= faults

LossInv == Types /\ Tickets /\ LossBounded

\* There are finitely many.
LEMMA LossFinite ==
  ASSUME Types
  PROVE  /\ IsFiniteSet(Lost) /\ Cardinality(Lost) \in Nat
         /\ IsFiniteSet(Unfinished) /\ Cardinality(Unfinished) \in Nat
<1>0. begun \in Int /\ Len(files) \in Int /\ DOMAIN files = 1..Len(files) /\ acked \subseteq 1..begun
  BY LenProperties DEF Types, Shared
<1>1. IsFiniteSet(1..begun)
  BY <1>0, FS_Interval
<1>3. Lost \subseteq 1..begun
  BY <1>0 DEF Lost
<1>2. IsFiniteSet(1..Len(files)) /\ Unfinished \subseteq 1..Len(files)
  BY <1>0, FS_Interval DEF Unfinished
<1> QED BY <1>1, <1>2, <1>3, FS_Subset, FS_CardinalityType

\* A set with at most one more.
LEMMA OneMore ==
  ASSUME NEW S, NEW T, NEW x, IsFiniteSet(S), T \subseteq S \cup {x}
  PROVE  IsFiniteSet(T) /\ Cardinality(T) \in Nat /\ Cardinality(S) \in Nat /\ Cardinality(T) <= Cardinality(S) + 1
<1>1. IsFiniteSet(S \cup {x}) /\ Cardinality(S \cup {x}) \in {Cardinality(S), Cardinality(S) + 1}
  BY FS_AddElement
<1>2. IsFiniteSet(T) /\ Cardinality(T) <= Cardinality(S \cup {x})
  BY <1>1, FS_Subset
<1> QED BY <1>1, <1>2, FS_CardinalityType

\* Nothing is lost, and at most so many files are left in the middle of a line as faults are
\* added.
LEMMA LossSame ==
  ASSUME Types, Types', LossBounded, Lost' \subseteq Lost, faults' >= faults, NEW k,
         Unfinished' \subseteq Unfinished \/ (Unfinished' \subseteq Unfinished \cup {k} /\ faults' = faults + 1)
  PROVE  LossBounded'
<1>1. faults \in Nat /\ faults' \in Nat
  BY DEF Types, Shared
<1>2. /\ Cardinality(Lost) \in Nat /\ Cardinality(Lost') \in Nat /\ Cardinality(Lost') <= Cardinality(Lost)
      /\ Cardinality(Unfinished) \in Nat
  BY LossFinite, FS_Subset, FS_CardinalityType
<1>3. CASE Unfinished' \subseteq Unfinished
  <2>1. Cardinality(Unfinished') \in Nat /\ Cardinality(Unfinished') <= Cardinality(Unfinished)
    BY <1>3, LossFinite, FS_Subset, FS_CardinalityType
  <2> QED BY <1>1, <1>2, <2>1 DEF LossBounded
<1>4. CASE Unfinished' \subseteq Unfinished \cup {k} /\ faults' = faults + 1
  <2>1. Cardinality(Unfinished') \in Nat /\ Cardinality(Unfinished') <= Cardinality(Unfinished) + 1
    BY <1>4, LossFinite, OneMore
  <2> QED BY <1>1, <1>2, <1>4, <2>1 DEF LossBounded
<1> QED BY <1>3, <1>4

\* One entry is lost, with an unfinished line that it was written on.
LEMMA LossSwapped ==
  ASSUME Types, Types', LossBounded, NEW e, NEW k \in Unfinished, faults' = faults,
         Lost' \subseteq Lost \cup {e}, Unfinished' \subseteq Unfinished \ {k}
  PROVE  LossBounded'
<1>1. faults \in Nat
  BY DEF Types, Shared
<1>2. Cardinality(Lost) \in Nat /\ Cardinality(Lost') \in Nat /\ Cardinality(Lost') <= Cardinality(Lost) + 1
  BY LossFinite, OneMore
<1>3. IsFiniteSet(Unfinished \ {k}) /\ Cardinality(Unfinished \ {k}) = Cardinality(Unfinished) - 1
  BY LossFinite, FS_RemoveElement
<1>4. /\ Cardinality(Unfinished) \in Nat /\ Cardinality(Unfinished') \in Nat
      /\ Cardinality(Unfinished') <= Cardinality(Unfinished) - 1
  BY <1>3, LossFinite, FS_Subset, FS_CardinalityType
<1> QED BY <1>1, <1>2, <1>4 DEF LossBounded

\* A file that is written to keeps its lines, and other files all they have.
LEMMA LinesKept ==
  ASSUME Types, NEW k \in DOMAIN files, NEW g \in FileSet, files' = [files EXCEPT ![k] = g],
         LineIds(files[k]) \subseteq LineIds(g)
  PROVE  /\ Lines \cup LineIds(g) \subseteq Lines'
         /\ Unfinished' \subseteq Unfinished \cup {k}
         /\ g.tail = NoLine => Unfinished' \subseteq Unfinished \ {k}
<1>1. DOMAIN files' = DOMAIN files /\ files'[k] = g /\ \A f \in DOMAIN files \ {k} : files'[f] = files[f]
  BY OneFile
<1>2. \A f \in DOMAIN files : LineIds(files[f]) \subseteq LineIds(files'[f])
  BY <1>1
<1>3. Lines \cup LineIds(g) \subseteq Lines'
  BY <1>1, <1>2 DEF Lines
<1>4. Unfinished' \subseteq Unfinished \cup {k} /\ (g.tail = NoLine => Unfinished' \subseteq Unfinished \ {k})
  BY <1>1 DEF Unfinished
<1> QED BY <1>3, <1>4

\* Each fault costs one acknowledged entry at most: it leaves one line unfinished, and an
\* unfinished line spoils one entry.
LEMMA LossKept ==
  ASSUME LossInv, Types', NEW l \in Logs, Effect(l), Step(l)
  PROVE  LossBounded'
<1>0. /\ Types /\ LossBounded /\ faults \in Nat /\ files \in Seq(FileSet) /\ log \in [Logs -> LogSet] /\ log[l] \in LogSet
  BY DEF LossInv, Types, Shared
<1>1. ASSUME NEW k \in DOMAIN files, NEW g \in FileSet, files' = [files EXCEPT ![k] = g], LineIds(files[k]) \subseteq LineIds(g),
             acked' = acked, (g.tail = NoLine /\ faults' = faults) \/ faults' = faults + 1
      PROVE  LossBounded'
  <2>1. Lost' \subseteq Lost
    BY <1>0, <1>1, LinesKept DEF Lost
  <2>2. CASE g.tail = NoLine /\ faults' = faults
    <3>1. Unfinished' \subseteq Unfinished
      BY <1>0, <1>1, <2>2, LinesKept
    <3> QED BY <1>0, <2>1, <2>2, <3>1, LossSame
  <2>3. CASE faults' = faults + 1
    <3>1. Unfinished' \subseteq Unfinished \cup {k}
      BY <1>0, <1>1, LinesKept
    <3>2. faults' >= faults
      BY <1>0, <2>3
    <3> QED BY <1>0, <2>1, <2>3, <3>1, <3>2, LossSame
  <2> QED BY <1>1, <2>2, <2>3
<1>a. ASSUME log[l].file \in DOMAIN files
      PROVE  /\ files[log[l].file] \in FileSet /\ log[l].buffer \in Seq(EntrySet) /\ log[l].rest \in BOOLEAN
             /\ log[l].rest => log[l].buffer # <<>>
  <2>1. files[log[l].file] \in FileSet /\ Fits(log[l], Len(files), begun)
    BY <1>0, <1>a, ElementOfSeq DEF Types
  <2> QED BY <1>0, <2>1 DEF LogSet, Fits
<1>2. CASE WriteEntry(l)
  <2>1. files' = files /\ acked' = acked /\ faults' = faults
    BY <1>2 DEF WriteEntry
  <2>2. Lost' = Lost /\ Unfinished' = Unfinished
    BY <2>1 DEF Lost, Lines, Unfinished
  <2> QED BY <1>0, <2>1, <2>2 DEF LossBounded
<1>3. CASE Write(l)
  <2> DEFINE k == log[l].file
             e == [log[l].entry EXCEPT !.prev = log[l].last]
             g == Extended(files[k], Buffered(l), log[l].rest)
  <2>1. k \in DOMAIN files
    BY <1>0, <1>3, WriteStep
  <2>2. /\ files' = [files EXCEPT ![k] = g] /\ acked' = acked \cup {log[l].entry.id} /\ faults' = faults
    BY <1>3 DEF Write
  <2>3. /\ Buffered(l) = Append(log[l].buffer, e) /\ e \in EntrySet /\ e.id = log[l].entry.id
        /\ Buffered(l) \in Seq(EntrySet) /\ Buffered(l) # <<>>
    BY <1>0, BufferedTyped
  <2>4. files[k] \in FileSet /\ log[l].buffer \in Seq(EntrySet) /\ log[l].rest \in BOOLEAN /\ (log[l].rest => log[l].buffer # <<>>)
    BY <1>a, <2>1
  <2>5. g \in FileSet /\ LineIds(files[k]) \subseteq LineIds(g) /\ g.tail = NoLine
    BY <2>3, <2>4, ExtendedFile
  <2>6. Lines \cup LineIds(g) \subseteq Lines' /\ Unfinished' \subseteq Unfinished \ {k}
    <3>1. files' = [files EXCEPT ![k] = g]
      BY <2>2
    <3> HIDE DEF g, k
    <3> QED BY <1>0, <2>1, <2>5, <3>1, LinesKept
  <2>7. CASE log[l].buffer # <<>> \/ Begins(files[k], e, log[l].rest)
    <3>1. e.id \in LineIds(g)
      <4> HIDE DEF e, k
      <4> QED BY <2>3, <2>4, <2>7, ExtendedLast
    <3>2. Lost' \subseteq Lost
      BY <2>2, <2>3, <2>6, <3>1 DEF Lost
    <3>3. Unfinished' \subseteq Unfinished
      BY <2>6
    <3> QED BY <1>0, <2>2, <3>2, <3>3, LossSame
  <2>8. CASE log[l].buffer = <<>> /\ ~Begins(files[k], e, log[l].rest)
    <3>1. k \in Unfinished
      BY <2>1, <2>4, <2>8 DEF Begins, Unfinished
    <3>2. Lost' \subseteq Lost \cup {log[l].entry.id}
      BY <2>2, <2>6 DEF Lost
    <3> QED BY <1>0, <2>2, <2>6, <3>1, <3>2, LossSwapped
  <2> QED BY <2>7, <2>8
<1>4. CASE files' = files /\ acked' = acked /\ faults' \in {faults, faults + 1}
  <2>1. Lost' = Lost /\ Unfinished' = Unfinished
    BY <1>4 DEF Lost, Lines, Unfinished
  <2>2. faults' >= faults
    BY <1>0, <1>4
  <2> QED BY <1>0, <2>1, <2>2, LossSame
<1>5. CASE files' = Append(files, NewFile) /\ acked' = acked /\ faults' = faults
  <2>1. /\ \A f \in DOMAIN files : f \in DOMAIN files' /\ files'[f] = files[f]
        /\ \A f \in DOMAIN files' : f \notin DOMAIN files => files'[f] = NewFile
    BY <1>0, <1>5, SpecialEntries
  <2>2. Lost' \subseteq Lost
    BY <1>5, <2>1 DEF Lost, Lines
  <2>3. Unfinished' \subseteq Unfinished
    BY <2>1, SpecialEntries DEF Unfinished
  <2>4. faults' >= faults
    BY <1>0, <1>5
  <2> QED BY <1>0, <2>2, <2>3, <2>4, LossSame
<1>6. CASE /\ log[l].file \in DOMAIN files /\ files' = Written(l, log[l].buffer) /\ faults' = faults
           /\ log[l].buffer # <<>> /\ acked' = acked
  <2> DEFINE g == Extended(files[log[l].file], log[l].buffer, log[l].rest)
  <2>1. g \in FileSet /\ LineIds(files[log[l].file]) \subseteq LineIds(g) /\ g.tail = NoLine
    BY <1>6, <1>a, ExtendedFile
  <2>2. files' = [files EXCEPT ![log[l].file] = g]
    BY <1>6 DEF Written
  <2> HIDE DEF g
  <2> QED BY <1>1, <1>6, <2>1, <2>2
<1>7. CASE /\ log[l].file \in DOMAIN files /\ faults' = faults + 1 /\ acked' = acked
           /\ \E a \in Torn(l, log[l].buffer) \cup Torn(l, Buffered(l)) : files' = [files EXCEPT ![log[l].file] = a.file]
  <2>1. PICK a \in Torn(l, log[l].buffer) \cup Torn(l, Buffered(l)) : files' = [files EXCEPT ![log[l].file] = a.file]
    BY <1>7
  <2>2. a.file \in FileSet /\ LineIds(files[log[l].file]) \subseteq LineIds(a.file)
    <3>1. Buffered(l) \in Seq(EntrySet)
      BY <1>0, BufferedTyped
    <3> QED BY <1>7, <1>a, <2>1, <3>1, FailedFile DEF Torn
  <2> QED BY <1>1, <1>7, <2>1, <2>2
<1> QED BY <1>2, <1>3, <1>4, <1>5, <1>6, <1>7 DEF Effect

\* The losses stay bounded.
LEMMA LossStep == LossInv /\ [Next]_vars => LossInv'
<1> SUFFICES ASSUME LossInv, [Next]_vars PROVE LossInv'
  OBVIOUS
<1>1. CASE UNCHANGED vars
  <2>1. Types' /\ Lost' = Lost /\ Unfinished' = Unfinished /\ Loose' = Loose
    BY <1>1 DEF vars, LossInv, Types, Shared, Lost, Lines, Unfinished, Loose
  <2> QED BY <1>1, <2>1 DEF vars, LossInv, Tickets, LossBounded
<1>2. ASSUME NEW l \in Logs, Step(l) PROVE LossInv'
  <2>1. Types' /\ Effect(l)
    BY <1>2, EveryStep DEF LossInv
  <2> QED BY <1>2, <2>1, TicketsKept, LossKept DEF LossInv
<1> QED BY <1>1, <1>2 DEF Next

\* Nothing is open in the beginning.
LEMMA TypesInit == Init => Types
<1> SUFFICES ASSUME Init PROVE Types
  OBVIOUS
<1>1. Closed \in LogSet /\ Closed.file = 0 /\ Closed.buffer = <<>> /\ Closed.rest = FALSE /\ Closed.pc = "closed" /\ Closed.entry = NoLine
  BY SpecialEntries DEF Closed
<1>2. files \in Seq(FileSet) /\ Len(files) = 0
  BY EmptySeq DEF Init
<1>3. Shared
  <2>1. named \in 0..Len(files) /\ acked \subseteq 1..begun
    BY <1>2 DEF Init
  <2> QED BY <1>2, <2>1 DEF Init, Shared
<1>4. log \in [Logs -> LogSet] /\ \A l \in Logs : log[l] = Closed
  BY <1>1 DEF Init
<1>5. Fits(Closed, Len(files), begun)
  BY <1>2, ClosedFits
<1> QED BY <1>3, <1>4, <1>5 DEF Types

\* Nothing is lost in the beginning.
LEMMA LossInit == Init => LossInv
<1> SUFFICES ASSUME Init PROVE LossInv
  OBVIOUS
<1>1. Types
  BY TypesInit
<1>2. DOMAIN files = {} /\ \A l \in Logs : log[l].entry = NoLine /\ log[l].buffer = <<>>
  BY EmptySeq DEF Init, Closed
<1>3. BufferIds(<<>>) = {}
  BY EmptySeq DEF BufferIds
<1>4. Loose = {}
  BY <1>2, <1>3 DEF Loose
<1>5. Lost = {} /\ Unfinished = {}
  BY <1>2 DEF Init, Lost, Unfinished
<1>6. LossBounded
  BY <1>5, FS_EmptySet DEF Init, LossBounded
<1> QED BY <1>1, <1>2, <1>4, <1>6 DEF LossInv, Tickets

\* However many logs write at once, rotate, fail and are killed: each fault costs one entry
\* at most for which write_entry answered Ok.
THEOREM AckedIsKept == Spec => []AckedKept
<1>1. LossInv => AckedKept
  <2> SUFFICES ASSUME LossInv PROVE AckedKept
    OBVIOUS
  <2>1. ASSUME NEW f \in DOMAIN files, NEW i \in DOMAIN files[f].lines
        PROVE  files[f].lines[i].id \in Kept
    <3>1. f # 0 /\ files[f] \in FileSet
      BY ElementOfSeq, LenProperties DEF LossInv, Types, Shared
    <3> DEFINE tail == IF files[f].tail = NoLine THEN <<>> ELSE IF files[f].whole THEN <<files[f].tail>> ELSE <<Garbled>>
    <3>2. files[f].lines \in Seq(EntrySet) /\ tail \in Seq(EntrySet) /\ Read(f) = files[f].lines \o tail
      BY <3>1, SpecialEntries DEF FileSet, Read
    <3> HIDE DEF tail
    <3>3. i \in DOMAIN Read(f) /\ Read(f)[i] = files[f].lines[i]
      BY <3>2
    <3> QED BY <3>3 DEF Kept
  <2>2. acked \ Kept \subseteq Lost
    BY <2>1 DEF Lost, Lines, LineIds
  <2>3. /\ Cardinality(acked \ Kept) \in Nat /\ Cardinality(acked \ Kept) <= Cardinality(Lost)
        /\ Cardinality(Lost) \in Nat /\ Cardinality(Unfinished) \in Nat /\ faults \in Nat
    BY <2>2, LossFinite, FS_Subset, FS_CardinalityType DEF LossInv, Types, Shared
  <2> QED BY <2>3 DEF LossInv, LossBounded, AckedKept
<1> QED BY <1>1, LossInit, LossStep, PTL DEF Spec

------------------------------------------------------------------------------
(* What verify_log finds in a file. *)

\* A file as it is read.
ReadOf(f) == f.lines \o (IF f.tail = NoLine THEN <<>> ELSE IF f.whole THEN <<f.tail>> ELSE <<Garbled>>)

\* Where the chain is broken in what is read of the k-th file.
Breaks(s, k) ==
  {i \in DOMAIN s :
     \/ s[i] = Garbled
     \/ i = 1 /\ s[i].prev \notin {Genesis, RotatedFrom(k - 1)}
     \/ i > 1 /\ s[i - 1] # Garbled /\ s[i].prev # s[i - 1].id}

\* All places in so many files.
Dam(c) == UNION {{<<f, i>> : i \in Breaks(ReadOf(c[f]), f)} : f \in DOMAIN c}

\* What begins as another breaks where the other does, and at its other lines at most.
LEMMA SameBreaks ==
  ASSUME NEW s \in Seq(EntrySet), NEW t \in Seq(EntrySet), NEW k, NEW n \in Nat, n <= Len(t),
         \A i \in 1..n : i <= Len(s) => s[i] = t[i]
  PROVE  Breaks(s, k) \subseteq Breaks(t, k) \cup ((n + 1)..Len(s))
<1>1. DOMAIN s = 1..Len(s) /\ DOMAIN t = 1..Len(t) /\ Len(s) \in Nat /\ Len(t) \in Nat
  BY LenProperties
<1>2. ASSUME NEW i \in Breaks(s, k), i <= n PROVE i \in Breaks(t, k)
  <2>1. i \in 1..Len(s) /\ i \in 1..n /\ i \in DOMAIN t /\ s[i] = t[i]
    BY <1>1, <1>2 DEF Breaks
  <2>2. i > 1 => i - 1 \in 1..n /\ i - 1 <= Len(s)
    BY <1>1, <2>1
  <2>3. i > 1 => s[i - 1] = t[i - 1]
    BY <2>2
  <2> QED BY <1>2, <2>1, <2>3 DEF Breaks
<1>3. Breaks(s, k) \subseteq 1..Len(s)
  BY <1>1 DEF Breaks
<1> QED BY <1>1, <1>2, <1>3

\* What is read of a file: its lines, and what follows them.
LEMMA ReadOfIs ==
  ASSUME NEW f \in FileSet
  PROVE  /\ f.lines \in Seq(EntrySet) /\ ReadOf(f) \in Seq(EntrySet) /\ Len(f.lines) \in Nat
         /\ \A i \in 1..Len(f.lines) : ReadOf(f)[i] = f.lines[i]
         /\ f.tail = NoLine => ReadOf(f) = f.lines
         /\ f.tail # NoLine => /\ Len(ReadOf(f)) = Len(f.lines) + 1
                               /\ ReadOf(f)[Len(f.lines) + 1] = IF f.whole THEN f.tail ELSE Garbled
<1>1. f.lines \in Seq(EntrySet) /\ f.tail \in EntrySet
  BY DEF FileSet
<1>2. CASE f.tail = NoLine
  BY <1>1, <1>2, ConcatEmptySeq, LenProperties DEF ReadOf
<1>3. CASE f.tail # NoLine
  <2> DEFINE e == IF f.whole THEN f.tail ELSE Garbled
  <2>1. e \in EntrySet /\ ReadOf(f) = f.lines \o <<e>>
    BY <1>1, <1>3, SpecialEntries DEF ReadOf
  <2> HIDE DEF e
  <2>2. <<e>> \in Seq(EntrySet) /\ Len(<<e>>) = 1 /\ <<e>>[1] = e
    BY <2>1
  <2>3. /\ f.lines \o <<e>> \in Seq(EntrySet) /\ Len(f.lines \o <<e>>) = Len(f.lines) + 1
        /\ \A i \in 1..Len(f.lines) : (f.lines \o <<e>>)[i] = f.lines[i]
        /\ (f.lines \o <<e>>)[Len(f.lines) + 1] = e
    BY <1>1, <2>2, Joined
  <2> QED BY <1>1, <1>3, <2>1, <2>3, LenProperties DEF e
<1> QED BY <1>2, <1>3

\* x is what becomes of a file f that lines b are written to: the first is lost if an
\* unfinished one of somebody else is in its way.
IsExtended(x, f, b, rest) ==
  /\ x \in FileSet /\ x = [lines |-> x.lines, tail |-> NoLine, whole |-> FALSE]
  /\ x.tail = NoLine /\ ReadOf(x) = x.lines /\ x.lines \in Seq(EntrySet)
  /\ Len(x.lines) = Len(f.lines) + Len(b) /\ Len(f.lines) \in Nat /\ Len(b) \in Nat /\ Len(b) > 0
  /\ \A i \in 1..Len(f.lines) : x.lines[i] = f.lines[i]
  /\ x.lines[Len(f.lines) + 1] = IF Begins(f, b[1], rest) THEN b[1] ELSE Garbled
  /\ \A i \in 2..Len(b) : x.lines[Len(f.lines) + i] = b[i]

\* Extended gives it.
LEMMA ExtendedIs ==
  ASSUME NEW f \in FileSet, NEW b \in Seq(EntrySet), b # <<>>, NEW rest \in BOOLEAN
  PROVE  IsExtended(Extended(f, b, rest), f, b, rest)
<1> DEFINE more == IF Begins(f, Head(b), rest) THEN b ELSE <<Garbled>> \o Tail(b)
<1>1. f.lines \in Seq(EntrySet) /\ Len(f.lines) \in Nat /\ Len(b) \in Nat /\ Len(b) > 0 /\ Head(b) = b[1]
  BY NotEmpty DEF FileSet
<1>2. Extended(f, b, rest) = [lines |-> f.lines \o more, tail |-> NoLine, whole |-> FALSE]
  BY DEF Extended
<1>3. /\ more \in Seq(EntrySet) /\ Len(more) = Len(b) /\ more[1] = IF Begins(f, b[1], rest) THEN b[1] ELSE Garbled
      /\ \A i \in 2..Len(b) : more[i] = b[i]
  <2>1. CASE Begins(f, Head(b), rest)
    BY <1>1, <2>1
  <2>2. CASE ~Begins(f, Head(b), rest)
    <3>1. Tail(b) \in Seq(EntrySet) /\ Len(Tail(b)) = Len(b) - 1 /\ \A i \in 1..(Len(b) - 1) : Tail(b)[i] = b[i + 1]
      BY HeadTailProperties
    <3>2. <<Garbled>> \in Seq(EntrySet) /\ Len(<<Garbled>>) = 1 /\ <<Garbled>>[1] = Garbled
      BY SpecialEntries
    <3>3. /\ <<Garbled>> \o Tail(b) \in Seq(EntrySet) /\ Len(<<Garbled>> \o Tail(b)) = 1 + Len(Tail(b))
          /\ (<<Garbled>> \o Tail(b))[1] = Garbled
          /\ \A i \in 1..Len(Tail(b)) : (<<Garbled>> \o Tail(b))[1 + i] = Tail(b)[i]
      BY <3>1, <3>2, Joined
    <3>4. ASSUME NEW i \in 2..Len(b) PROVE (<<Garbled>> \o Tail(b))[i] = b[i]
      <4>1. i - 1 \in 1..Len(Tail(b)) /\ 1 + (i - 1) = i /\ (i - 1) + 1 = i /\ i - 1 \in 1..(Len(b) - 1)
        BY <1>1, <3>1
      <4> QED BY <3>1, <3>3, <4>1
    <3> QED BY <1>1, <2>2, <3>1, <3>3, <3>4
  <2> QED BY <2>1, <2>2
<1> HIDE DEF more
<1>4. /\ f.lines \o more \in Seq(EntrySet) /\ Len(f.lines \o more) = Len(f.lines) + Len(b)
      /\ \A i \in 1..Len(f.lines) : (f.lines \o more)[i] = f.lines[i]
      /\ \A i \in 1..Len(b) : (f.lines \o more)[Len(f.lines) + i] = more[i]
  <2>1. more \in Seq(EntrySet) /\ Len(more) = Len(b) /\ f.lines \in Seq(EntrySet)
    BY <1>1, <1>3
  <2>2. /\ f.lines \o more \in Seq(EntrySet) /\ Len(f.lines \o more) = Len(f.lines) + Len(more)
        /\ \A i \in 1..Len(f.lines) : (f.lines \o more)[i] = f.lines[i]
        /\ \A i \in 1..Len(more) : (f.lines \o more)[Len(f.lines) + i] = more[i]
    BY <2>1, Joined
  <2> QED BY <2>1, <2>2
<1>5. 1 \in 1..Len(b) /\ \A i \in 2..Len(b) : i \in 1..Len(b)
  BY <1>1
<1> DEFINE x == Extended(f, b, rest)
<1>6. x \in FileSet /\ x.lines = f.lines \o more /\ x.tail = NoLine /\ x = [lines |-> x.lines, tail |-> NoLine, whole |-> FALSE]
  BY <1>2, <1>4, SpecialEntries DEF FileSet
<1> HIDE DEF x
<1>7. ReadOf(x) = x.lines
  BY <1>6, ReadOfIs
<1>8. x.lines[Len(f.lines) + 1] = (IF Begins(f, b[1], rest) THEN b[1] ELSE Garbled) /\ \A i \in 2..Len(b) : x.lines[Len(f.lines) + i] = b[i]
  BY <1>3, <1>4, <1>5, <1>6
<1> QED BY <1>1, <1>4, <1>6, <1>7, <1>8 DEF x, IsExtended

\* What a failed write leaves in the file: the beginning of what would have been written, but
\* that its last line may not parse; if that is new, it has no newline and will be finished.
\* Finishing it later gives the same as if nothing had failed.
LEMMA FailedRead ==
  ASSUME NEW f \in FileSet, NEW b \in Seq(EntrySet), b # <<>>, NEW rest \in BOOLEAN, NEW a \in Failures(f, b, rest),
         \A id \in BufferIds(b) : id > 0
  PROVE  LET t == ReadOf(Extended(f, b, rest))
             s == ReadOf(a.file)
         IN /\ Extended(a.file, a.buffer, a.rest) = Extended(f, b, rest)
            /\ s = <<>> => ReadOf(f) = <<>>
            /\ Len(s) <= Len(t)
            /\ \/ \A i \in 1..Len(s) : s[i] = t[i]
               \/ /\ s # <<>> /\ \A i \in 1..(Len(s) - 1) : s[i] = t[i]
                  /\ \/ t[Len(s)] = Garbled
                     \/ s[Len(s)] = Garbled /\ ~(a.file.tail # NoLine /\ a.file.whole)
<1>1. PICK n \in 0..(Len(b) - 1), part \in {"none", "part", "whole"} :
        a = LET g == Extended(f, SubSeq(b, 1, n), rest)
            IN [file |-> IF part = "none" THEN g ELSE Partly(g, b[n + 1], rest /\ n = 0, part = "whole"),
                buffer |-> SubSeq(b, n + 1, Len(b)),
                rest |-> part # "none" \/ (rest /\ n = 0)]
  BY DEF Failures
<1> DEFINE d == SubSeq(b, 1, n)
           g == Extended(f, d, rest)
           c == SubSeq(b, n + 1, Len(b))
           x == Extended(f, b, rest)
           m == Len(f.lines)
<1>2. n \in Nat /\ n < Len(b) /\ Len(b) \in Nat /\ n + 1 \in 1..Len(b) /\ 1 \in 1..Len(b)
  BY LenProperties
<1>3. /\ c \in Seq(EntrySet) /\ Len(c) = Len(b) - n /\ (\A i \in 1..(Len(b) - n) : c[i] = b[n + i]) /\ c # <<>>
      /\ c[1] = b[n + 1] /\ (n = 0 => c = b)
  <2>1. c \in Seq(EntrySet) /\ Len(c) = Len(b) - n /\ (\A i \in 1..(Len(b) - n) : c[i] = b[n + i])
    BY <1>2
  <2>2. n = 0 => c = b
    BY <1>2, <2>1, SeqEqual
  <2>3. 1 \in 1..(Len(b) - n) /\ Len(c) > 0
    BY <1>2, <2>1
  <2> QED BY <2>1, <2>2, <2>3, NotEmpty
<1>4. d \in Seq(EntrySet) /\ Len(d) = n /\ (\A i \in 1..n : d[i] = b[i]) /\ (n = 0 => d = <<>>) /\ (n > 0 => d # <<>>)
  <2>1. d \in Seq(EntrySet) /\ Len(d) = n /\ (\A i \in 1..n : d[i] = b[i])
    BY <1>2
  <2> QED BY <1>2, <2>1, NotEmpty
<1>5. \A i \in 1..Len(b) : b[i] \in EntrySet /\ b[i].id > 0 /\ b[i] # Garbled /\ b[i] # NoLine
  <2> SUFFICES ASSUME NEW i \in 1..Len(b) PROVE b[i] \in EntrySet /\ b[i].id > 0 /\ b[i] # Garbled /\ b[i] # NoLine
    OBVIOUS
  <2>1. b[i] \in EntrySet /\ b[i].id > 0
    BY LenProperties, ElementOfSeq DEF BufferIds
  <2> QED BY <2>1, SpecialEntries
<1> HIDE DEF c, d
<1>6. /\ a.file = IF part = "none" THEN g ELSE Partly(g, b[n + 1], rest /\ n = 0, part = "whole")
      /\ a.buffer = c /\ a.rest = (part # "none" \/ (rest /\ n = 0)) /\ a.rest \in BOOLEAN
  BY <1>1 DEF c, d
<1>7. /\ x \in FileSet /\ x = [lines |-> x.lines, tail |-> NoLine, whole |-> FALSE] /\ ReadOf(x) = x.lines
      /\ x.lines \in Seq(EntrySet) /\ Len(x.lines) = m + Len(b) /\ m \in Nat
      /\ \A i \in 1..m : x.lines[i] = f.lines[i]
      /\ x.lines[m + 1] = IF Begins(f, b[1], rest) THEN b[1] ELSE Garbled
      /\ \A i \in 2..Len(b) : x.lines[m + i] = b[i]
  <2>1. IsExtended(x, f, b, rest)
    BY ExtendedIs
  <2> HIDE DEF x
  <2> QED BY <2>1 DEF IsExtended
<1>a. m \in Nat
  BY <1>7
<1> HIDE DEF x, m
\* What is written of the lines before: the first n of what should be.
<1>8. /\ g \in FileSet /\ Len(g.lines) = m + n
      /\ \A i \in 1..(m + n) : g.lines[i] = x.lines[i]
      /\ n > 0 => g.tail = NoLine /\ ~g.whole
      /\ n = 0 => g = f
  <2>1. CASE n = 0
    BY <1>4, <1>7, <2>1 DEF Extended, m
  <2>2. CASE n > 0
    <3>1. /\ g \in FileSet /\ g.tail = NoLine /\ g = [lines |-> g.lines, tail |-> NoLine, whole |-> FALSE]
          /\ Len(g.lines) = m + n
          /\ \A i \in 1..m : g.lines[i] = f.lines[i]
          /\ g.lines[m + 1] = IF Begins(f, d[1], rest) THEN d[1] ELSE Garbled
          /\ \A i \in 2..n : g.lines[m + i] = d[i]
      <4>1. IsExtended(g, f, d, rest) /\ Len(d) = n
        BY <1>4, <2>2, ExtendedIs
      <4> HIDE DEF g
      <4> QED BY <4>1 DEF IsExtended, m
    <3>2. d[1] = b[1] /\ \A i \in 2..n : d[i] = b[i] /\ i \in 2..Len(b)
      BY <1>2, <1>4, <2>2
    <3>3. ASSUME NEW i \in 1..(m + n) PROVE g.lines[i] = x.lines[i]
      <4>1. i \in 1..m \/ i = m + 1 \/ \E j \in 2..n : i = m + j
        <5>0. n \in Nat /\ m \in Nat
          BY <1>2, <1>a
        <5>1. CASE i > m + 1
          <6>1. i - m \in 2..n /\ i = m + (i - m)
            BY <5>0, <5>1
          <6> QED BY <6>1
        <5> QED BY <5>0, <5>1
      <4> QED BY <1>7, <3>1, <3>2, <4>1
    <3>4. ~g.whole
      BY <3>1
    <3> QED BY <2>2, <3>1, <3>3, <3>4
  <2> QED BY <1>2, <2>1, <2>2
\* Where the next line begins, and whether it is the line that was begun before.
<1>9. Begins(g, b[n + 1], rest /\ n = 0) <=> (n > 0 \/ Begins(f, b[1], rest))
  BY <1>2, <1>8 DEF Begins
<1>10. x.lines[m + n + 1] = IF Begins(g, b[n + 1], rest /\ n = 0) THEN b[n + 1] ELSE Garbled
  <2>1. n > 0 => n + 1 \in 2..Len(b)
    BY <1>2
  <2>2. n > 0 => x.lines[m + (n + 1)] = b[n + 1]
    BY <1>7, <2>1
  <2>3. m + (n + 1) = m + n + 1
    BY <1>2, <1>a
  <2> QED BY <1>2, <1>7, <1>9, <2>2, <2>3
<1> HIDE DEF g
\* What is finished later.
<1>11. /\ a.file \in FileSet /\ a.file.lines = g.lines
       /\ Begins(a.file, b[n + 1], a.rest) <=> Begins(g, b[n + 1], rest /\ n = 0)
       /\ part # "none" => /\ a.file.tail = IF Begins(g, b[n + 1], rest /\ n = 0) THEN b[n + 1] ELSE Garbled
                           /\ a.file.whole => Begins(g, b[n + 1], rest /\ n = 0)
       /\ part = "none" => a.file = g
  <2>1. b[n + 1] \in EntrySet /\ b[n + 1] # Garbled /\ b[n + 1] # NoLine
    BY <1>2, <1>5
  <2>2. CASE part = "none"
    BY <1>6, <1>8, <2>2
  <2>3. CASE part # "none"
    <3>1. a.file = Partly(g, b[n + 1], rest /\ n = 0, part = "whole") /\ a.rest = TRUE
      BY <1>6, <2>3
    <3>2. a.file.lines = g.lines /\ a.file.tail = (IF Begins(g, b[n + 1], rest /\ n = 0) THEN b[n + 1] ELSE Garbled)
          /\ (a.file.whole => Begins(g, b[n + 1], rest /\ n = 0)) /\ a.file \in FileSet
      BY <1>8, <2>1, <3>1, SpecialEntries DEF Partly, FileSet
    <3> QED BY <2>1, <2>3, <3>1, <3>2 DEF Begins
  <2> QED BY <1>1, <2>2, <2>3
<1>12. Extended(a.file, a.buffer, a.rest) = x
  <2> DEFINE y == Extended(a.file, a.buffer, a.rest)
  <2>1. /\ y = [lines |-> y.lines, tail |-> NoLine, whole |-> FALSE] /\ y.lines \in Seq(EntrySet)
        /\ Len(y.lines) = m + n + (Len(b) - n)
        /\ \A i \in 1..(m + n) : y.lines[i] = g.lines[i]
        /\ y.lines[m + n + 1] = IF Begins(a.file, c[1], a.rest) THEN c[1] ELSE Garbled
        /\ \A i \in 2..(Len(b) - n) : y.lines[m + n + i] = c[i]
    <3>1. IsExtended(y, a.file, c, a.rest)
      BY <1>3, <1>6, <1>11, ExtendedIs
    <3>2. Len(a.file.lines) = m + n /\ Len(c) = Len(b) - n /\ a.file.lines = g.lines
      BY <1>3, <1>8, <1>11
    <3> HIDE DEF y
    <3> QED BY <3>1, <3>2 DEF IsExtended
  <2> HIDE DEF y
  <2>2. ASSUME NEW i \in 1..(m + Len(b)) PROVE y.lines[i] = x.lines[i]
    <3>1. CASE i \in 1..(m + n)
      BY <1>8, <2>1, <3>1
    <3>2. CASE i = m + n + 1
      BY <1>3, <1>10, <1>11, <2>1, <3>2
    <3>3. CASE i > m + n + 1
      <4>1. /\ i - m - n \in 2..(Len(b) - n) /\ i - m \in 2..Len(b) /\ m + n + (i - m - n) = i /\ m + (i - m) = i
            /\ n + (i - m - n) = i - m /\ i - m - n \in 1..(Len(b) - n)
        <5>1. n \in Nat /\ m \in Nat /\ Len(b) \in Nat /\ n < Len(b)
          BY <1>2, <1>a
        <5> QED BY <3>3, <5>1
      <4>2. y.lines[i] = c[i - m - n] /\ c[i - m - n] = b[i - m] /\ x.lines[i] = b[i - m]
        BY <1>3, <1>7, <2>1, <4>1
      <4> QED BY <4>2
    <3> QED BY <1>2, <1>a, <3>1, <3>2, <3>3
  <2>3. m + n + (Len(b) - n) = m + Len(b)
    BY <1>2, <1>a
  <2>4. y.lines = x.lines
    <3>1. x.lines \in Seq(EntrySet) /\ Len(x.lines) = m + Len(b) /\ Len(y.lines) = m + Len(b)
      BY <1>7, <2>1, <2>3
    <3> HIDE DEF y
    <3> QED BY <2>1, <2>2, <3>1, SeqEqual
  <2> QED BY <1>7, <2>1, <2>4 DEF y
<1> DEFINE s == ReadOf(a.file)
<1>13. /\ s \in Seq(EntrySet) /\ \A i \in 1..(m + n) : s[i] = g.lines[i]
       /\ a.file.tail = NoLine => Len(s) = m + n
       /\ a.file.tail # NoLine => Len(s) = m + n + 1 /\ s[m + n + 1] = IF a.file.whole THEN a.file.tail ELSE Garbled
  <2>1. a.file \in FileSet /\ Len(a.file.lines) = m + n /\ a.file.lines = g.lines
    BY <1>8, <1>11
  <2> QED BY <2>1, ReadOfIs
<1>14. s = <<>> => ReadOf(f) = <<>>
  <2> SUFFICES ASSUME s = <<>> PROVE ReadOf(f) = <<>>
    OBVIOUS
  <2>1. Len(s) = 0 /\ m + n = 0 /\ a.file.tail = NoLine
    BY <1>2, <1>7, <1>13
  <2>2. n = 0 /\ m = 0 /\ g = f
    BY <1>2, <1>7, <1>8, <2>1
  <2>3. part = "none"
    BY <1>2, <1>5, <1>11, <2>1, SpecialEntries
  <2> QED BY <1>11, <2>2, <2>3
<1>15. /\ Len(s) <= Len(x.lines)
       /\ \/ \A i \in 1..Len(s) : s[i] = x.lines[i]
          \/ /\ s # <<>> /\ \A i \in 1..(Len(s) - 1) : s[i] = x.lines[i]
             /\ \/ x.lines[Len(s)] = Garbled
                \/ s[Len(s)] = Garbled /\ ~(a.file.tail # NoLine /\ a.file.whole)
  <2>1. \A i \in 1..(m + n) : s[i] = x.lines[i]
    BY <1>8, <1>13
  <2>2. CASE a.file.tail = NoLine
    <3>1. Len(s) = m + n /\ Len(x.lines) = m + Len(b) /\ n \in Nat /\ m \in Nat /\ Len(b) \in Nat /\ n < Len(b)
      BY <1>2, <1>a, <1>7, <1>13, <2>2
    <3>2. Len(s) <= Len(x.lines)
      BY <3>1
    <3> HIDE DEF s
    <3> QED BY <2>1, <3>1, <3>2
  <2>3. CASE a.file.tail # NoLine
    <3>1. Len(s) = m + n + 1 /\ Len(s) - 1 = m + n /\ s # <<>> /\ Len(s) <= Len(x.lines)
      <4>1. Len(s) = m + n + 1 /\ Len(x.lines) = m + Len(b) /\ n \in Nat /\ m \in Nat /\ Len(b) \in Nat /\ n < Len(b)
        BY <1>2, <1>a, <1>7, <1>13, <2>3
      <4>2. Len(<<>>) = 0
        OBVIOUS
      <4> HIDE DEF s
      <4> QED BY <4>1, <4>2
    <3>2. CASE ~a.file.whole
      BY <1>13, <2>1, <2>3, <3>1, <3>2
    <3>3. CASE ~Begins(g, b[n + 1], rest /\ n = 0)
      BY <1>10, <2>1, <3>1, <3>3
    <3>4. CASE Begins(g, b[n + 1], rest /\ n = 0) /\ a.file.whole
      <4>1. a.file.tail = b[n + 1]
        <5>1. part = "none" => a.file.tail = b[n + 1]
          BY <1>6, <1>11, <2>3, <3>4 DEF Begins
        <5> QED BY <1>11, <3>4, <5>1
      <4>2. s[Len(s)] = x.lines[Len(s)]
        BY <1>10, <1>13, <2>3, <3>1, <3>4, <4>1
      <4>3. \A i \in 1..Len(s) : i \in 1..(m + n) \/ i = Len(s)
        BY <1>2, <1>a, <3>1
      <4> QED BY <2>1, <3>1, <4>2, <4>3
    <3> QED BY <3>2, <3>3, <3>4
  <2> QED BY <2>2, <2>3
<1> QED BY <1>7, <1>12, <1>14, <1>15 DEF x

\* What may be read where a file x is read as s, when one more entry is written: the entry,
\* or a line that does not parse where something unfinished is in the way.
Grown(x, s, t, e) ==
  /\ Len(t) > 0 /\ Len(t) \in Nat /\ Len(s) \in Nat /\ t \in Seq(EntrySet) /\ s \in Seq(EntrySet)
  /\ Len(t) - 1 <= Len(s) /\ \A i \in 1..(Len(t) - 1) : t[i] = s[i]
  /\ t[Len(t)] \in {e, Garbled}
  /\ \/ Len(t) = Len(s) + 1 /\ t[Len(t)] = e
     \/ Len(t) = Len(s) /\ s[Len(t)] = Garbled
     \/ x.tail # NoLine /\ x.whole

\* It is so whatever the file ends in.
LEMMA WrittenRead ==
  ASSUME NEW f \in FileSet, NEW b \in Seq(EntrySet), NEW rest \in BOOLEAN, b = <<>> => rest = FALSE,
         NEW e \in EntrySet
  PROVE  LET x == Extended(f, b, rest)
         IN Grown(x, ReadOf(x), ReadOf(Extended(f, Append(b, e), rest)), e)
<1> DEFINE c == Append(b, e)
           x == Extended(f, b, rest)
           y == Extended(f, c, rest)
           m == Len(f.lines)
<1>1. /\ c \in Seq(EntrySet) /\ Len(c) = Len(b) + 1 /\ Len(b) \in Nat /\ c # <<>>
      /\ \A i \in 1..Len(b) : c[i] = b[i]
      /\ c[Len(b) + 1] = e
  BY LenProperties
<1> HIDE DEF c
<1>2. /\ y.tail = NoLine /\ ReadOf(y) = y.lines /\ y.lines \in Seq(EntrySet) /\ Len(y.lines) = m + Len(c) /\ m \in Nat
      /\ \A i \in 1..m : y.lines[i] = f.lines[i]
      /\ y.lines[m + 1] = IF Begins(f, c[1], rest) THEN c[1] ELSE Garbled
      /\ \A i \in 2..Len(c) : y.lines[m + i] = c[i]
  <2>1. IsExtended(y, f, c, rest)
    BY <1>1, ExtendedIs
  <2> HIDE DEF y
  <2> QED BY <2>1 DEF IsExtended
<1>3. CASE b = <<>>
  <2>1. x = f /\ rest = FALSE /\ Len(c) = 1 /\ c[1] = e
    BY <1>1, <1>3 DEF Extended
  <2> DEFINE s == ReadOf(f)
  <2>2. /\ s \in Seq(EntrySet) /\ \A i \in 1..m : s[i] = f.lines[i]
        /\ f.tail = NoLine => Len(s) = m
        /\ f.tail # NoLine => Len(s) = m + 1 /\ s[m + 1] = IF f.whole THEN f.tail ELSE Garbled
    BY ReadOfIs
  <2> HIDE DEF x, y, s, m
  <2>3. Len(y.lines) = m + 1 /\ y.lines[m + 1] = IF f.tail = NoLine THEN e ELSE Garbled
    BY <1>2, <2>1 DEF Begins
  <2>4. Len(s) \in Nat /\ Len(y.lines) - 1 <= Len(s) /\ \A i \in 1..(Len(y.lines) - 1) : y.lines[i] = s[i]
    BY <1>2, <2>2, <2>3
  <2>5. \/ Len(y.lines) = Len(s) + 1 /\ y.lines[Len(y.lines)] = e
        \/ Len(y.lines) = Len(s) /\ s[Len(y.lines)] = Garbled
        \/ x.tail # NoLine /\ x.whole
    BY <1>2, <2>1, <2>2, <2>3
  <2>6. y.lines[Len(y.lines)] \in {e, Garbled} /\ Len(y.lines) > 0 /\ Len(y.lines) \in Nat
    BY <1>2, <2>3
  <2> QED BY <1>2, <2>1, <2>2, <2>4, <2>5, <2>6 DEF x, y, s, c, Grown
<1>4. CASE b # <<>>
  <2>1. /\ ReadOf(x) = x.lines /\ x.lines \in Seq(EntrySet) /\ Len(x.lines) = m + Len(b) /\ Len(b) > 0
        /\ \A i \in 1..m : x.lines[i] = f.lines[i]
        /\ x.lines[m + 1] = IF Begins(f, b[1], rest) THEN b[1] ELSE Garbled
        /\ \A i \in 2..Len(b) : x.lines[m + i] = b[i]
    <3>1. IsExtended(x, f, b, rest)
      BY <1>4, ExtendedIs
    <3> HIDE DEF x
    <3> QED BY <3>1 DEF IsExtended
  <2> HIDE DEF x, y, m
  <2>2. c[1] = b[1] /\ \A i \in 2..Len(b) : c[i] = b[i] /\ i \in 2..Len(c)
    BY <1>1, <2>1
  <2>3. Len(y.lines) = m + Len(b) + 1 /\ Len(y.lines) - 1 = Len(x.lines) /\ Len(x.lines) \in Nat
    BY <1>1, <1>2, <2>1
  <2>4. y.lines[Len(y.lines)] = e
    <3>1. Len(b) + 1 \in 2..Len(c) /\ m + (Len(b) + 1) = m + Len(b) + 1
      BY <1>1, <1>2, <2>1
    <3> QED BY <1>1, <1>2, <2>3, <3>1
  <2>5. ASSUME NEW i \in 1..(m + Len(b)) PROVE y.lines[i] = x.lines[i]
    <3>1. CASE i \in 1..m
      BY <1>2, <2>1, <3>1
    <3>2. CASE i = m + 1
      BY <1>2, <2>1, <2>2, <3>2
    <3>3. CASE i > m + 1
      <4>1. i - m \in 2..Len(b) /\ m + (i - m) = i
        BY <1>1, <1>2, <3>3
      <4>2. x.lines[m + (i - m)] = b[i - m]
        BY <2>1, <4>1
      <4>3. y.lines[m + (i - m)] = c[i - m] /\ c[i - m] = b[i - m]
        BY <1>2, <2>2, <4>1
      <4> QED BY <4>1, <4>2, <4>3
    <3> QED BY <1>1, <1>2, <3>1, <3>2, <3>3
  <2>6. Len(y.lines) - 1 <= Len(x.lines) /\ \A i \in 1..(Len(y.lines) - 1) : y.lines[i] = x.lines[i]
    BY <2>1, <2>3, <2>5
  <2> QED BY <1>2, <2>1, <2>3, <2>4, <2>6 DEF x, y, c, Grown
<1> QED BY <1>3, <1>4

------------------------------------------------------------------------------
(* What is due: the break that the next entry will make. *)

\* An unfinished line that reads as an entry is spoiled by the next one; an entry that the
\* AuditLog does not know to be the last is not what the next one continues.
Spoils(f) == f.tail # NoLine /\ f.whole
Strays(f, last) ==
  LET s == ReadOf(f) IN s # <<>> /\ s[Len(s)] # Garbled /\ s[Len(s)].id # last
Due(f, r) == Spoils(f) \/ (r.pc # "closed" /\ Strays(f, r.last))

\* At most n places.
Bound(c, n) == IsFiniteSet(Dam(c)) /\ Cardinality(Dam(c)) <= n

\* A bound is still one when it is higher.
LEMMA BoundMore ==
  ASSUME NEW c, NEW n \in Int, NEW m \in Int, n <= m, Bound(c, n)
  PROVE  Bound(c, m)
<1>1. Cardinality(Dam(c)) \in Nat
  BY FS_CardinalityType DEF Bound
<1> QED BY <1>1 DEF Bound

\* One file or another in the k-th place.
LEMMA InPlace ==
  ASSUME NEW c \in Seq(FileSet), NEW k \in DOMAIN c, NEW g \in FileSet
  PROVE  /\ [c EXCEPT ![k] = g] \in Seq(FileSet) /\ [c EXCEPT ![k] = g][k] = g
         /\ DOMAIN [c EXCEPT ![k] = g] = DOMAIN c /\ Len([c EXCEPT ![k] = g]) = Len(c)
         /\ \A f \in DOMAIN c \ {k} : [c EXCEPT ![k] = g][f] = c[f]
         /\ \A h : [[c EXCEPT ![k] = g] EXCEPT ![k] = h] = [c EXCEPT ![k] = h]
         /\ c[k] = g => [c EXCEPT ![k] = g] = c
<1>1. c \in [DOMAIN c -> FileSet] /\ k \in 1..Len(c) /\ DOMAIN c = 1..Len(c)
  BY LenProperties
<1>2. [c EXCEPT ![k] = g] \in Seq(FileSet) /\ Len([c EXCEPT ![k] = g]) = Len(c)
  BY <1>1, ExceptSeq
<1> QED BY <1>1, <1>2

\* A file in place of another breaks the chain where that one does, and in a place j at most.
LEMMA BoundFile ==
  ASSUME NEW c \in Seq(FileSet), NEW k \in DOMAIN c, NEW g \in FileSet, NEW h \in FileSet, NEW n \in Int,
         Bound([c EXCEPT ![k] = g], n)
  PROVE  /\ Breaks(ReadOf(h), k) \subseteq Breaks(ReadOf(g), k) => Bound([c EXCEPT ![k] = h], n)
         /\ \A j : Breaks(ReadOf(h), k) \subseteq Breaks(ReadOf(g), k) \cup {j} => Bound([c EXCEPT ![k] = h], n + 1)
<1> DEFINE d == [c EXCEPT ![k] = g]
           e == [c EXCEPT ![k] = h]
<1>1. /\ d[k] = g /\ e[k] = h /\ DOMAIN d = DOMAIN c /\ DOMAIN e = DOMAIN c
      /\ \A f \in DOMAIN c \ {k} : d[f] = c[f] /\ e[f] = c[f]
  BY InPlace
<1> HIDE DEF d, e
<1>2. ASSUME NEW X, Breaks(ReadOf(h), k) \subseteq Breaks(ReadOf(g), k) \cup X
      PROVE  Dam(e) \subseteq Dam(d) \cup {<<k, i>> : i \in X}
  <2> SUFFICES ASSUME NEW f \in DOMAIN e, NEW i \in Breaks(ReadOf(e[f]), f)
               PROVE  <<f, i>> \in Dam(d) \cup {<<k, j>> : j \in X}
    BY DEF Dam
  <2>1. CASE f = k
    <3>1. i \in Breaks(ReadOf(d[k]), k) \/ i \in X
      BY <1>1, <1>2, <2>1
    <3> QED BY <1>1, <2>1, <3>1 DEF Dam
  <2>2. CASE f # k
    <3>1. f \in DOMAIN d /\ i \in Breaks(ReadOf(d[f]), f)
      BY <1>1, <2>2
    <3> QED BY <3>1 DEF Dam
  <2> QED BY <2>1, <2>2
<1>3. IsFiniteSet(Dam(d)) /\ Cardinality(Dam(d)) <= n /\ Cardinality(Dam(d)) \in Nat
  BY FS_CardinalityType DEF Bound, d
<1>4. ASSUME Breaks(ReadOf(h), k) \subseteq Breaks(ReadOf(g), k) PROVE Bound(e, n)
  <2>1. Dam(e) \subseteq Dam(d) \cup {<<k, i>> : i \in {}}
    BY <1>2, <1>4
  <2>2. Dam(e) \subseteq Dam(d)
    BY <2>1
  <2>3. IsFiniteSet(Dam(e)) /\ Cardinality(Dam(e)) <= Cardinality(Dam(d)) /\ Cardinality(Dam(e)) \in Nat
    BY <1>3, <2>2, FS_Subset, FS_CardinalityType
  <2> QED BY <1>3, <2>3 DEF Bound
<1>5. ASSUME NEW j, Breaks(ReadOf(h), k) \subseteq Breaks(ReadOf(g), k) \cup {j} PROVE Bound(e, n + 1)
  <2>1. Dam(e) \subseteq Dam(d) \cup {<<k, i>> : i \in {j}}
    BY <1>2, <1>5
  <2>2. Dam(e) \subseteq Dam(d) \cup {<<k, j>>}
    BY <2>1
  <2>3. IsFiniteSet(Dam(e)) /\ Cardinality(Dam(e)) <= Cardinality(Dam(d)) + 1 /\ Cardinality(Dam(e)) \in Nat
    BY <1>3, <2>2, OneMore
  <2> QED BY <1>3, <2>3 DEF Bound
<1> QED BY <1>4, <1>5 DEF e

\* A failed write of files e leaves files d with one more broken place at most, and either
\* nothing due or no such place; finishing it later gives e.
Torned(d, k, a, f, e, n) ==
  /\ d \in Seq(FileSet) /\ d[k] = a.file /\ Bound(d, n + 1)
  /\ \A r : Due(a.file, r) => Bound(d, n)
  /\ [d EXCEPT ![k] = Extended(d[k], a.buffer, a.rest)] = e
  /\ ReadOf(a.file) = <<>> => ReadOf(f) = <<>>

\* It is so wherever the write stops.
LEMMA TornBound ==
  ASSUME NEW c \in Seq(FileSet), NEW k \in DOMAIN c, NEW b \in Seq(EntrySet), b # <<>>, NEW rest \in BOOLEAN,
         NEW a \in Failures(c[k], b, rest), \A id \in BufferIds(b) : id > 0, NEW n \in Int,
         Bound([c EXCEPT ![k] = Extended(c[k], b, rest)], n)
  PROVE  Torned([c EXCEPT ![k] = a.file], k, a, c[k], [c EXCEPT ![k] = Extended(c[k], b, rest)], n)
<1> DEFINE f == c[k]
           g == Extended(f, b, rest)
           s == ReadOf(a.file)
           t == ReadOf(g)
           d == [c EXCEPT ![k] = a.file]
<1>1. f \in FileSet /\ a.file \in FileSet /\ g \in FileSet
  <2>1. f \in FileSet
    BY ElementOfSeq, LenProperties
  <2> QED BY <2>1, FailedFile, ExtendedFile
<1>2. /\ Extended(a.file, a.buffer, a.rest) = g
      /\ s = <<>> => ReadOf(f) = <<>>
      /\ Len(s) <= Len(t)
      /\ \/ \A i \in 1..Len(s) : s[i] = t[i]
         \/ /\ s # <<>> /\ \A i \in 1..(Len(s) - 1) : s[i] = t[i]
            /\ \/ t[Len(s)] = Garbled
               \/ s[Len(s)] = Garbled /\ ~Spoils(a.file)
  BY <1>1, FailedRead DEF Spoils
<1>3. /\ d \in Seq(FileSet) /\ d[k] = a.file
      /\ [d EXCEPT ![k] = Extended(d[k], a.buffer, a.rest)] = [c EXCEPT ![k] = g]
  <2>1. d \in Seq(FileSet) /\ d[k] = a.file
    BY <1>1, InPlace
  <2>2. \A h : [d EXCEPT ![k] = h] = [c EXCEPT ![k] = h]
    <3>1. ASSUME NEW h PROVE [d EXCEPT ![k] = h] = [c EXCEPT ![k] = h]
      BY <1>1
    <3> QED BY <3>1
  <2>3. Extended(d[k], a.buffer, a.rest) = g
    BY <1>2, <2>1
  <2> HIDE DEF d, g
  <2> QED BY <2>1, <2>2, <2>3
<1>4. s \in Seq(EntrySet) /\ t \in Seq(EntrySet) /\ Len(s) \in Nat /\ Len(t) \in Nat /\ (s # <<>> => Len(s) > 0)
      /\ DOMAIN t = 1..Len(t)
  BY <1>1, ReadOfIs, NotEmpty
<1>b. Bound([c EXCEPT ![k] = g], n)
  OBVIOUS
<1> HIDE DEF f, g, s, t, d
<1>5. CASE \A i \in 1..Len(s) : s[i] = t[i]
  <2>1. Breaks(s, k) \subseteq Breaks(t, k) \cup ((Len(s) + 1)..Len(s))
    BY <1>2, <1>4, <1>5, SameBreaks
  <2>2. (Len(s) + 1)..Len(s) = {}
    BY <1>4
  <2>3. Bound(d, n)
    BY <1>1, <1>b, <2>1, <2>2, BoundFile DEF s, t, d
  <2>4. Bound(d, n + 1)
    BY <2>3, BoundMore
  <2> QED BY <1>2, <1>3, <2>3, <2>4 DEF f, g, d, s, Torned
<1>6. CASE /\ s # <<>> /\ \A i \in 1..(Len(s) - 1) : s[i] = t[i]
           /\ t[Len(s)] = Garbled \/ (s[Len(s)] = Garbled /\ ~Spoils(a.file))
  <2>1. Breaks(s, k) \subseteq Breaks(t, k) \cup (((Len(s) - 1) + 1)..Len(s))
    <3>1. Len(s) - 1 \in Nat /\ Len(s) - 1 <= Len(t)
      BY <1>2, <1>4, <1>6
    <3> QED BY <1>4, <1>6, <3>1, SameBreaks
  <2>2. ((Len(s) - 1) + 1)..Len(s) = {Len(s)}
    BY <1>4
  <2>3. Bound(d, n + 1)
    BY <1>1, <1>b, <2>1, <2>2, BoundFile DEF s, t, d
  <2>4. CASE t[Len(s)] = Garbled
    <3>1. Len(s) \in Breaks(t, k)
      BY <1>2, <1>4, <1>6, <2>4 DEF Breaks
    <3>2. Breaks(s, k) \subseteq Breaks(t, k)
      BY <2>1, <2>2, <3>1
    <3>3. Bound(d, n)
      BY <1>1, <1>b, <3>2, BoundFile DEF s, t, d
    <3> QED BY <1>2, <1>3, <2>3, <3>3 DEF f, g, d, s, Torned
  <2>5. CASE s[Len(s)] = Garbled /\ ~Spoils(a.file)
    <3>1. \A r : ~Due(a.file, r)
      BY <2>5 DEF Due, Strays, s
    <3> QED BY <1>2, <1>3, <2>3, <3>1 DEF f, g, d, s, Torned
  <2> QED BY <1>6, <2>4, <2>5
<1> QED BY <1>2, <1>5, <1>6

\* An entry that is written breaks the chain if that was due, and then nothing is.
LEMMA WriteBound ==
  ASSUME NEW c \in Seq(FileSet), NEW k \in DOMAIN c, NEW b \in Seq(EntrySet), NEW rest \in BOOLEAN, b = <<>> => rest = FALSE,
         NEW e \in EntrySet, e.id > 0, NEW r, r.pc # "closed", r.last = e.prev, NEW n \in Int,
         ReadOf(c[k]) = <<>> => e.prev \in {Genesis, RotatedFrom(k - 1)},
         Bound([c EXCEPT ![k] = Extended(c[k], b, rest)], IF Due(Extended(c[k], b, rest), r) THEN n - 1 ELSE n)
  PROVE  LET g == Extended(c[k], Append(b, e), rest)
         IN /\ Bound([c EXCEPT ![k] = g], n)
            /\ ReadOf(g) # <<>>
            /\ \A q : q.last = e.id => ~Due(g, q)
<1> DEFINE f == c[k]
           x == Extended(f, b, rest)
           g == Extended(f, Append(b, e), rest)
           s == ReadOf(x)
           t == ReadOf(g)
<1>1. f \in FileSet /\ x \in FileSet /\ g \in FileSet /\ g.tail = NoLine
  <2>1. f \in FileSet
    BY ElementOfSeq, LenProperties
  <2>2. Append(b, e) \in Seq(EntrySet) /\ Append(b, e) # <<>>
    BY AppendProperties
  <2> QED BY <2>1, <2>2, ExtendedFile
<1>2. /\ Len(t) > 0 /\ Len(t) \in Nat /\ Len(s) \in Nat /\ t \in Seq(EntrySet) /\ s \in Seq(EntrySet)
      /\ Len(t) - 1 <= Len(s) /\ \A i \in 1..(Len(t) - 1) : t[i] = s[i]
      /\ t[Len(t)] \in {e, Garbled}
      /\ \/ Len(t) = Len(s) + 1 /\ t[Len(t)] = e
         \/ Len(t) = Len(s) /\ s[Len(t)] = Garbled
         \/ Spoils(x)
  <2>1. Grown(x, s, t, e)
    BY <1>1, WrittenRead
  <2> HIDE DEF x, s, t
  <2> QED BY <2>1 DEF Grown, Spoils
<1>b. Bound([c EXCEPT ![k] = x], IF Due(x, r) THEN n - 1 ELSE n)
  OBVIOUS
<1>3. s = <<>> => e.prev \in {Genesis, RotatedFrom(k - 1)}
  <2> SUFFICES ASSUME s = <<>> PROVE e.prev \in {Genesis, RotatedFrom(k - 1)}
    OBVIOUS
  <2>1. CASE b = <<>>
    BY <2>1 DEF Extended
  <2>2. CASE b # <<>>
    <3>1. ReadOf(x) = x.lines /\ Len(x.lines) = Len(f.lines) + Len(b) /\ Len(f.lines) \in Nat /\ Len(b) \in Nat /\ Len(b) > 0
      BY <1>1, <2>2, ExtendedIs DEF IsExtended
    <3>2. Len(s) > 0 /\ Len(<<>>) = 0
      BY <3>1
    <3> QED BY <3>2
  <2> QED BY <2>1, <2>2
<1>4. DOMAIN s = 1..Len(s) /\ (s # <<>> => Len(s) > 0) /\ t # <<>>
  <2>1. Len(<<>>) = 0
    OBVIOUS
  <2> HIDE DEF s, t
  <2> QED BY <1>2, <2>1, NotEmpty
<1> HIDE DEF f, x, g, s, t
<1>5. Breaks(t, k) \subseteq Breaks(s, k) \cup {Len(t)}
  <2>1. Len(t) - 1 \in Nat /\ ((Len(t) - 1) + 1)..Len(t) = {Len(t)}
    BY <1>2
  <2>2. Breaks(t, k) \subseteq Breaks(s, k) \cup (((Len(t) - 1) + 1)..Len(t))
    BY <1>2, <2>1, SameBreaks
  <2> QED BY <2>1, <2>2
<1>6. ASSUME Due(x, r) PROVE Bound([c EXCEPT ![k] = g], n)
  <2>1. Bound([c EXCEPT ![k] = x], n - 1)
    BY <1>b, <1>6
  <2>2. Bound([c EXCEPT ![k] = g], (n - 1) + 1)
    <3>1. n - 1 \in Int
      OBVIOUS
    <3> QED BY <1>1, <1>5, <2>1, <3>1, BoundFile DEF s, t
  <2>3. (n - 1) + 1 = n
    OBVIOUS
  <2> QED BY <2>2, <2>3
<1>7. ASSUME ~Due(x, r) PROVE Bound([c EXCEPT ![k] = g], n)
  <2>1. Bound([c EXCEPT ![k] = x], n) /\ ~Spoils(x)
    BY <1>b, <1>7 DEF Due
  <2>2. Len(t) \in Breaks(t, k) => Len(t) \in Breaks(s, k)
    <3>1. CASE Len(t) = Len(s) /\ s[Len(t)] = Garbled
      BY <1>2, <1>4, <3>1 DEF Breaks
    <3>2. CASE Len(t) = Len(s) + 1 /\ t[Len(t)] = e
      <4>1. e # Garbled
        BY SpecialEntries
      <4>2. CASE s = <<>>
        <5>1. Len(t) = 1
          BY <3>2, <4>2
        <5> QED BY <1>3, <3>2, <4>1, <4>2, <5>1 DEF Breaks
      <4>3. CASE s # <<>>
        <5>1. Len(t) - 1 = Len(s) /\ Len(t) > 1 /\ Len(s) \in 1..(Len(t) - 1) /\ t[Len(s)] = s[Len(s)]
          <6>1. Len(t) = Len(s) + 1 /\ Len(s) > 0 /\ Len(s) \in Nat
            BY <1>2, <1>4, <3>2, <4>3
          <6>2. Len(t) - 1 = Len(s) /\ Len(t) > 1 /\ Len(s) \in 1..(Len(t) - 1)
            BY <6>1
          <6> QED BY <1>2, <6>2
        <5>2. s[Len(s)] = Garbled \/ s[Len(s)].id = e.prev
          BY <1>7, <4>3 DEF Due, Strays, s
        <5> QED BY <3>2, <4>1, <5>1, <5>2 DEF Breaks
      <4> QED BY <4>2, <4>3
    <3> QED BY <1>2, <2>1, <3>1, <3>2
  <2>3. Breaks(t, k) \subseteq Breaks(s, k)
    BY <1>5, <2>2
  <2> QED BY <1>1, <2>1, <2>3, BoundFile DEF s, t
<1>8. \A q : q.last = e.id => ~Due(g, q)
  BY <1>1, <1>2 DEF Due, Spoils, Strays, t
<1>9. ReadOf(g) # <<>>
  BY <1>4 DEF t
<1> QED BY <1>6, <1>7, <1>8, <1>9 DEF f, g

------------------------------------------------------------------------------
(* One AuditLog at a time. *)

\* The files when an AuditLog has written what is in its buffer.
After(r, c) == IF r.buffer = <<>> THEN c ELSE [c EXCEPT ![r.file] = Extended(c[r.file], r.buffer, r.rest)]

\* What an AuditLog knows when it is the only one, with n faults so far: it writes to the
\* file that has the name, it continues the rotated file where it begins a new one, and the
\* chain is broken in n places at most, the one that is due counted, whether the buffer is
\* written or not.
Sound(r, c, k, n) ==
  /\ r.file \in {0, k}
  /\ r.pc # "closed" => /\ k = 0 => r.last \in {Genesis, RotatedFrom(Len(c))}
                        /\ k # 0 /\ ReadOf(c[k]) = <<>> => r.last \in {Genesis, RotatedFrom(k - 1)}
  /\ Bound(c, n)
  /\ Bound(After(r, c), IF k # 0 /\ Due(After(r, c)[k], r) THEN n - 1 ELSE n)

\* The files are left, and what is in memory but for the entry.
LEMMA SoundQuiet ==
  ASSUME NEW r, NEW q, NEW c, NEW k, NEW n \in Int, NEW m \in Int, n <= m, Sound(r, c, k, n),
         q.file \in {0, k}, q.pc # "closed" => r.pc # "closed" /\ q.last = r.last,
         q.buffer = r.buffer, q.buffer # <<>> => q.file = r.file /\ q.rest = r.rest
  PROVE  Sound(q, c, k, m)
<1>1. After(q, c) = After(r, c)
  BY DEF After
<1>2. Due(After(q, c)[k], q) => Due(After(r, c)[k], r)
  BY <1>1 DEF Due
<1>3. Bound(c, m)
  BY BoundMore DEF Sound
<1>4. Bound(After(q, c), IF k # 0 /\ Due(After(q, c)[k], q) THEN m - 1 ELSE m)
  <2>1. CASE k # 0 /\ Due(After(q, c)[k], q)
    <3>1. Bound(After(q, c), n - 1) /\ n - 1 \in Int /\ m - 1 \in Int /\ n - 1 <= m - 1
      BY <1>1, <1>2, <2>1 DEF Sound
    <3> QED BY <2>1, <3>1, BoundMore
  <2>2. CASE ~(k # 0 /\ Due(After(q, c)[k], q))
    <3>1. Bound(After(q, c), n - 1) \/ Bound(After(q, c), n)
      BY <1>1 DEF Sound
    <3>2. n - 1 \in Int /\ n - 1 <= m
      OBVIOUS
    <3> QED BY <2>2, <3>1, <3>2, BoundMore
  <2> QED BY <2>1, <2>2
<1> QED BY <1>3, <1>4 DEF Sound

\* A process is killed: a whole line without its newline is the most that is due then.
LEMMA SoundClosed ==
  ASSUME NEW c, NEW k, NEW n \in Int, Bound(c, n)
  PROVE  Sound(Closed, c, k, n + 1)
<1>1. Closed.pc = "closed" /\ Closed.file = 0 /\ After(Closed, c) = c
  BY ClosedFits DEF After
<1>2. n + 1 \in Int /\ n <= n + 1 /\ (n + 1) - 1 = n
  OBVIOUS
<1>3. Bound(c, n + 1)
  BY <1>2, BoundMore
<1> QED BY <1>1, <1>2, <1>3 DEF Sound

\* Lines are written.
LEMMA SoundWritten ==
  ASSUME NEW q, NEW c \in Seq(FileSet), NEW k \in DOMAIN c, NEW b \in Seq(EntrySet), b # <<>>, NEW rest \in BOOLEAN, NEW n \in Int,
         q.file \in {0, k}, q.buffer = <<>>,
         Bound([c EXCEPT ![k] = Extended(c[k], b, rest)], IF Due(Extended(c[k], b, rest), q) THEN n - 1 ELSE n)
  PROVE  Sound(q, [c EXCEPT ![k] = Extended(c[k], b, rest)], k, n)
<1> DEFINE g == Extended(c[k], b, rest)
           d == [c EXCEPT ![k] = g]
<1>1. g \in FileSet /\ ReadOf(g) # <<>>
  <2>1. c[k] \in FileSet
    BY ElementOfSeq, LenProperties
  <2>2. /\ g \in FileSet /\ ReadOf(g) = g.lines /\ Len(g.lines) = Len(c[k].lines) + Len(b)
        /\ Len(c[k].lines) \in Nat /\ Len(b) \in Nat /\ Len(b) > 0
    BY <2>1, ExtendedIs DEF IsExtended
  <2>3. Len(<<>>) = 0
    OBVIOUS
  <2> HIDE DEF g
  <2>4. Len(ReadOf(g)) > 0
    BY <2>2
  <2> QED BY <2>2, <2>3, <2>4
<1>2. d[k] = g /\ k # 0
  <2>1. k # 0
    BY LenProperties
  <2> QED BY <1>1, <2>1, InPlace
<1>3. Bound(d, IF Due(g, q) THEN n - 1 ELSE n)
  OBVIOUS
<1> HIDE DEF g, d
<1>4. Bound(d, n)
  <2>1. n - 1 \in Int /\ n - 1 <= n
    OBVIOUS
  <2> QED BY <1>3, <2>1, BoundMore
<1>5. After(q, d) = d
  BY DEF After
<1>6. Sound(q, d, k, n)
  BY <1>1, <1>2, <1>3, <1>4, <1>5 DEF Sound
<1> QED BY <1>6 DEF d, g

\* A write fails; the AuditLog keeps what is left of the buffer, or drops it.
LEMMA SoundTorn ==
  ASSUME NEW q, NEW c \in Seq(FileSet), NEW k \in DOMAIN c, NEW b \in Seq(EntrySet), b # <<>>, NEW rest \in BOOLEAN, NEW n \in Int,
         \A id \in BufferIds(b) : id > 0,
         NEW a \in Failures(c[k], b, rest), Bound([c EXCEPT ![k] = Extended(c[k], b, rest)], n),
         q.file \in {0, k}, q.buffer = <<>> \/ (q.buffer = a.buffer /\ q.rest = a.rest /\ q.file = k),
         q.pc # "closed" /\ ReadOf(c[k]) = <<>> => q.last \in {Genesis, RotatedFrom(k - 1)}
  PROVE  Sound(q, [c EXCEPT ![k] = a.file], k, n + 1)
<1> DEFINE d == [c EXCEPT ![k] = a.file]
           e == [c EXCEPT ![k] = Extended(c[k], b, rest)]
<1>1. /\ d \in Seq(FileSet) /\ d[k] = a.file /\ Bound(d, n + 1)
      /\ \A r : Due(a.file, r) => Bound(d, n)
      /\ [d EXCEPT ![k] = Extended(d[k], a.buffer, a.rest)] = e
      /\ ReadOf(a.file) = <<>> => ReadOf(c[k]) = <<>>
  <2>1. Torned(d, k, a, c[k], e, n)
    BY TornBound
  <2> HIDE DEF d, e
  <2> QED BY <2>1 DEF Torned
<1>2. k # 0
  BY LenProperties
<1>3. Bound(e, n)
  OBVIOUS
<1> HIDE DEF d, e
<1>4. n \in Int /\ n + 1 \in Int /\ n <= n + 1 /\ (n + 1) - 1 = n
  OBVIOUS
<1>5. After(q, d) \in {d, e} /\ (q.buffer = <<>> => After(q, d) = d) /\ (q.buffer # <<>> => After(q, d) = e)
  BY <1>1 DEF After
<1>6. Bound(After(q, d), IF k # 0 /\ Due(After(q, d)[k], q) THEN (n + 1) - 1 ELSE n + 1)
  <2>1. CASE q.buffer = <<>>
    BY <1>1, <1>2, <1>4, <1>5, <2>1
  <2>2. CASE q.buffer # <<>>
    BY <1>3, <1>4, <1>5, <2>2, BoundMore
  <2> QED BY <2>1, <2>2
<1>7. Sound(q, d, k, n + 1)
  BY <1>1, <1>2, <1>6 DEF Sound
<1> QED BY <1>7 DEF d

------------------------------------------------------------------------------
(* What a step does to it. *)

\* A writer is dropped.
LEMMA SoundDropped ==
  ASSUME Types, NEW l \in Logs, Drop(l), Sound(log[l], files, named, faults), NEW q, q.file \in {0, named}, q.buffer = <<>>,
         q.pc # "closed" => log[l].pc # "closed" /\ q.last = log[l].last
  PROVE  Sound(q, files', named, faults')
<1>1. /\ files \in Seq(FileSet) /\ faults \in Int /\ Fits(log[l], Len(files), begun) /\ log[l].buffer \in Seq(EntrySet)
      /\ log[l].rest \in BOOLEAN
  BY DEF Types, Shared, LogSet
<1>2. CASE log[l].buffer = <<>>
  <2>1. files' = files /\ faults' = faults
    BY <1>2 DEF Drop
  <2>2. faults <= faults /\ faults \in Int
    BY <1>1
  <2>3. Sound(q, files, named, faults)
    BY <1>2, <2>2, SoundQuiet
  <2> QED BY <2>1, <2>3
<1>3. CASE log[l].buffer # <<>>
  <2> DEFINE b == log[l].buffer
             rest == log[l].rest
             n == faults
  <2>1. log[l].file = named /\ named \in DOMAIN files
    BY <1>1, <1>3, Dropped DEF Fits, Sound
  <2>2. Bound([files EXCEPT ![named] = Extended(files[named], b, rest)], IF Due(Extended(files[named], b, rest), log[l]) THEN n - 1 ELSE n)
    <3>1. After(log[l], files) = [files EXCEPT ![named] = Extended(files[named], b, rest)]
      BY <1>3, <2>1 DEF After
    <3>2. files[named] \in FileSet
      BY <1>1, <2>1, ElementOfSeq, LenProperties
    <3>3. Extended(files[named], b, rest) \in FileSet
      BY <1>1, <3>2, ExtendedFile
    <3>4. named # 0 /\ After(log[l], files)[named] = Extended(files[named], b, rest)
      BY <1>1, <2>1, <3>1, <3>3, InPlace, LenProperties
    <3> QED BY <3>1, <3>4 DEF Sound
  <2>3. n - 1 \in Int /\ n - 1 <= n /\ n \in Int /\ n <= n
    BY <1>1
  <2>4. CASE files' = [files EXCEPT ![named] = Extended(files[named], b, rest)] /\ faults' = faults
    <3>1. Due(Extended(files[named], b, rest), q) => Due(Extended(files[named], b, rest), log[l])
      BY DEF Due
    <3>2. Bound([files EXCEPT ![named] = Extended(files[named], b, rest)], IF Due(Extended(files[named], b, rest), q) THEN n - 1 ELSE n)
      BY <2>2, <2>3, <3>1, BoundMore
    <3> QED BY <1>1, <1>3, <2>1, <2>4, <3>2, SoundWritten
  <2>5. CASE faults' = faults + 1 /\ \E a \in Failures(files[named], b, rest) : files' = [files EXCEPT ![named] = a.file]
    <3>1. PICK a \in Failures(files[named], b, rest) : files' = [files EXCEPT ![named] = a.file]
      BY <2>5
    <3>2. Bound([files EXCEPT ![named] = Extended(files[named], b, rest)], n)
      BY <2>2, <2>3, BoundMore
    <3>3. q.pc # "closed" /\ ReadOf(files[named]) = <<>> => q.last \in {Genesis, RotatedFrom(named - 1)}
      BY <1>1, <1>3, <2>1 DEF Sound, Fits
    <3>4. \A id \in BufferIds(b) : id > 0
      BY <1>1 DEF Fits
    <3> QED BY <1>1, <1>3, <2>1, <2>5, <3>1, <3>2, <3>3, <3>4, SoundTorn
  <2> QED BY <1>3, <2>1, <2>4, <2>5, Dropped
<1> QED BY <1>2, <1>3

\* What every step starts from.
LEMMA StepFacts ==
  ASSUME Types, NEW l \in Logs
  PROVE  /\ files \in Seq(FileSet) /\ Len(files) \in Nat /\ DOMAIN files = 1..Len(files) /\ faults \in Int /\ named \in 0..Len(files)
         /\ log \in [Logs -> LogSet] /\ log[l] \in LogSet /\ Fits(log[l], Len(files), begun)
         /\ log[l].buffer \in Seq(EntrySet) /\ log[l].rest \in BOOLEAN
         /\ named # 0 => /\ named \in DOMAIN files /\ files[named] \in FileSet
                         /\ Read(named) = ReadOf(files[named]) /\ Read(named) \in Seq(EntrySet)
<1>1. files \in Seq(FileSet) /\ Len(files) \in Nat /\ DOMAIN files = 1..Len(files) /\ faults \in Int /\ named \in 0..Len(files)
  BY LenProperties DEF Types, Shared
<1>2. log \in [Logs -> LogSet] /\ log[l] \in LogSet /\ Fits(log[l], Len(files), begun)
  BY DEF Types
<1>3. log[l].buffer \in Seq(EntrySet) /\ log[l].rest \in BOOLEAN
  BY <1>2 DEF LogSet
<1>4. ASSUME named # 0 PROVE named \in DOMAIN files /\ files[named] \in FileSet /\ Read(named) = ReadOf(files[named])
  <2>1. named \in DOMAIN files
    BY <1>1, <1>4
  <2> QED BY <1>1, <1>4, <2>1, ElementOfSeq DEF Read, ReadOf
<1> QED BY <1>1, <1>2, <1>3, <1>4, ReadTyped

\* A log that is opened reads what it will continue.
LEMMA SoundOpened ==
  ASSUME Types, NEW l \in Logs, Open(l), Sound(log[l], files, named, faults)
  PROVE  Sound(log'[l], files', named', faults')
<1> DEFINE q == [Closed EXCEPT !.pc = "ready", !.last = LastHash(named)]
<1>1. files' = files /\ named' = named /\ faults' = faults /\ log'[l] = q /\ log[l] = Closed
  BY StepFacts DEF Open, At, Fits
<1>2. q.file = 0 /\ q.buffer = <<>> /\ q.pc = "ready" /\ q.last = LastHash(named)
  BY DEF Closed
<1>3. Closed.buffer = <<>>
  BY ClosedFits
<1> HIDE DEF q
<1>4. After(q, files) = files /\ After(Closed, files) = files
  BY <1>2, <1>3 DEF After
<1>5. named = 0 => q.last = Genesis
  BY <1>2 DEF LastHash, Read
<1>6. ASSUME named # 0 PROVE (ReadOf(files[named]) = <<>> => q.last = Genesis) /\ ~Strays(files[named], q.last)
  <2>1. Read(named) = ReadOf(files[named])
    BY <1>6, StepFacts
  <2> QED BY <1>2, <2>1 DEF LastHash, Strays, Last
<1>7. named # 0 /\ Due(files[named], q) => Due(files[named], Closed)
  BY <1>6 DEF Due
<1>8. Bound(files, IF named # 0 /\ Due(files[named], q) THEN faults - 1 ELSE faults)
  <2>1. Bound(files, faults) /\ Bound(files, IF named # 0 /\ Due(files[named], Closed) THEN faults - 1 ELSE faults)
    BY <1>1, <1>4 DEF Sound
  <2> QED BY <1>7, <2>1
<1>9. Bound(files, faults)
  BY DEF Sound
<1>10. Sound(q, files, named, faults)
  BY <1>2, <1>4, <1>5, <1>6, <1>8, <1>9 DEF Sound
<1> QED BY <1>1, <1>10

\* The file gets another name: the next one begins with that.
LEMMA SoundRenamed ==
  ASSUME Types, NEW l \in Logs, Rename(l), Sound(log[l], files, named, faults), named \in {0, Len(files)}
  PROVE  Sound(log'[l], files', named', faults')
<1> DEFINE q == log'[l]
<1>1. /\ files' = files /\ named' = 0 /\ faults' = faults /\ named = Len(files)
      /\ q.last = RotatedFrom(named) /\ q.file = 0 /\ q.buffer = <<>> /\ q.pc # "closed"
  <2>1. log[l].file = 0 /\ log[l].buffer = <<>> /\ log[l].pc = "rename"
    BY StepFacts DEF Rename, At, Fits
  <2> QED BY <2>1, StepFacts DEF Rename, LogSet
<1>2. After(q, files) = files
  BY <1>1 DEF After
<1> QED BY <1>1, <1>2 DEF Sound

\* A new file is empty.
LEMMA NewBound ==
  ASSUME NEW c \in Seq(FileSet), NEW n, Bound(c, n)
  PROVE  /\ Bound(Append(c, NewFile), n) /\ ReadOf(Append(c, NewFile)[Len(c) + 1]) = <<>>
         /\ \A r : ~Due(Append(c, NewFile)[Len(c) + 1], r)
<1> DEFINE d == Append(c, NewFile)
<1>1. /\ DOMAIN c = 1..Len(c) /\ Len(c) \in Nat /\ DOMAIN d = 1..(Len(c) + 1)
      /\ d[Len(c) + 1] = NewFile /\ \A i \in 1..Len(c) : d[i] = c[i]
  BY SpecialEntries, LenProperties
<1>2. ReadOf(NewFile) = <<>> /\ NewFile.tail = NoLine
  <2>1. NewFile \in FileSet /\ NewFile.tail = NoLine /\ NewFile.lines = <<>>
    BY SpecialEntries DEF NewFile
  <2> QED BY <2>1, ReadOfIs
<1> HIDE DEF d
<1>3. \A r : ~Due(d[Len(c) + 1], r)
  BY <1>1, <1>2 DEF Due, Spoils, Strays
<1>4. \A k : Breaks(<<>>, k) = {}
  BY DEF Breaks
<1>5. Dam(d) \subseteq Dam(c)
  <2> SUFFICES ASSUME NEW f \in DOMAIN d, NEW i \in Breaks(ReadOf(d[f]), f) PROVE <<f, i>> \in Dam(c)
    BY DEF Dam
  <2>1. f # Len(c) + 1
    BY <1>1, <1>2, <1>4
  <2>2. f \in DOMAIN c /\ d[f] = c[f]
    BY <1>1, <2>1
  <2> QED BY <2>2 DEF Dam
<1>6. Bound(d, n)
  <2>1. IsFiniteSet(Dam(c)) /\ Cardinality(Dam(c)) <= n
    BY DEF Bound
  <2>2. IsFiniteSet(Dam(d)) /\ Dam(c) = Dam(d)
    <3>1. Dam(c) \subseteq Dam(d)
      <4> SUFFICES ASSUME NEW f \in DOMAIN c, NEW i \in Breaks(ReadOf(c[f]), f) PROVE <<f, i>> \in Dam(d)
        BY DEF Dam
      <4>1. f \in DOMAIN d /\ d[f] = c[f]
        BY <1>1
      <4> QED BY <4>1 DEF Dam
    <3> QED BY <1>5, <2>1, <3>1
  <2> QED BY <2>1, <2>2 DEF Bound
<1> QED BY <1>1, <1>2, <1>3, <1>6 DEF d

\* The writer is opened.
LEMMA SoundWriter ==
  ASSUME Types, NEW l \in Logs, OpenWriter(l), Sound(log[l], files, named, faults), named \in {0, Len(files)}
  PROVE  Sound(log'[l], files', named', faults') /\ named' \in {0, Len(files')}
<1> DEFINE q == log'[l]
<1>1. /\ log[l].pc = "write" /\ log[l].buffer = <<>> /\ faults' = faults /\ q.file = named' /\ q.buffer = <<>> /\ q.rest = log[l].rest
      /\ q.pc = "write" /\ q.last = log[l].last
  <2>1. log[l].pc = "write" /\ log[l].buffer = <<>>
    BY StepFacts DEF OpenWriter, At, Fits
  <2>2. log' = [log EXCEPT ![l].file = named'] /\ faults' = faults
    BY DEF OpenWriter
  <2> QED BY <2>1, <2>2, StepFacts DEF LogSet
<1> HIDE DEF q
<1>2. CASE named # 0
  <2>1. files' = files /\ named' = named /\ faults \in Int /\ faults <= faults
    BY <1>2, StepFacts DEF OpenWriter
  <2>2. Sound(q, files, named, faults)
    <3>1. /\ q.file \in {0, named} /\ (q.pc # "closed" => log[l].pc # "closed" /\ q.last = log[l].last)
          /\ q.buffer = log[l].buffer /\ (q.buffer # <<>> => q.file = log[l].file /\ q.rest = log[l].rest)
      BY <1>1, <2>1
    <3> QED BY <2>1, <3>1, SoundQuiet
  <2> QED BY <1>1, <2>1, <2>2 DEF q
<1>3. CASE named = 0
  <2> DEFINE d == Append(files, NewFile)
             k == Len(files) + 1
  <2>1. files' = d /\ named' = k /\ files \in Seq(FileSet) /\ Len(files) \in Nat
    BY <1>3, StepFacts DEF OpenWriter
  <2>2. Bound(d, faults) /\ ReadOf(d[k]) = <<>> /\ \A r : ~Due(d[k], r)
    BY <2>1, NewBound DEF Sound
  <2>3. q.last \in {Genesis, RotatedFrom(k - 1)} /\ k # 0
    <3>1. k - 1 = Len(files) /\ k # 0
      BY <2>1
    <3> QED BY <1>1, <1>3, <3>1 DEF Sound
  <2>4. Len(d) = k
    BY <2>1, SpecialEntries
  <2>5. After(q, d) = d
    BY <1>1 DEF After
  <2> HIDE DEF d, k
  <2>6. Sound(q, d, k, faults)
    BY <1>1, <2>1, <2>2, <2>3, <2>5 DEF Sound
  <2> QED BY <1>1, <2>1, <2>4, <2>6 DEF q
<1> QED BY <1>2, <1>3

\* An entry is written, or is not.
LEMMA SoundEntry ==
  ASSUME Types, NEW l \in Logs, Write(l) \/ WriteFails(l), Sound(log[l], files, named, faults)
  PROVE  Sound(log'[l], files', named', faults')
<1> DEFINE r == log[l]
           e == [r.entry EXCEPT !.prev = r.last]
           c == Buffered(l)
           g == Extended(files[named], c, r.rest)
           n == faults
<1>1. /\ files \in Seq(FileSet) /\ n \in Int /\ r \in LogSet /\ Fits(r, Len(files), begun) /\ r.buffer \in Seq(EntrySet)
      /\ r.rest \in BOOLEAN /\ named' = named /\ r.pc = "write"
  BY StepFacts DEF Write, WriteFails, At
<1>2. r.file = named /\ named # 0 /\ named \in DOMAIN files /\ files[named] \in FileSet
  BY StepFacts DEF Write, WriteFails, Sound
<1>3. /\ c \in Seq(EntrySet) /\ c # <<>> /\ c = Append(r.buffer, e) /\ e \in EntrySet /\ e.id = r.entry.id /\ e.prev = r.last
      /\ e.id > 0 /\ \A id \in BufferIds(c) : id > 0
  <2>1. r.entry # NoLine /\ r.entry.id \in 1..begun /\ begun \in Nat
    BY <1>1 DEF Fits, Types, Shared
  <2>2. /\ c \in Seq(EntrySet) /\ c # <<>> /\ c = Append(r.buffer, e) /\ e \in EntrySet /\ e.id = r.entry.id
        /\ BufferIds(c) = BufferIds(r.buffer) \cup {r.entry.id}
    BY BufferedTyped
  <2>3. r.entry \in EntrySet
    BY <1>1 DEF LogSet
  <2>4. e.prev = r.last
    BY <2>3 DEF EntrySet
  <2>5. (\A id \in BufferIds(r.buffer) : id > 0) /\ r.entry.id > 0
    BY <1>1, <2>1 DEF Fits
  <2>6. \A id \in BufferIds(c) : id > 0
    BY <2>2, <2>5
  <2> HIDE DEF c, e, r
  <2> QED BY <2>2, <2>4, <2>5, <2>6
<1>4. Bound([files EXCEPT ![named] = Extended(files[named], r.buffer, r.rest)],
            IF Due(Extended(files[named], r.buffer, r.rest), r) THEN n - 1 ELSE n)
  <2> DEFINE x == Extended(files[named], r.buffer, r.rest)
  <2>1. x \in FileSet /\ (r.buffer = <<>> => x = files[named])
    BY <1>1, <1>2, ExtendedFile
  <2> HIDE DEF x
  <2>2. After(r, files) = [files EXCEPT ![named] = x] /\ After(r, files)[named] = x
    BY <1>1, <1>2, <2>1, InPlace DEF After, x
  <2> QED BY <1>2, <2>2 DEF Sound, x
<1>5. r.buffer = <<>> => r.rest = FALSE
  BY <1>1 DEF Fits
<1>6. ReadOf(files[named]) = <<>> => e.prev \in {Genesis, RotatedFrom(named - 1)}
  BY <1>1, <1>2, <1>3 DEF Sound
<1> HIDE DEF r, e, c
<1>7. /\ Bound([files EXCEPT ![named] = g], n)
      /\ \A q : q.last = e.id => ~Due(g, q)
  BY <1>1, <1>2, <1>3, <1>4, <1>5, <1>6, WriteBound
<1>8. CASE Write(l)
  <2> DEFINE q == log'[l]
  <2>1. /\ files' = [files EXCEPT ![named] = g] /\ faults' = faults
        /\ q.last = e.id /\ q.file = named /\ q.buffer = <<>>
    <3>1. log' = [log EXCEPT ![l] = [r EXCEPT !.pc = "ready", !.entry = NoLine, !.buffer = <<>>, !.rest = FALSE, !.last = r.entry.id]]
      BY <1>8 DEF Write, r
    <3>2. log \in [Logs -> LogSet]
      BY StepFacts
    <3>3. files' = [files EXCEPT ![named] = g] /\ faults' = faults
      BY <1>2, <1>8 DEF Write, r, c
    <3> QED BY <1>1, <1>2, <1>3, <3>1, <3>2, <3>3 DEF LogSet
  <2> HIDE DEF q
  <2>2. Bound([files EXCEPT ![named] = g], IF Due(g, q) THEN n - 1 ELSE n)
    BY <1>7, <2>1
  <2>3. Sound(q, [files EXCEPT ![named] = g], named, n)
    BY <1>1, <1>2, <1>3, <2>1, <2>2, SoundWritten
  <2> QED BY <1>1, <2>1, <2>3 DEF q
<1>9. CASE WriteFails(l)
  <2>1. PICK a \in Failures(files[named], c, r.rest), killed \in BOOLEAN :
          /\ files' = [files EXCEPT ![named] = a.file]
          /\ log' = [log EXCEPT ![l] = IF killed THEN Closed ELSE
                       [r EXCEPT !.pc = "ready", !.entry = NoLine, !.buffer = a.buffer, !.rest = a.rest]]
    BY <1>2, <1>9 DEF WriteFails, r, c
  <2> DEFINE q == IF killed THEN Closed ELSE
                       [r EXCEPT !.pc = "ready", !.entry = NoLine, !.buffer = a.buffer, !.rest = a.rest]
  <2>2. faults' = n + 1 /\ log'[l] = q
    BY <1>9, <2>1, StepFacts DEF WriteFails, Fault
  <2>3. /\ q.file \in {0, named} /\ (q.buffer = <<>> \/ (q.buffer = a.buffer /\ q.rest = a.rest /\ q.file = named))
        /\ q.pc # "closed" => q.last = r.last
    <3>1. CASE killed
      BY <3>1, ClosedFits
    <3>2. CASE ~killed
      BY <1>1, <1>2, <3>2 DEF LogSet
    <3> QED BY <3>1, <3>2
  <2> HIDE DEF q
  <2>4. q.pc # "closed" /\ ReadOf(files[named]) = <<>> => q.last \in {Genesis, RotatedFrom(named - 1)}
    BY <1>3, <1>6, <2>3
  <2>5. Sound(q, [files EXCEPT ![named] = a.file], named, n + 1)
    BY <1>1, <1>2, <1>3, <1>7, <2>3, <2>4, SoundTorn
  <2> QED BY <1>1, <2>1, <2>2, <2>5
<1> QED BY <1>8, <1>9

\* What is left in the buffer is written, or a part of it.
LEMMA SoundFlush ==
  ASSUME Types, NEW l \in Logs, Flush(l), Sound(log[l], files, named, faults)
  PROVE  Sound(log'[l], files', named', faults')
<1> DEFINE r == log[l]
           b == r.buffer
           g == Extended(files[named], b, r.rest)
           n == faults
           q == log'[l]
<1>1. /\ files \in Seq(FileSet) /\ n \in Int /\ r \in LogSet /\ Fits(r, Len(files), begun) /\ b \in Seq(EntrySet) /\ b # <<>>
      /\ r.rest \in BOOLEAN /\ named' = named /\ r.pc = "ready" /\ log \in [Logs -> LogSet]
  BY StepFacts DEF Flush, At
<1>2. r.file = named /\ named # 0 /\ named \in DOMAIN files /\ files[named] \in FileSet
  <2>1. r.file = named /\ named # 0
    BY <1>1 DEF Fits, Sound
  <2> QED BY <2>1, StepFacts
<1>3. \A id \in BufferIds(b) : id > 0
  BY <1>1 DEF Fits
<1>4. Bound([files EXCEPT ![named] = g], IF Due(g, r) THEN n - 1 ELSE n)
  <2>1. g \in FileSet
    BY <1>1, <1>2, ExtendedFile
  <2> HIDE DEF g
  <2>2. After(r, files) = [files EXCEPT ![named] = g] /\ After(r, files)[named] = g
    BY <1>1, <1>2, <2>1, InPlace DEF After, g
  <2> QED BY <1>2, <2>2 DEF Sound
<1>5. n - 1 \in Int /\ n - 1 <= n
  BY <1>1
<1>6. Bound([files EXCEPT ![named] = g], n)
  BY <1>1, <1>4, <1>5, BoundMore
<1>7. ReadOf(files[named]) = <<>> => r.last \in {Genesis, RotatedFrom(named - 1)}
  BY <1>1, <1>2 DEF Sound
<1>8. CASE files' = [files EXCEPT ![named] = g] /\ log' = [log EXCEPT ![l].buffer = <<>>, ![l].rest = FALSE] /\ UNCHANGED faults
  <2>1. q.file = named /\ q.buffer = <<>> /\ q.pc = "ready" /\ q.last = r.last /\ faults' = n
    BY <1>1, <1>2, <1>8 DEF LogSet
  <2> HIDE DEF r, b, q
  <2>2. Due(g, q) => Due(g, r)
    BY <1>1, <2>1 DEF Due
  <2>3. Bound([files EXCEPT ![named] = g], IF Due(g, q) THEN n - 1 ELSE n)
    BY <1>4, <1>6, <2>2
  <2>4. Sound(q, [files EXCEPT ![named] = g], named, n)
    BY <1>1, <1>2, <2>1, <2>3, SoundWritten
  <2> QED BY <1>1, <1>8, <2>1, <2>4 DEF q
<1>9. CASE \E a \in Failures(files[named], b, r.rest) :
             /\ Fault
             /\ files' = [files EXCEPT ![named] = a.file]
             /\ log' = [log EXCEPT ![l].buffer = a.buffer, ![l].rest = a.rest]
  <2>1. PICK a \in Failures(files[named], b, r.rest) :
             /\ faults' = n + 1
             /\ files' = [files EXCEPT ![named] = a.file]
             /\ log' = [log EXCEPT ![l].buffer = a.buffer, ![l].rest = a.rest]
    BY <1>9 DEF Fault
  <2>2. q.file = named /\ q.buffer = a.buffer /\ q.rest = a.rest /\ q.last = r.last
    BY <1>1, <1>2, <2>1 DEF LogSet
  <2> HIDE DEF r, b, q
  <2>3. q.pc # "closed" /\ ReadOf(files[named]) = <<>> => q.last \in {Genesis, RotatedFrom(named - 1)}
    BY <1>7, <2>2
  <2>4. Sound(q, [files EXCEPT ![named] = a.file], named, n + 1)
    BY <1>1, <1>2, <1>3, <1>6, <2>2, <2>3, SoundTorn
  <2> QED BY <1>1, <2>1, <2>4 DEF q
<1> QED BY <1>2, <1>8, <1>9 DEF Flush

\* A step that leaves the files, and what is in memory but for the entry.
LEMMA SoundIdle ==
  ASSUME Types, NEW l \in Logs, WriteEntry(l) \/ RotateNow(l) \/ RenameFails(l) \/ OpenWriterFails(l),
         Sound(log[l], files, named, faults)
  PROVE  Sound(log'[l], files', named', faults')
<1> DEFINE q == log'[l]
<1>1. log \in [Logs -> LogSet] /\ log[l] \in LogSet /\ faults \in Int
  BY StepFacts
<1>2. /\ files' = files /\ named' = named /\ faults' \in Int /\ faults <= faults'
  BY <1>1 DEF WriteEntry, RotateNow, RenameFails, OpenWriterFails, Fault
<1>3. /\ q.file = log[l].file /\ q.last = log[l].last /\ q.buffer = log[l].buffer /\ log[l].pc # "closed"
  BY <1>1 DEF WriteEntry, RotateNow, RenameFails, OpenWriterFails, Ready, At, LogSet
<1>4. q.rest = log[l].rest
  BY <1>1 DEF WriteEntry, RotateNow, RenameFails, OpenWriterFails, Ready, At, LogSet
<1>5. q.file \in {0, named}
  BY <1>3 DEF Sound
<1> HIDE DEF q
<1>6. Sound(q, files, named, faults')
  BY <1>1, <1>2, <1>3, <1>4, <1>5, SoundQuiet
<1> QED BY <1>2, <1>6 DEF q

\* Every step.
LEMMA SoundStep ==
  ASSUME Types, NEW l \in Logs, Step(l), Sound(log[l], files, named, faults), named \in {0, Len(files)}
  PROVE  Sound(log'[l], files', named', faults') /\ named' \in {0, Len(files')}
<1>0. log \in [Logs -> LogSet] /\ log[l] \in LogSet /\ faults \in Int /\ Fits(log[l], Len(files), begun)
  BY StepFacts
<1>1. CASE OpenWriter(l)
  BY <1>1, SoundWriter
<1>2. CASE ~OpenWriter(l)
  <2>1. named' \in {0, named} /\ Len(files') = Len(files)
    <3>1. named' \in {named, 0}
      BY <1>2 DEF Step, Open, Close, Flush, Kill, WriteEntry, Panic, RotateNow, CloseWriter, Rename, RenameFails,
                  OpenWriterFails, Write, WriteFails
    <3>2. CASE Close(l) \/ Panic(l) \/ CloseWriter(l)
      <4>1. Drop(l)
        BY <3>2 DEF Close, Panic, CloseWriter
      <4> QED BY <3>1, <4>1, Dropped
    <3>3. CASE files' = files
      BY <3>1, <3>3
    <3>4. CASE Write(l) \/ WriteFails(l) \/ Flush(l)
      <4>1. /\ log[l].file \in DOMAIN files
            /\ \E g : files' = [files EXCEPT ![log[l].file] = g]
        BY <3>4, WriteStep DEF Write, WriteFails, Flush
      <4>2. files \in Seq(FileSet) /\ files' \in Seq(FileSet)
        BY <3>4, WriteStep, StepFacts DEF Types, Shared
      <4>3. DOMAIN files' = DOMAIN files
        BY <4>1
      <4> QED BY <3>1, <4>2, <4>3, LenProperties
    <3> QED BY <1>2, <3>1, <3>2, <3>3, <3>4 DEF Step, Open, Kill, WriteEntry, RotateNow, Rename, RenameFails, OpenWriterFails
  <2>2. CASE Open(l)
    BY <2>1, <2>2, SoundOpened
  <2>3. CASE Close(l) \/ Panic(l) \/ CloseWriter(l)
    <3> DEFINE q == log'[l]
    <3>1. Drop(l) /\ named' = named /\ q.file = 0 /\ q.buffer = <<>> /\ (q.pc # "closed" => log[l].pc # "closed" /\ q.last = log[l].last)
      BY <1>0, <2>3, ClosedFits DEF Close, Panic, CloseWriter, At, LogSet
    <3> HIDE DEF q
    <3>2. Sound(q, files', named, faults')
      <4>1. q.file \in {0, named}
        BY <3>1
      <4> QED BY <3>1, <4>1, SoundDropped
    <3> QED BY <2>1, <3>1, <3>2 DEF q
  <2>4. CASE Flush(l)
    BY <2>1, <2>4, SoundFlush
  <2>5. CASE Kill(l)
    <3>1. log'[l] = Closed /\ files' = files /\ named' = named /\ faults' = faults + 1
      BY <1>0, <2>5 DEF Kill, Fault
    <3>2. Sound(Closed, files, named, faults + 1)
      BY <1>0, SoundClosed DEF Sound
    <3> QED BY <2>1, <3>1, <3>2
  <2>6. CASE WriteEntry(l) \/ RotateNow(l) \/ RenameFails(l) \/ OpenWriterFails(l)
    BY <2>1, <2>6, SoundIdle
  <2>7. CASE Rename(l)
    BY <2>1, <2>7, SoundRenamed
  <2>8. CASE Write(l) \/ WriteFails(l)
    BY <2>1, <2>8, SoundEntry
  <2> QED BY <1>2, <2>2, <2>3, <2>4, <2>5, <2>6, <2>7, <2>8 DEF Step
<1> QED BY <1>1, <1>2

------------------------------------------------------------------------------
(* The chain. *)

\* What holds while no two have been open at once.
Alone ==
  /\ named \in {0, Len(files)}
  /\ Bound(files, faults)
  /\ \A l, m \in Logs : l = m \/ At(l, "closed") \/ At(m, "closed")
  /\ \A l \in Logs : (\A m \in Logs \ {l} : At(m, "closed")) => Sound(log[l], files, named, faults)

ChainInv == Types /\ (~overlapped => Alone)

\* Nothing is broken in the beginning.
LEMMA ChainInit == Init => ChainInv
<1> SUFFICES ASSUME Init PROVE ChainInv
  OBVIOUS
<1>1. Types /\ files = <<>> /\ named = 0 /\ faults = 0 /\ \A l \in Logs : log[l] = Closed
  BY TypesInit DEF Init
<1>2. Bound(files, faults)
  <2>1. Dam(<<>>) = {}
    BY DEF Dam
  <2> QED BY <1>1, <2>1, FS_EmptySet DEF Bound
<1>3. Sound(Closed, files, named, faults)
  BY <1>1, <1>2, ClosedFits DEF Sound, After
<1> QED BY <1>1, <1>2, <1>3, ClosedFits DEF ChainInv, Alone, At

\* It stays so.
LEMMA ChainStep == ChainInv /\ [Next]_vars => ChainInv'
<1> SUFFICES ASSUME ChainInv, [Next]_vars PROVE ChainInv'
  OBVIOUS
<1>1. CASE UNCHANGED vars
  BY <1>1 DEF vars, ChainInv, Types, Shared, Alone, At
<1>2. ASSUME NEW l \in Logs, Step(l) PROVE ChainInv'
  <2>1. Types /\ Types' /\ log' = [log EXCEPT ![l] = log'[l]]
    BY <1>2, EveryStep DEF ChainInv, Effect
  <2>2. SUFFICES ASSUME ~overlapped' PROVE Alone'
    BY <2>1 DEF ChainInv
  <2>3. ~overlapped /\ (Open(l) => \A m \in Logs : At(m, "closed"))
    <3>1. CASE Open(l)
      BY <2>2, <3>1 DEF Open
    <3>2. CASE ~Open(l)
      <4>1. overlapped' = overlapped
        BY <1>2, <3>2 DEF Step, Close, Flush, Kill, WriteEntry, Panic, RotateNow, CloseWriter, Rename, RenameFails,
                          OpenWriter, OpenWriterFails, Write, WriteFails
      <4> QED BY <2>2, <3>2, <4>1
    <3> QED BY <3>1, <3>2
  <2>4. Alone
    BY <2>3 DEF ChainInv
  <2>5. At(l, "closed") => Open(l)
    BY <1>2 DEF At, Step, Open, Close, Flush, Kill, WriteEntry, Panic, RotateNow, CloseWriter, Rename, RenameFails,
                OpenWriter, OpenWriterFails, Write, WriteFails
  <2>6. \A m \in Logs \ {l} : At(m, "closed")
    BY <2>3, <2>4, <2>5 DEF Alone
  <2>7. Sound(log'[l], files', named', faults') /\ named' \in {0, Len(files')}
    BY <1>2, <2>1, <2>4, <2>6, SoundStep DEF Alone
  <2>8. \A m \in Logs \ {l} : log'[m] = log[m] /\ log'[m].pc = "closed"
    BY <2>1, <2>6 DEF At, Types
  <2>9. ASSUME NEW k \in Logs, \A m \in Logs \ {k} : log'[m].pc = "closed" PROVE Sound(log'[k], files', named', faults')
    <3>1. CASE k = l
      BY <2>7, <3>1
    <3>2. CASE k # l
      <4>1. log'[l].pc = "closed" /\ log'[k].pc = "closed"
        BY <2>8, <2>9, <3>2
      <4>2. Fits(log'[l], Len(files'), begun') /\ Fits(log'[k], Len(files'), begun')
        BY <2>1 DEF Types
      <4>3. log'[k] = log'[l]
        BY <4>1, <4>2 DEF Fits
      <4> QED BY <2>7, <4>3
    <3> QED BY <3>1, <3>2
  <2>10. Bound(files', faults')
    BY <2>7 DEF Sound
  <2> QED BY <2>7, <2>8, <2>9, <2>10 DEF Alone, At, Bound, Dam, Sound, After
<1> QED BY <1>1, <1>2 DEF Next

\* One log after another, over restarts, rotations, failing calls and kills: each fault breaks
\* the chain in one place at most.
THEOREM ChainDamage == Spec => []DamageBounded
<1>1. ChainInv => DamageBounded
  <2> SUFFICES ASSUME ChainInv, ~overlapped PROVE Cardinality(Damage) <= faults
    BY DEF DamageBounded
  <2>1. ASSUME NEW f \in DOMAIN files PROVE Broken(f) = Breaks(ReadOf(files[f]), f)
    <3>1. f # 0
      BY LenProperties DEF ChainInv, Types, Shared
    <3>2. Read(f) = ReadOf(files[f])
      BY <3>1 DEF Read, ReadOf
    <3> QED BY <3>2 DEF Broken, Breaks
  <2>2. Damage = Dam(files)
    BY <2>1 DEF Damage, Dam
  <2> QED BY <2>2 DEF ChainInv, Alone, Bound
<1> QED
  BY <1>1, ChainInit, ChainStep, PTL DEF Spec
=============================================================================
