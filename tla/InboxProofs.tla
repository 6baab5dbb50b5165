----------------------------- MODULE InboxProofs -----------------------------
(***************************************************************************)
(* Proofs about InboxFile, for any number of items, users and faults: the    *)
(* types, when the inbox can be read, that unread items survive and do not    *)
(* come back, and that the file implements InboxCommands.                    *)
(***************************************************************************)
EXTENDS InboxFile, TLAPS

\* The part of a command's way that a user is on.
OnTheWay ==
  \A u \in Users :
    /\ users[u].pc \in {"recount", "open", "write", "rename"} => users[u].cmd.op # "clear_all"
    /\ users[u].pc = "remove" => users[u].cmd.op = "clear_all"

\* The daemon appends to the inbox, or to a file that has lost its name.
AdderApart ==
  /\ adder.fd # "tmp"
  /\ adder.pc = "line" => adder.item \notin added

TypeInv == FileTypeOK /\ OnTheWay /\ AdderApart

\* Until the file is torn, one user at most has the temporary file open, and finds in
\* it what it wrote.
TmpOwned ==
  ~torn =>
    /\ \A u, v \in Users : users[u].fd = "tmp" /\ users[v].fd = "tmp" => u = v
    /\ \A u \in Users :
         /\ users[u].fd \in {None, "tmp"}
         /\ users[u].pc = "write" => files["tmp"] = Empty
         /\ users[u].pc = "rename" =>
              files["tmp"] = File(Outcome(users[u].cmd, users[u].read), FALSE)

FileInv == TypeInv /\ TmpOwned /\ ReadableUntilTorn

------------------------------------------------------------------------------
(* Types. *)

\* What a command makes of entries are entries.
LEMMA OutcomeType ==
  ASSUME NEW cmd \in Commands, NEW read \in SUBSET Entries
  PROVE  Outcome(cmd, read) \in SUBSET Entries
<1>1. CASE cmd.op = "ack"
  <2>1. cmd.id \in Items
    BY <1>1 DEF Commands
  <2>2. Acked(cmd.id) \in Entries
    BY <2>1 DEF Acked, Entries
  <2> QED BY <1>1, <2>2 DEF Outcome
<1>2. CASE cmd.op # "ack"
  BY <1>2 DEF Outcome
<1> QED BY <1>1, <1>2

\* What the writers leave are files.
LEMMA FileTypes ==
  /\ \A es \in SUBSET Entries, g \in BOOLEAN : File(es, g) \in Files
  /\ Empty \in Files
  /\ \A file \in Files : file.entries \in SUBSET Entries /\ file.garbled \in BOOLEAN
BY DEF File, Files, Empty

\* An appended line, or what it spoils, is a file.
LEMMA AppendedType ==
  ASSUME NEW file \in Files, NEW k \in Items
  PROVE  Appended(file, k) \in Files
<1>1. Unread(k) \in Entries
  BY DEF Unread, Entries
<1>2. CASE file.open = None
  BY <1>1, <1>2 DEF Appended, Files
<1>3. CASE file.open # None
  BY <1>3, FileTypes DEF Appended
<1> QED BY <1>2, <1>3

\* What a part of a line leaves is a file.
LEMMA CutShortType ==
  ASSUME NEW file \in Files
  PROVE  CutShort(file) \in Files
<1>1. CASE file.open = None
  BY <1>1 DEF CutShort, Files
<1>2. CASE file.open # None
  BY <1>2, FileTypes DEF CutShort
<1> QED BY <1>1, <1>2

\* A write over anything leaves a file.
LEMMA OverlaidType ==
  ASSUME NEW new \in SUBSET Entries, NEW old \in Files, NEW content \in Overlaid(new, old)
  PROVE  content \in Files
<1>1. CASE old = Empty
  <2>1. content = File(new, FALSE)
    BY <1>1 DEF Overlaid
  <2> QED BY <2>1 DEF File, Files
<1>2. CASE old # Empty
  <2>0. Overlaid(new, old) = {File(new \cup rest, cut) : rest \in SUBSET old.entries, cut \in BOOLEAN}
    BY <1>2 DEF Overlaid
  <2>1. PICK rest \in SUBSET old.entries, g \in BOOLEAN : content = File(new \cup rest, g)
    BY <2>0 DEF File
  <2>2. new \cup rest \in SUBSET Entries
    BY FileTypes
  <2> QED BY <2>1, <2>2, FileTypes
<1> QED BY <1>1, <1>2

\* A write leaves files, and none of them is lost.
LEMMA WrittenType ==
  ASSUME files \in [Names -> Files \cup {None}], NEW fd, NEW content \in Files, Written(fd, content)
  PROVE  /\ files' \in [Names -> Files \cup {None}]
         /\ \A n \in Names : files[n] # None => files'[n] # None
BY NoneAssumption DEF Written

\* The initial state has the types.
LEMMA TypeInit == Init => TypeInv
<1> SUFFICES ASSUME Init PROVE TypeInv
  OBVIOUS
<1> USE NoneAssumption, FaultsAssumption DEF Init, AdderIdle, Idle, Names, Open
<1>1. files \in [Names -> Files \cup {None}] /\ faults \in 0..MaxFaults /\ added \subseteq Items
  OBVIOUS
<1>2. Idle \in UserStates
  BY DEF UserStates
<1>3. users \in [Users -> UserStates]
  BY <1>2
<1>4. adder \in [pc : {"idle", "line", "newline"}, item : Items \cup {None}, fd : Open \cup {None}]
  OBVIOUS
<1> QED BY <1>1, <1>3, <1>4 DEF TypeInv, FileTypeOK, OnTheWay, AdderApart

\* Steps of the daemon keep the types.
LEMMA TypeAdd ==
  ASSUME TypeInv, (\E k \in Items : AddOpen(k)) \/ AddLine \/ AddNewline \/ AddCutOff
  PROVE  TypeInv'
<1> USE NoneAssumption, FaultsAssumption DEF TypeInv, FileTypeOK, OnTheWay, AdderApart, Open, Names
<1>1. ASSUME NEW k \in Items, AddOpen(k) PROVE TypeInv'
  BY <1>1, FileTypes DEF AddOpen
<1>2. CASE AddLine
  <2>1. ASSUME adder.fd \in Names PROVE Appended(files[adder.fd], adder.item) \in Files
    BY <2>1, <1>2, AppendedType DEF AddLine
  <2>2. /\ files' \in [Names -> Files \cup {None}]
        /\ \A n \in Names : files[n] # None => files'[n] # None
    BY <1>2, <2>1, WrittenType DEF AddLine
  <2>3. adder.item \in Items
    BY <1>2 DEF AddLine
  <2> QED BY <1>2, <2>2, <2>3 DEF AddLine
<1>3. CASE AddNewline
  <2>1. ASSUME adder.fd \in Names 
        PROVE  File(files[adder.fd].entries, files[adder.fd].garbled) \in Files
    BY <2>1, <1>3, FileTypes DEF AddNewline
  <2> QED BY <1>3, <2>1 DEF AddNewline, Written, AdderIdle
<1>4. CASE AddCutOff
  <2>1. ASSUME adder.fd \in Names PROVE CutShort(files[adder.fd]) \in Files
    BY <2>1, <1>4, CutShortType DEF AddCutOff
  <2>2. /\ files' \in [Names -> Files \cup {None}]
        /\ \A n \in Names : files[n] # None => files'[n] # None
    BY <1>4, <2>1, WrittenType DEF AddCutOff
  <2>3. faults' \in 0..MaxFaults /\ adder' = AdderIdle
    BY <1>4 DEF AddCutOff, Fault
  <2>5. torn' \in BOOLEAN
    BY <1>4 DEF AddCutOff
  <2>4. users' = users /\ added' = added
    BY <1>4 DEF AddCutOff
  <2> QED BY <2>2, <2>3, <2>4, <2>5 DEF AdderIdle
<1> QED BY <1>1, <1>2, <1>3, <1>4

\* Steps of a user keep the types.
LEMMA TypeUser ==
  ASSUME TypeInv, NEW u \in Users, User(u)
  PROVE  TypeInv'
<1> USE NoneAssumption, FaultsAssumption DEF TypeInv, FileTypeOK, OnTheWay, AdderApart, Open, Names, UserStates
<1>1. CASE List(u)
  <2>1. Listed \in SUBSET Entries
    BY FileTypes DEF Listed, Inbox
  <2> QED BY <1>1, <2>1 DEF List, AfterList, Commands
<1>2. CASE Recount(u)
  BY <1>2 DEF Recount, Leaves, Idle
<1>3. CASE OpenTmp(u)
  <2>1. files' \in [Names -> Files \cup {None}]
    BY <1>3, FileTypes DEF OpenTmp
  <2>2. \A n \in Names : files[n] # None => files'[n] # None
    BY <1>3, FileTypes DEF OpenTmp
  <2>3. files'["tmp"] # None
    BY <1>3, FileTypes DEF OpenTmp
  <2>4. users' = [users EXCEPT ![u].pc = "write", ![u].fd = "tmp"]
    BY <1>3, Zenon DEF OpenTmp
  <2>5. users' \in [Users -> UserStates]
    <3>1. users[u] \in UserStates
      OBVIOUS
    <3>2. [users[u] EXCEPT !.pc = "write", !.fd = "tmp"] \in UserStates
      BY <3>1
    <3>3. users' = [users EXCEPT ![u] = [users[u] EXCEPT !.pc = "write", !.fd = "tmp"]]
      BY <2>4
    <3> QED BY <3>2, <3>3
  <2>6. UNCHANGED <<adder, added, faults>> /\ torn' \in BOOLEAN
    BY <1>3 DEF OpenTmp
  <2>7. users[u].pc = "open" 
    BY <1>3 DEF OpenTmp
  <2> QED BY <2>1, <2>2, <2>3, <2>4, <2>5, <2>6, <2>7
<1>4. CASE Write(u)
  <2>1. users[u].cmd \in Commands /\ users[u].read \in SUBSET Entries
    BY <1>4 DEF Write
  <2>2. Outcome(users[u].cmd, users[u].read) \in SUBSET Entries
    BY <2>1, OutcomeType
  <2>3. ASSUME users[u].fd \in Names,
               NEW content \in Overlaid(Outcome(users[u].cmd, users[u].read), files[users[u].fd])
        PROVE  content \in Files
    BY <2>2, <2>3, OverlaidType
  <2> QED BY <1>4, <2>3 DEF Write, Written
<1>5. CASE WriteFails(u)
  <2>1. users[u].cmd \in Commands /\ users[u].read \in SUBSET Entries
    BY <1>5 DEF WriteFails
  <2>2. Outcome(users[u].cmd, users[u].read) \in SUBSET Entries
    BY <2>1, OutcomeType
  <2>3. ASSUME NEW part \in SUBSET Outcome(users[u].cmd, users[u].read), NEW cut \in BOOLEAN
        PROVE  File(part, cut) \in Files
    BY <2>2, FileTypes
  <2> QED BY <1>5, <2>3 DEF WriteFails, Written, Leaves, Idle, Fault
<1>6. CASE Rename(u)
  BY <1>6 DEF Rename, Leaves, Idle, Moved, Unlinked
<1>7. CASE Remove(u)
  BY <1>7 DEF Remove, Idle, Unlinked
<1>8. CASE CutOff(u)
  BY <1>8 DEF CutOff, Leaves, Idle, Fault
<1> QED BY <1>1, <1>2, <1>3, <1>4, <1>5, <1>6, <1>7, <1>8 DEF User

\* Every step keeps the types.
LEMMA TypeStep == TypeInv /\ [Next]_vars => TypeInv'
<1> SUFFICES ASSUME TypeInv, [Next]_vars PROVE TypeInv'
  OBVIOUS
<1>1. CASE UNCHANGED vars
  BY <1>1 DEF vars, TypeInv, FileTypeOK, OnTheWay, AdderApart
<1> QED BY <1>1, TypeAdd, TypeUser DEF Next

\* The variables keep their types, and who has a named file open finds it.
THEOREM TypeCorrect == Spec => []FileTypeOK
<1>1. Spec => []TypeInv
  BY TypeInit, TypeStep, PTL DEF Spec
<1>2. TypeInv => FileTypeOK
  BY DEF TypeInv
<1> QED BY <1>1, <1>2, PTL

------------------------------------------------------------------------------
(* The temporary file has one owner, until the file is torn. *)

\* A user is on the way with a command, and what it would write are entries.
LEMMA ToWrite ==
  ASSUME TypeInv, NEW u \in Users, users[u].pc # "idle"
  PROVE  /\ users[u].cmd \in Commands /\ users[u].read \in SUBSET Entries
         /\ Outcome(users[u].cmd, users[u].read) \in SUBSET Entries
<1>1. users[u].cmd \in Commands /\ users[u].read \in SUBSET Entries
  BY DEF TypeInv, FileTypeOK, UserStates
<1> QED BY <1>1, OutcomeType

\* Where a user that is about to write or to rename has its file.
LEMMA OwnerHasTmp ==
  ASSUME TypeInv, TmpOwned, ~torn, NEW u \in Users, users[u].pc \in {"write", "rename"}
  PROVE  users[u].fd = "tmp"
<1>1. users[u].fd \in Open
  BY DEF TypeInv, FileTypeOK
<1>2. users[u].fd \in {None, "tmp"}
  BY DEF TmpOwned
<1> QED BY <1>1, <1>2, NoneAssumption

\* A step after which every user is as it was, or has no file open.
NoNewOwner ==
  \A v \in Users : \/ users'[v] = users[v]
                   \/ users'[v].fd = None /\ users'[v].pc \notin {"write", "rename"}

\* The owner, and nobody else, is a user that the step left alone.
LEMMA TmpUnchanged ==
  ASSUME TmpOwned, torn' = torn, files'["tmp"] = files["tmp"],
         NoNewOwner
  PROVE  TmpOwned'
<1> SUFFICES ASSUME ~torn' PROVE TmpOwned'
  BY DEF TmpOwned
<1>1. ~torn /\ None # "tmp"
  BY NoneAssumption DEF Open
<1>2. \A v \in Users : users'[v].fd = "tmp" \/ users'[v].pc \in {"write", "rename"} => users'[v] = users[v]
  BY <1>1 DEF NoNewOwner
<1>3. \A v \in Users : users'[v].fd \in {None, "tmp"}
  BY <1>1 DEF NoNewOwner, TmpOwned
<1>4. \A u, v \in Users : users'[u].fd = "tmp" /\ users'[v].fd = "tmp" => u = v
  BY <1>1, <1>2 DEF TmpOwned
<1>5. ASSUME NEW v \in Users, users'[v].pc \in {"write", "rename"}
      PROVE  /\ users'[v].pc = "write" => files'["tmp"] = Empty
             /\ users'[v].pc = "rename" =>
                  files'["tmp"] = File(Outcome(users'[v].cmd, users'[v].read), FALSE)
  BY <1>1, <1>2, <1>5 DEF TmpOwned
<1> QED BY <1>3, <1>4, <1>5 DEF TmpOwned

\* Every step keeps the temporary file with its owner.
LEMMA OwnedStep == TypeInv /\ TmpOwned /\ [Next]_vars => TmpOwned'
<1> SUFFICES ASSUME TypeInv, TmpOwned, [Next]_vars PROVE TmpOwned'
  OBVIOUS
<1>0. users \in [Users -> UserStates] /\ files \in [Names -> Files \cup {None}]
  BY DEF TypeInv, FileTypeOK
<1>1. ASSUME UNCHANGED <<files, users, torn>> PROVE TmpOwned'
  BY <1>1 DEF TmpOwned
<1>2. CASE (\E k \in Items : AddOpen(k)) \/ AddLine \/ AddNewline \/ AddCutOff
  <2>1. UNCHANGED users
    BY <1>2 DEF AddOpen, AddLine, AddNewline, AddCutOff
  <2>2. files'["tmp"] = files["tmp"]
    BY <1>0, <1>2 DEF AddOpen, AddLine, AddNewline, AddCutOff, Written, Names, TypeInv, AdderApart
  <2>3. ~torn' => ~torn
    BY <1>2 DEF AddOpen, AddLine, AddNewline, AddCutOff
  <2> QED BY <2>1, <2>2, <2>3 DEF TmpOwned
<1>3. ASSUME NEW u \in Users, User(u) PROVE TmpOwned'
  <2>1. CASE List(u)
    <3>1. torn' = torn /\ files' = files
      BY <2>1 DEF List
    <3>2. NoNewOwner
      BY <1>0, <2>1 DEF NoNewOwner, List, AfterList
    <3> QED BY <3>1, <3>2, TmpUnchanged
  <2>2. CASE Recount(u)
    <3>1. torn' = torn /\ files' = files
      BY <2>2 DEF Recount
    <3>2. CASE Leaves(u)
      <4>1. NoNewOwner
        BY <1>0, <3>2 DEF NoNewOwner, Leaves, Idle
      <4> QED BY <3>1, <4>1, TmpUnchanged
    <3>3. CASE users' = [users EXCEPT ![u].pc = "open"] 
      <4>1. \A v \in Users : v # u => users'[v] = users[v]
        BY <1>0, <3>3
      <4>2. users'[u].pc = "open" /\ users'[u].fd = users[u].fd
        BY <1>0, <3>3 DEF UserStates
      <4>3. \A v \in Users : users'[v].fd = users[v].fd
        BY <4>1, <4>2
      <4> SUFFICES ASSUME ~torn' PROVE TmpOwned'
        BY DEF TmpOwned
      <4>4. \A v, w \in Users : users'[v].fd = "tmp" /\ users'[w].fd = "tmp" => v = w
        BY <3>1, <4>3 DEF TmpOwned
      <4>5. \A v \in Users : users'[v].fd \in {None, "tmp"}
        BY <3>1, <4>3 DEF TmpOwned
      <4>6. ASSUME NEW v \in Users, users'[v].pc \in {"write", "rename"}
            PROVE  users'[v] = users[v]
        BY <4>1, <4>2, <4>6
      <4> QED BY <3>1, <4>4, <4>5, <4>6 DEF TmpOwned
    <3> QED BY <2>2, <3>2, <3>3 DEF Recount
  <2>3. CASE OpenTmp(u)
    <3> SUFFICES ASSUME ~torn' PROVE TmpOwned'
      BY DEF TmpOwned
    <3>1. ~torn /\ \A v \in Users : users[v].fd # "tmp"
      BY <2>3 DEF OpenTmp
    <3>2. files'["tmp"] = Empty
      BY <1>0, <2>3 DEF OpenTmp, Names
    <3>3. users' = [users EXCEPT ![u].pc = "write", ![u].fd = "tmp"]
      BY <2>3, Zenon DEF OpenTmp
    <3>4. \A v \in Users : v # u => users'[v] = users[v]
      BY <1>0, <3>3
    <3>5. users'[u].pc = "write" /\ users'[u].fd = "tmp"
      BY <1>0, <3>3 DEF UserStates
    <3>6. \A v \in Users : v # u => users[v].pc \notin {"write", "rename"}
      BY <3>1, OwnerHasTmp
    <3> QED BY <3>1, <3>2, <3>4, <3>5, <3>6 DEF TmpOwned
  <2>4. CASE Write(u)
    <3> SUFFICES ASSUME ~torn' PROVE TmpOwned'
      BY DEF TmpOwned
    <3>1. ~torn /\ users[u].pc = "write"
      BY <2>4 DEF Write
    <3>2. users[u].fd = "tmp" /\ files["tmp"] = Empty
      BY <3>1, OwnerHasTmp DEF TmpOwned
    <3>3. PICK content \in Overlaid(Outcome(users[u].cmd, users[u].read), files["tmp"]) :
            Written("tmp", content)
      BY <2>4, <3>2 DEF Write, Names
    <3>4. content = File(Outcome(users[u].cmd, users[u].read), FALSE)
      BY <3>2, <3>3 DEF Overlaid
    <3>5. files'["tmp"] = File(Outcome(users[u].cmd, users[u].read), FALSE)
      BY <3>3, <3>4 DEF Written, Names
    <3>6. users' = [users EXCEPT ![u].pc = "rename"]
      BY <2>4 DEF Write
    <3>7. \A v \in Users : v # u => users'[v] = users[v] /\ users[v].fd # "tmp"
      BY <1>0, <3>1, <3>2, <3>6 DEF TmpOwned
    <3>8. /\ users'[u].pc = "rename" /\ users'[u].fd = "tmp"
          /\ users'[u].cmd = users[u].cmd /\ users'[u].read = users[u].read
      BY <1>0, <3>2, <3>6 DEF UserStates
    <3>9. \A v \in Users : v # u => users[v].pc \notin {"write", "rename"}
      BY <3>1, <3>7, OwnerHasTmp
    <3> QED BY <3>1, <3>5, <3>7, <3>8, <3>9 DEF TmpOwned
  <2>5. CASE WriteFails(u)
    <3> SUFFICES ASSUME ~torn' PROVE TmpOwned'
      BY DEF TmpOwned
    <3>1. ~torn /\ users[u].pc = "write" /\ users' = [users EXCEPT ![u] = Idle]
      BY <2>5 DEF WriteFails, Leaves
    <3>2. users[u].fd = "tmp"
      BY <3>1, OwnerHasTmp
    <3>3. \A v \in Users : v # u => users'[v] = users[v] /\ users[v].fd # "tmp"
      BY <1>0, <3>1, <3>2 DEF TmpOwned
    <3>4. \A v \in Users : v # u => users[v].pc \notin {"write", "rename"}
      BY <3>1, <3>3, OwnerHasTmp
    <3>5. users'[u] = Idle
      BY <1>0, <3>1
    <3>6. \A v \in Users : users'[v].fd = None /\ users'[v].pc \notin {"write", "rename"}
      <4>1. \A v \in Users : users[v].fd \in {None, "tmp"}
        BY <3>1 DEF TmpOwned
      <4> QED BY <3>3, <3>4, <3>5, <4>1 DEF Idle
    <3> QED BY <3>6, NoneAssumption DEF TmpOwned, Open
  <2>6. CASE Rename(u)
    <3> SUFFICES ASSUME ~torn' PROVE TmpOwned'
      BY DEF TmpOwned
    <3>1. ~torn /\ users[u].pc = "rename"
      BY <2>6 DEF Rename
    <3>2. users[u].fd = "tmp"
      BY <3>1, OwnerHasTmp
    <3>3. \A v \in Users : v # u => users[v].fd = None /\ users[v].pc \notin {"write", "rename"}
      <4>1. \A v \in Users : v # u => users[v].fd = None
        BY <3>1, <3>2 DEF TmpOwned
      <4> QED BY <3>1, <4>1, OwnerHasTmp, NoneAssumption DEF Open
    <3>4. \A v \in Users : users'[v].fd = None /\ users'[v].pc \notin {"write", "rename"}
      <4>1. users'[u] = Idle
        BY <1>0, <2>6 DEF Rename, Leaves
      <4>2. \A v \in Users : v # u => users'[v].fd \in {users[v].fd, Moved(users[v].fd)} /\ users'[v].pc = users[v].pc
        BY <1>0, <2>6 DEF Rename, Leaves, UserStates
      <4>3. Moved(None) = None
        BY NoneAssumption DEF Moved, Unlinked, Open
      <4> QED BY <3>3, <4>1, <4>2, <4>3 DEF Idle
    <3> QED BY <3>4, NoneAssumption DEF TmpOwned, Open
  <2>7. CASE Remove(u)
    <3>1. torn' = torn /\ files'["tmp"] = files["tmp"]
      BY <1>0, <2>7 DEF Remove, Names
    <3> SUFFICES ASSUME ~torn PROVE TmpOwned'
      BY <3>1 DEF TmpOwned
    <3>2. \A v \in Users : users'[v] = IF v = u THEN Idle ELSE [users[v] EXCEPT !.fd = Unlinked(@)]
      BY <2>7 DEF Remove
    <3>3. \A v \in Users : Unlinked(users[v].fd) = users[v].fd
      BY NoneAssumption DEF TmpOwned, Unlinked, Open
    <3>4. \A v \in Users : v # u => users'[v] = users[v]
      BY <1>0, <3>2, <3>3 DEF UserStates
    <3>5. NoNewOwner
      <4>1. users'[u] = Idle
        BY <3>2
      <4> QED BY <3>4, <4>1 DEF NoNewOwner, Idle
    <3> QED BY <3>1, <3>5, TmpUnchanged
  <2>8. CASE CutOff(u)
    <3>1. torn' = torn /\ files' = files
      BY <2>8 DEF CutOff
    <3>2. NoNewOwner
      BY <1>0, <2>8 DEF NoNewOwner, CutOff, Leaves, Idle
    <3> QED BY <3>1, <3>2, TmpUnchanged
  <2> QED BY <1>3, <2>1, <2>2, <2>3, <2>4, <2>5, <2>6, <2>7, <2>8 DEF User
<1>4. CASE UNCHANGED vars
  BY <1>1, <1>4 DEF vars
<1> QED BY <1>2, <1>3, <1>4 DEF Next

------------------------------------------------------------------------------
(* The invariant, and what follows from it. *)

\* An inbox that is readable, or is but for its end, has no garbled line.
LEMMA NothingGarbled == ReadableUntilTorn <=> (~torn => ~Inbox.garbled)
BY DEF ReadableUntilTorn, Readable

\* A line of the inbox turns garbled only when the file is torn.
LEMMA ReadableStep ==
  ASSUME TypeInv, TmpOwned, ReadableUntilTorn, [Next]_vars
  PROVE  ReadableUntilTorn'
<1> SUFFICES ASSUME ~torn' PROVE ~Inbox.garbled'
  BY DEF ReadableUntilTorn, Readable
<1>R. ~torn => ~Inbox.garbled
  BY NothingGarbled
<1>0. files \in [Names -> Files \cup {None}] /\ adder.fd # "tmp" /\ Empty.garbled = FALSE
  BY DEF TypeInv, FileTypeOK, AdderApart, Empty, File
<1>1. ASSUME files'["inbox"] = files["inbox"], ~torn PROVE ~Inbox.garbled'
  BY <1>1, <1>R DEF Inbox
<1>2. ASSUME NEW k \in Items, AddOpen(k) PROVE ~Inbox.garbled'
  BY <1>0, <1>2, <1>R DEF AddOpen, Inbox, Names
<1>3. CASE AddLine
  <2>1. CASE adder.fd = "inbox"
    <3>1. files["inbox"] # None /\ ~torn /\ files["inbox"].open = None
      BY <1>3, <2>1 DEF AddLine, Names, TypeInv, FileTypeOK
    <3>2. files'["inbox"] = Appended(files["inbox"], adder.item)
      BY <1>3, <2>1 DEF AddLine, Written, Names
    <3>3. ~files["inbox"].garbled
      BY <3>1, <1>R DEF Inbox
    <3> QED BY <1>0, <3>1, <3>2, <3>3 DEF Appended, Inbox
  <2>2. CASE adder.fd # "inbox"
    BY <1>0, <1>1, <1>3, <2>2 DEF AddLine, Names
  <2> QED BY <2>1, <2>2
<1>4. CASE AddNewline
  <2>1. CASE adder.fd = "inbox"
    <3>1. files["inbox"] # None /\ ~torn
      BY <1>4, <2>1 DEF AddNewline, Names, TypeInv, FileTypeOK
    <3>2. files'["inbox"] = File(files["inbox"].entries, files["inbox"].garbled)
      BY <1>4, <2>1 DEF AddNewline, Written, Names
    <3>3. ~files["inbox"].garbled
      BY <3>1, <1>R DEF Inbox
    <3> QED BY <1>0, <3>2, <3>3 DEF File, Inbox
  <2>2. CASE adder.fd # "inbox"
    BY <1>0, <1>1, <1>4, <2>2 DEF AddNewline, Names
  <2> QED BY <2>1, <2>2
<1>5. CASE AddCutOff
  <2>0. ~torn
    BY <1>5 DEF AddCutOff
  <2>1. CASE UNCHANGED files
    BY <1>1, <2>0, <2>1
  <2>2. CASE /\ adder.pc = "line" /\ adder.fd \in Names
             /\ Written(adder.fd, CutShort(files[adder.fd]))
             /\ torn' = (torn \/ files[adder.fd].open # None)
    <3>1. adder.fd = "inbox" /\ files["inbox"] # None /\ files["inbox"].open = None
      BY <1>0, <2>2 DEF Names, TypeInv, FileTypeOK
    <3>2. files'["inbox"] = CutShort(files["inbox"])
      BY <2>2, <3>1 DEF Written, Names
    <3>3. files["inbox"] \in Files /\ ~files["inbox"].garbled
      BY <1>0, <1>R, <2>0, <3>1 DEF Inbox, Names
    <3>4. ~CutShort(files["inbox"]).garbled
      BY <3>1, <3>3 DEF CutShort, Files
    <3> QED BY <1>0, <3>2, <3>4 DEF Inbox
  <2> QED BY <1>5, <2>1, <2>2 DEF AddCutOff
<1>6. ASSUME NEW u \in Users, User(u) PROVE ~Inbox.garbled'
  <2>1. ~torn
    BY <1>6 DEF User, List, Recount, OpenTmp, Write, WriteFails, Rename, Remove, CutOff
  <2>2. CASE List(u) \/ Recount(u) \/ CutOff(u)
    BY <1>1, <2>1, <2>2 DEF List, Recount, CutOff
  <2>3. CASE OpenTmp(u)
    BY <1>0, <1>1, <2>1, <2>3 DEF OpenTmp, Names
  <2>4. CASE Write(u)
    <3>1. users[u].fd = "tmp"
      BY <2>1, <2>4, OwnerHasTmp DEF Write
    <3>2. files'["inbox"] = files["inbox"]
      BY <1>0, <2>4, <3>1 DEF Write, Written, Names
    <3> QED BY <1>1, <2>1, <3>2
  <2>5. CASE WriteFails(u)
    <3>1. users[u].fd = "tmp"
      BY <2>1, <2>5, OwnerHasTmp DEF WriteFails
    <3>2. files'["inbox"] = files["inbox"]
      BY <1>0, <2>5, <3>1 DEF WriteFails, Written, Names
    <3> QED BY <1>1, <2>1, <3>2
  <2>6. CASE Rename(u)
    <3>1. files["tmp"] = File(Outcome(users[u].cmd, users[u].read), FALSE)
      BY <2>1, <2>6 DEF Rename, TmpOwned
    <3>2. files'["inbox"] \in {files["inbox"], files["tmp"]}
      BY <2>6 DEF Rename
    <3>3. CASE files'["inbox"] = files["tmp"]
      BY <1>0, <3>1, <3>3 DEF Inbox, File
    <3> QED BY <1>1, <2>1, <3>2, <3>3
  <2>7. CASE Remove(u)
    BY <1>0, <2>7 DEF Remove, Inbox, Names
  <2> QED BY <1>6, <2>2, <2>3, <2>4, <2>5, <2>6, <2>7 DEF User
<1>7. CASE UNCHANGED vars
  BY <1>1, <1>7 DEF vars
<1> QED BY <1>2, <1>3, <1>4, <1>5, <1>6, <1>7 DEF Next

\* The invariant is inductive.
LEMMA FileInvariant == Spec => []FileInv
<1>1. Init => FileInv
  <2> SUFFICES ASSUME Init PROVE FileInv
    OBVIOUS
  <2>1. TypeInv
    BY TypeInit
  <2>2. TmpOwned
    BY NoneAssumption DEF Init, TmpOwned, Idle, Open
  <2>3. ReadableUntilTorn
    BY DEF Init, ReadableUntilTorn, Readable, Inbox, Empty, File, Names
  <2> QED BY <2>1, <2>2, <2>3 DEF FileInv
<1>2. FileInv /\ [Next]_vars => FileInv'
  <2> SUFFICES ASSUME FileInv, [Next]_vars PROVE FileInv'
    OBVIOUS
  <2>1. TypeInv /\ TmpOwned /\ ReadableUntilTorn
    BY DEF FileInv
  <2> QED BY <2>1, TypeStep, OwnedStep, ReadableStep DEF FileInv
<1> QED BY <1>1, <1>2, PTL DEF Spec

\* Whatever is killed or fails, the inbox can be read until it is torn, or the daemon is cut
\* off in the middle of a line (InboxStore::add), which is then all that cannot be read.
THEOREM StaysReadable == Spec => []ReadableUntilTorn
<1>1. FileInv => ReadableUntilTorn
  BY DEF FileInv
<1> QED BY <1>1, FileInvariant, PTL

------------------------------------------------------------------------------
(* Unread items, and the refinement of InboxCommands. *)

Views == [u \in Users |-> View(u)]

\* Until the file is torn, what a user renames is what its command makes of what it read.
LEMMA RenameReplaces ==
  ASSUME FileInv, ~torn, NEW u \in Users, Rename(u)
  PROVE  /\ Listed' = Outcome(users[u].cmd, users[u].read)
         /\ \A v \in Users : v # u => users'[v] = users[v]
<1>0. users \in [Users -> UserStates] /\ files \in [Names -> Files \cup {None}]
  BY DEF FileInv, TypeInv, FileTypeOK
<1>1. users[u].pc = "rename" /\ users[u].fd = "tmp"
  BY OwnerHasTmp DEF Rename, FileInv
<1>2. files["tmp"] = File(Outcome(users[u].cmd, users[u].read), FALSE) /\ files["tmp"] # None
  BY <1>1 DEF FileInv, TmpOwned, TypeInv, FileTypeOK, Names
<1>3. files'["inbox"] = files["tmp"]
  <2>1. files["tmp"] # None
    BY <1>2
  <2>2. files' = [inbox |-> files["tmp"], tmp |-> None]
    BY <2>1 DEF Rename
  <2> QED BY <2>2
<1>4. Listed' = Outcome(users[u].cmd, users[u].read)
  BY <1>2, <1>3 DEF Listed, Inbox, File
<1>5. \A v \in Users : v # u => Moved(users[v].fd) = users[v].fd
  <2>1. \A v \in Users : v # u => users[v].fd = None
    BY <1>1 DEF FileInv, TmpOwned
  <2> QED BY <2>1, NoneAssumption DEF Moved, Unlinked, Open
<1>6. \A v \in Users : v # u => users'[v] = [users[v] EXCEPT !.fd = Moved(@)]
  BY <1>2 DEF Rename
<1>7. \A v \in Users : v # u => users'[v] = users[v]
  <2>1. \A v \in Users : users[v] \in UserStates
    BY <1>0
  <2> QED BY <2>1, <1>5, <1>6 DEF UserStates
<1> QED BY <1>4, <1>7

\* Steps that leave the inbox as it is, as far as the commands can see.
LEMMA ListedUnchanged ==
  ASSUME TypeInv, TmpOwned, ~torn, NEW u \in Users,
         List(u) \/ Recount(u) \/ OpenTmp(u) \/ Write(u) \/ WriteFails(u) \/ CutOff(u)
  PROVE  Listed' = Listed
<1>0. files \in [Names -> Files \cup {None}]
  BY DEF TypeInv, FileTypeOK
<1>1. ASSUME files'["inbox"] = files["inbox"] PROVE Listed' = Listed
  BY <1>1 DEF Listed, Inbox
<1>2. CASE Write(u) \/ WriteFails(u)
  <2>1. users[u].fd = "tmp"
    BY <1>2, OwnerHasTmp DEF Write, WriteFails
  <2>2. files'["inbox"] = files["inbox"]
    BY <1>0, <1>2, <2>1 DEF Write, WriteFails, Written, Names
  <2> QED BY <1>1, <2>2
<1>3. CASE List(u) \/ Recount(u) \/ OpenTmp(u) \/ CutOff(u)
  BY <1>0, <1>1, <1>3 DEF List, Recount, OpenTmp, CutOff, Names
<1> QED BY <1>2, <1>3

\* Until the file is torn the daemon adds to what is listed, or changes nothing there.
LEMMA ListedAdd ==
  ASSUME TypeInv, ~torn', (\E k \in Items : AddOpen(k)) \/ AddLine \/ AddNewline \/ AddCutOff
  PROVE  /\ AddLine => Listed' \in {Listed, Listed \cup {Unread(adder.item)}}
         /\ ~AddLine => Listed' = Listed
<1>0. files \in [Names -> Files \cup {None}] /\ adder.fd # "tmp"
  BY DEF TypeInv, FileTypeOK, AdderApart
<1>1. ASSUME files'["inbox"] = files["inbox"] PROVE Listed' = Listed
  BY <1>1 DEF Listed, Inbox
<1>2. ASSUME NEW k \in Items, AddOpen(k) PROVE Listed' = Listed
  BY <1>0, <1>2 DEF AddOpen, Listed, Inbox, Names, Empty, File
<1>3. CASE AddLine
  <2>1. CASE adder.fd = "inbox"
    <3>1. files["inbox"] # None /\ files["inbox"].open = None
      BY <1>3, <2>1 DEF AddLine, Names, TypeInv, FileTypeOK
    <3>2. files'["inbox"] = Appended(files["inbox"], adder.item)
      BY <1>3, <2>1 DEF AddLine, Written, Names
    <3>3. files'["inbox"].entries = files["inbox"].entries \cup {Unread(adder.item)}
      BY <3>1, <3>2 DEF Appended
    <3>4. files'["inbox"] # None
      <4>1. adder.item \in Items /\ files["inbox"] \in Files
        BY <1>0, <1>3, <3>1 DEF AddLine, TypeInv, FileTypeOK, Names
      <4> QED BY <3>2, <4>1, AppendedType, NoneAssumption
    <3> QED BY <1>3, <3>1, <3>3, <3>4 DEF Listed, Inbox
  <2>2. CASE adder.fd # "inbox"
    BY <1>0, <1>1, <1>3, <2>2 DEF AddLine, Names
  <2> QED BY <2>1, <2>2
<1>4. CASE AddNewline
  <2>1. CASE adder.fd = "inbox"
    <3>1. files["inbox"] # None
      BY <1>4, <2>1 DEF AddNewline, Names, TypeInv, FileTypeOK
    <3>2. files'["inbox"] = File(files["inbox"].entries, files["inbox"].garbled)
      BY <1>4, <2>1 DEF AddNewline, Written, Names
    <3>3. files'["inbox"] # None
      <4>1. files["inbox"] \in Files
        BY <1>0, <3>1 DEF Names
      <4> QED BY <3>2, <4>1, FileTypes, NoneAssumption
    <3>4. Listed' = Listed
      BY <3>1, <3>2, <3>3 DEF Listed, Inbox, File
    <3> QED BY <1>4, <3>4 DEF AddNewline, AddLine
  <2>2. CASE adder.fd # "inbox"
    BY <1>0, <1>1, <1>4, <2>2 DEF AddNewline, AddLine, Names
  <2> QED BY <2>1, <2>2
<1>5. CASE AddCutOff
  <2>1. CASE UNCHANGED files
    BY <1>1, <1>5, <2>1 DEF AddCutOff, AddLine, AdderIdle
  <2>2. CASE /\ adder.pc = "line" /\ adder.fd \in Names
             /\ Written(adder.fd, CutShort(files[adder.fd]))
             /\ torn' = (torn \/ files[adder.fd].open # None)
    <3>1. adder.fd = "inbox" /\ files["inbox"] # None /\ files["inbox"].open = None
      BY <1>0, <2>2 DEF Names, TypeInv, FileTypeOK
    <3>2. files["inbox"] \in Files
      BY <1>0, <3>1 DEF Names
    <3>3. files'["inbox"] = CutShort(files["inbox"])
      BY <2>2, <3>1 DEF Written, Names
    <3>4. CutShort(files["inbox"]).entries = files["inbox"].entries /\ CutShort(files["inbox"]) # None
      BY <3>1, <3>2, CutShortType, NoneAssumption DEF CutShort, Files
    <3>5. Listed' = Listed
      BY <3>1, <3>3, <3>4 DEF Listed, Inbox
    <3> QED BY <1>5, <3>5 DEF AddCutOff, AddLine, AdderIdle
  <2> QED BY <1>5, <2>1, <2>2 DEF AddCutOff
<1> QED BY <1>2, <1>3, <1>4, <1>5

\* An unread item vanishes only in the three ways that UnreadSurvives names.
THEOREM UnreadItemsSurvive == Spec => UnreadSurvives
<1>1. ASSUME FileInv, [Next]_vars, NEW k \in Items,
             ~torn' /\ Unread(k) \in Listed /\ Unread(k) \notin Listed'
      PROVE  \E u \in Users : \/ users[u].pc = "remove"
                              \/ users[u].pc = "rename" /\ Unread(k) \notin users[u].read
                              \/ users[u].pc = "rename" /\ users[u].cmd = [op |-> "ack", id |-> k]
  <2>0. TypeInv /\ TmpOwned
    BY <1>1 DEF FileInv
  <2>1. CASE (\E i \in Items : AddOpen(i)) \/ AddLine \/ AddNewline \/ AddCutOff
    <3>1. Listed' = Listed \/ Listed' = Listed \cup {Unread(adder.item)}
      BY <1>1, <2>0, <2>1, ListedAdd
    <3> QED BY <1>1, <3>1
  <2>2. ASSUME NEW u \in Users, User(u)
        PROVE  \/ users[u].pc = "remove"
               \/ users[u].pc = "rename" /\ Unread(k) \notin users[u].read
               \/ users[u].pc = "rename" /\ users[u].cmd = [op |-> "ack", id |-> k]
    <3>1. ~torn
      BY <1>1, <2>2 DEF User, List, Recount, OpenTmp, Write, WriteFails, Rename, Remove, CutOff
    <3>2. CASE Rename(u)
      <4>1. Listed' = Outcome(users[u].cmd, users[u].read) /\ users[u].pc = "rename"
        BY <1>1, <3>1, <3>2, RenameReplaces DEF Rename
      <4>2. users[u].cmd \in Commands /\ users[u].cmd.op # "clear_all"
        BY <2>0, <4>1 DEF TypeInv, FileTypeOK, OnTheWay
      <4>3. CASE Unread(k) \in users[u].read
        <5>1. users[u].cmd.op # "clear"
          BY <1>1, <4>1, <4>3 DEF Outcome, Unread
        <5>2. users[u].cmd.op = "ack" /\ users[u].cmd \in [op : {"ack"}, id : Items]
          BY <4>2, <5>1 DEF Commands
        <5>3. users[u].cmd.id = k
          BY <1>1, <4>1, <4>3, <5>2 DEF Outcome, Unread
        <5> QED BY <4>1, <5>2, <5>3
      <4> QED BY <4>1, <4>3
    <3>3. CASE Remove(u)
      BY <3>3 DEF Remove
    <3>4. CASE List(u) \/ Recount(u) \/ OpenTmp(u) \/ Write(u) \/ WriteFails(u) \/ CutOff(u)
      BY <1>1, <2>0, <3>1, <3>4, ListedUnchanged
    <3> QED BY <2>2, <3>2, <3>3, <3>4 DEF User
  <2>3. CASE UNCHANGED vars
    BY <1>1, <2>3 DEF vars, Listed, Inbox
  <2> QED BY <1>1, <2>1, <2>2, <2>3 DEF Next
<1>2. FileInv /\ [Next]_vars =>
        [\A k \in Items :
           ~torn' /\ Unread(k) \in Listed /\ Unread(k) \notin Listed' =>
             \E u \in Users : \/ users[u].pc = "remove"
                              \/ users[u].pc = "rename" /\ Unread(k) \notin users[u].read
                              \/ users[u].pc = "rename" /\ users[u].cmd = [op |-> "ack", id |-> k]]_vars
  BY <1>1
<1> QED BY <1>2, FileInvariant, PTL DEF Spec, UnreadSurvives

\* An item is unread again only by a command that had read it as unread (acknowledge,
\* clear_acknowledged: list, then write_all).
THEOREM UnreadOnlyOnce == Spec => NothingComesBack
<1>1. ASSUME FileInv, [Next]_vars, NEW k \in added,
             ~torn' /\ Unread(k) \notin Listed /\ Unread(k) \in Listed'
      PROVE  \E u \in Users : users[u].pc = "rename" /\ Unread(k) \in users[u].read
  <2>0. TypeInv /\ TmpOwned
    BY <1>1 DEF FileInv
  <2>1. CASE (\E i \in Items : AddOpen(i)) \/ AddLine \/ AddNewline \/ AddCutOff
    <3>1. AddLine => Listed' \in {Listed, Listed \cup {Unread(adder.item)}}
      BY <1>1, <2>0, <2>1, ListedAdd
    <3>2. ~AddLine => Listed' = Listed
      BY <1>1, <2>0, <2>1, ListedAdd
    <3>3. AddLine => Unread(k) # Unread(adder.item)
      BY <1>1, <2>0 DEF AddLine, TypeInv, AdderApart, Unread
    <3> QED BY <1>1, <3>1, <3>2, <3>3
  <2>2. ASSUME NEW u \in Users, User(u)
        PROVE  users[u].pc = "rename" /\ Unread(k) \in users[u].read
    <3>1. ~torn
      BY <1>1, <2>2 DEF User, List, Recount, OpenTmp, Write, WriteFails, Rename, Remove, CutOff
    <3>2. CASE Rename(u)
      <4>1. Listed' = Outcome(users[u].cmd, users[u].read) /\ users[u].pc = "rename"
        BY <1>1, <3>1, <3>2, RenameReplaces DEF Rename
      <4>2. Unread(k) \in users[u].read
        BY <1>1, <4>1 DEF Outcome, Unread, Acked
      <4> QED BY <4>1, <4>2
    <3>3. CASE Remove(u)
      BY <1>1, <2>0, <3>3 DEF Remove, Listed, Inbox, Empty, File, Names, TypeInv, FileTypeOK
    <3>4. CASE List(u) \/ Recount(u) \/ OpenTmp(u) \/ Write(u) \/ WriteFails(u) \/ CutOff(u)
      BY <1>1, <2>0, <3>1, <3>4, ListedUnchanged
    <3> QED BY <2>2, <3>2, <3>3, <3>4 DEF User
  <2>3. CASE UNCHANGED vars
    BY <1>1, <2>3 DEF vars, Listed, Inbox
  <2> QED BY <1>1, <2>1, <2>2, <2>3 DEF Next
<1>2. FileInv /\ [Next]_vars =>
        [\A k \in added :
           ~torn' /\ Unread(k) \notin Listed /\ Unread(k) \in Listed' =>
             \E u \in Users : users[u].pc = "rename" /\ Unread(k) \in users[u].read]_vars
  BY <1>1
<1> QED BY <1>2, FileInvariant, PTL DEF Spec, NothingComesBack

\* What a step of a user does to the views.
LEMMA ViewsOfUsers ==
  ASSUME NEW u \in Users, \A v \in Users : v # u => View(v)' = View(v)
  PROVE  Views' = [Views EXCEPT ![u] = View(u)']
BY DEF Views

\* A user that is under way has a view, and only such a user.
LEMMA ViewIsNone ==
  ASSUME TypeInv, NEW u \in Users
  PROVE  View(u) = None <=> users[u].pc = "idle"
<1>1. CASE users[u].pc = "idle"
  BY <1>1 DEF View
<1>2. CASE users[u].pc # "idle"
  <2>1. users[u].cmd \in Commands /\ users[u].read \in SUBSET Entries
    BY <1>2, ToWrite
  <2> QED BY <1>2, <2>1, NoneAssumption DEF View
<1> QED BY <1>1, <1>2

\* Every step is a step of InboxCommands, or changes nothing that it speaks of.
LEMMA StepRefines ==
  ASSUME FileInv, [Next]_vars
  PROVE  [Shared!Next]_<<Listed, Views, added, torn>>
<1>0. TypeInv /\ TmpOwned /\ users \in [Users -> UserStates]
  BY DEF FileInv, TypeInv, FileTypeOK
<1>1. CASE torn'
  <2>1. torn' = TRUE
    <3>1. torn' \in BOOLEAN
      BY <1>0, TypeStep DEF TypeInv, FileTypeOK
    <3> QED BY <1>1, <3>1
  <2> QED BY <2>1 DEF Shared!Next
<1>2. CASE ~torn' /\ ((\E k \in Items : AddOpen(k)) \/ AddLine \/ AddNewline \/ AddCutOff)
  <2>1. UNCHANGED <<users, torn>>
    <3>1. UNCHANGED users
      BY <1>2 DEF AddOpen, AddLine, AddNewline, AddCutOff
    <3>2. torn' = torn
      <4>1. ~torn
        BY <1>2 DEF AddOpen, AddLine, AddNewline, AddCutOff
      <4>2. torn \in BOOLEAN /\ torn' \in BOOLEAN
        BY <1>0, TypeStep DEF TypeInv, FileTypeOK
      <4> QED BY <1>2, <4>1, <4>2
    <3> QED BY <3>1, <3>2
  <2>2. Views' = Views
    BY <2>1 DEF Views, View
  <2>3. CASE AddLine
    <3>1. adder.item \in Items /\ adder.item \notin added /\ added' = added \cup {adder.item}
      BY <1>0, <2>3 DEF AddLine, TypeInv, FileTypeOK, AdderApart
    <3>2. Listed' \in {Listed, Listed \cup {Unread(adder.item)}}
      BY <1>0, <1>2, <2>3, ListedAdd
    <3>3. Shared!Add(adder.item)
      BY <2>1, <2>2, <3>1, <3>2 DEF Shared!Add, Shared!Unread, Unread, Views
    <3> QED BY <3>1, <3>3 DEF Shared!Next
  <2>4. CASE ~AddLine
    <3>1. added' = added
      BY <1>2, <2>4 DEF AddOpen, AddNewline, AddCutOff
    <3>2. Listed' = Listed
      BY <1>0, <1>2, <2>4, ListedAdd
    <3> QED BY <2>1, <2>2, <3>1, <3>2
  <2> QED BY <2>3, <2>4
<1>3. ASSUME ~torn', NEW u \in Users, User(u)
      PROVE  [Shared!Next]_<<Listed, Views, added, torn>>
  <2>0. added' = added /\ torn' = torn /\ ~torn
    <3>1. added' = added
      BY <1>3 DEF User, List, Recount, OpenTmp, Write, WriteFails, Rename, Remove, CutOff
    <3>3. ~torn
      BY <1>3 DEF User, List, Recount, OpenTmp, Write, WriteFails, Rename, Remove, CutOff
    <3>2. torn \in BOOLEAN /\ torn' \in BOOLEAN
      BY <1>0, TypeStep DEF TypeInv, FileTypeOK
    <3> QED BY <1>3, <3>1, <3>2, <3>3
  <2>1. ASSUME Listed' = Listed, View(u)' = View(u), \A v \in Users : v # u => users'[v] = users[v]
        PROVE  UNCHANGED <<Listed, Views, added, torn>>
    BY <2>0, <2>1 DEF Views, View
  <2>2. ASSUME Listed' = Listed, View(u)' = None, \A v \in Users : v # u => users'[v] = users[v]
        PROVE  [Shared!Next]_<<Listed, Views, added, torn>>
    <3>1. Views' = [Views EXCEPT ![u] = None]
      BY <2>2, ViewsOfUsers DEF View
    <3>2. Shared!Leave(u)
      BY <2>0, <2>2, <3>1 DEF Shared!Leave, Views
    <3> QED BY <3>2 DEF Shared!Next
  <2>3. CASE List(u)
    <3>1. PICK cmd \in Commands :
            /\ cmd.op = "ack" => \E e \in Listed : e.id = cmd.id
            /\ users' = [users EXCEPT ![u] =
                           [pc |-> AfterList(cmd.op), cmd |-> cmd, read |-> Listed, fd |-> None]]
      BY <2>3 DEF List
    <3>2. Listed' = Listed /\ Views[u] = None
      BY <1>0, <2>0, <2>3, ListedUnchanged, ViewIsNone DEF List, Views
    <3>3. View(u)' = [cmd |-> cmd, read |-> Listed]
      BY <1>0, <3>1 DEF View, AfterList
    <3>4. Views' = [Views EXCEPT ![u] = [cmd |-> cmd, read |-> Listed]]
      BY <1>0, <3>1, <3>3, ViewsOfUsers DEF View
    <3>5. cmd \in Shared!Commands
      BY DEF Shared!Commands, Commands
    <3>6. Shared!Read(u)
      BY <2>0, <3>1, <3>2, <3>4, <3>5 DEF Shared!Read, Views
    <3> QED BY <3>6 DEF Shared!Next
  <2>4. CASE Recount(u)
    <3>1. Listed' = Listed
      BY <1>0, <2>0, <2>4, ListedUnchanged
    <3>2. \A v \in Users : v # u => users'[v] = users[v]
      BY <1>0, <2>4 DEF Recount, Leaves
    <3>3. CASE Leaves(u)
      BY <1>0, <2>2, <3>1, <3>2, <3>3 DEF Leaves, Idle, View
    <3>4. CASE users' = [users EXCEPT ![u].pc = "open"]
      BY <1>0, <2>1, <2>4, <3>1, <3>2, <3>4 DEF View, UserStates, Recount
    <3> QED BY <2>4, <3>3, <3>4 DEF Recount
  <2>5. CASE OpenTmp(u) \/ Write(u)
    <3>1. Listed' = Listed
      BY <1>0, <2>0, <2>5, ListedUnchanged
    <3>2. \A v \in Users : v # u => users'[v] = users[v]
      BY <1>0, <2>5 DEF OpenTmp, Write
    <3>3. View(u)' = View(u)
      BY <1>0, <2>5 DEF OpenTmp, Write, View, UserStates
    <3> QED BY <2>1, <3>1, <3>2, <3>3
  <2>6. CASE WriteFails(u) \/ CutOff(u)
    <3>1. Listed' = Listed
      BY <1>0, <2>0, <2>6, ListedUnchanged
    <3>2. Leaves(u)
      BY <2>6 DEF WriteFails, CutOff
    <3> QED BY <1>0, <2>2, <3>1, <3>2 DEF Leaves, Idle, View
  <2>7. ASSUME Listed' = Outcome(users[u].cmd, users[u].read), users[u].pc # "idle", users'[u].pc = "idle",
               \A v \in Users : v # u => View(v)' = View(v)
        PROVE  [Shared!Next]_<<Listed, Views, added, torn>>
    <3>1. Views[u] = [cmd |-> users[u].cmd, read |-> users[u].read] /\ Views[u] # None
      BY <1>0, <2>7, ViewIsNone DEF Views, View
    <3>2. Views' = [Views EXCEPT ![u] = None]
      <4>1. View(u)' = None
        BY <2>7 DEF View
      <4> QED BY <2>7, <4>1, ViewsOfUsers
    <3>3. Listed' = Shared!Outcome(Views[u].cmd, Views[u].read)
      BY <2>7, <3>1 DEF Outcome, Shared!Outcome, Acked, Shared!Acked
    <3>4. Shared!Replace(u)
      BY <2>0, <3>1, <3>2, <3>3 DEF Shared!Replace, Views
    <3> QED BY <3>4 DEF Shared!Next
  <2>8. CASE Rename(u)
    <3>1. Listed' = Outcome(users[u].cmd, users[u].read) /\ \A v \in Users : v # u => users'[v] = users[v]
      BY <2>0, <2>8, RenameReplaces
    <3>2. users[u].pc # "idle" /\ users'[u].pc = "idle"
      BY <1>0, <2>8 DEF Rename, Leaves, Idle
    <3> QED BY <2>7, <3>1, <3>2 DEF View
  <2>9. CASE Remove(u)
    <3>1. users[u].pc = "remove" /\ users[u].cmd.op = "clear_all"
      BY <1>0, <2>9 DEF Remove, TypeInv, OnTheWay
    <3>2. Outcome(users[u].cmd, users[u].read) = {}
      BY <3>1 DEF Outcome
    <3>3. Listed' = {}
      BY <1>0, <2>9 DEF Remove, Listed, Inbox, Empty, File, Names, TypeInv, FileTypeOK
    <3>4. \A v \in Users : v # u => users'[v] = [users[v] EXCEPT !.fd = Unlinked(@)]
      BY <2>9 DEF Remove
    <3>5. users'[u].pc = "idle"
      <4>1. users'[u] = Idle
        BY <2>9 DEF Remove
      <4> QED BY <4>1 DEF Idle
    <3>6. \A v \in Users : v # u => View(v)' = View(v)
      <4>1. \A v \in Users : v # u => /\ users'[v].pc = users[v].pc /\ users'[v].cmd = users[v].cmd
                                      /\ users'[v].read = users[v].read
        <5>1. ASSUME NEW s \in UserStates, NEW f
              PROVE  LET s2 == [s EXCEPT !.fd = f]
                     IN s2.pc = s.pc /\ s2.cmd = s.cmd /\ s2.read = s.read
          BY DEF UserStates
        <5>2. ASSUME NEW v \in Users, v # u
              PROVE  /\ users'[v].pc = users[v].pc /\ users'[v].cmd = users[v].cmd
                     /\ users'[v].read = users[v].read
          <6>1. users[v] \in UserStates /\ users'[v] = [users[v] EXCEPT !.fd = Unlinked(@)]
            BY <1>0, <3>4, <5>2
          <6> QED BY <5>1, <6>1
        <5> QED BY <5>2
      <4> QED BY <4>1 DEF View
    <3> QED BY <2>7, <3>1, <3>2, <3>3, <3>5, <3>6
  <2> QED BY <1>3, <2>3, <2>4, <2>5, <2>6, <2>8, <2>9 DEF User
<1>4. CASE UNCHANGED vars
  BY <1>4 DEF vars, Views, View, Listed, Inbox
<1> QED BY <1>1, <1>2, <1>3, <1>4 DEF Next

\* The file implements InboxCommands.
THEOREM FileImplementsCommands == Spec => ImplementsInbox
<1>1. Init => Shared!Init
  <2> SUFFICES ASSUME Init PROVE Shared!Init
    OBVIOUS
  <2>1. Listed = {} /\ added = {} /\ torn = FALSE
    BY DEF Init, Listed, Inbox, Empty, File, Names
  <2>2. [u \in Users |-> View(u)] = [u \in Users |-> None]
    BY DEF Init, View, Idle
  <2> QED BY <2>1, <2>2 DEF Shared!Init
<1>2. FileInv /\ [Next]_vars => [Shared!Next]_<<Listed, [u \in Users |-> View(u)], added, torn>>
  BY StepRefines DEF Views
<1> QED BY <1>1, <1>2, FileInvariant, PTL DEF Spec, ImplementsInbox, Shared!Spec

==============================================================================
