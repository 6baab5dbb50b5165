------------------------------ MODULE InboxFile ------------------------------
(***************************************************************************)
(* The inbox of the dormant daemon (inbox.rs): one file of JSON lines, to    *)
(* which the daemon appends and which "pt agent inbox" lists, and rewrites   *)
(* through one temporary name, with no lock.  The calls of the file system   *)
(* are the steps; a command is killed, or fails, between any two of them.    *)
(***************************************************************************)
EXTENDS Integers, FiniteSets

CONSTANTS
  Items,       \* what the daemon adds
  Users,       \* processes that run "agent inbox --ack", "--clear", "--clear-all"
  None,
  Part,        \* the end of a file: a part of a line
  MaxFaults    \* bound: kills and failing writes

VARIABLES
  files,     \* what the names "inbox" and "tmp" lead to, None where there is no file
  adder,     \* the daemon: where it is in add, the item, and its open file
  users,     \* where each user is, its command, what it read, and its open file
  added,     \* the items whose line was written
  torn,      \* history: two commands had "tmp" open, or a line was appended to an unfinished one
  faults

vars == <<files, adder, users, added, torn, faults>>

\* A file has entries, perhaps a line that does not parse ("garbled"), and its end is
\* open if it has no newline: an entry, or a part of a line, which does not parse either.
\* An open file is known by the name that it has now, or is gone.
File(entries, garbled) == [entries |-> entries, open |-> None, garbled |-> garbled]
Empty == File({}, FALSE)
Names == {"inbox", "tmp"}
Idle == [pc |-> "idle", cmd |-> None, read |-> {}, fd |-> None]
AdderIdle == [pc |-> "idle", item |-> None, fd |-> None]

Entries == [id : Items, acked : BOOLEAN]
Commands == [op : {"ack"}, id : Items] \cup [op : {"clear", "clear_all"}, id : {None}]
Unread(k) == [id |-> k, acked |-> FALSE]
Acked(k) == [id |-> k, acked |-> TRUE]

Init ==
  /\ files = [n \in Names |-> None]
  /\ adder = AdderIdle
  /\ users = [u \in Users |-> Idle]
  /\ added = {} /\ torn = FALSE /\ faults = 0

Fault == faults < MaxFaults /\ faults' = faults + 1

\* A write to an open file.
Written(fd, content) == files' = [n \in Names |-> IF n = fd THEN content ELSE files[n]]

\* What a file, and a user, can be; None is none of it.
Files == [entries : SUBSET Entries, open : {None, Part} \cup Entries, garbled : BOOLEAN]
Open == {"inbox", "tmp", "gone"}
UserStates ==
  [pc : {"idle", "recount", "open", "write", "rename", "remove"},
   cmd : Commands \cup {None}, read : SUBSET Entries, fd : Open \cup {None}]

ASSUME FaultsAssumption == MaxFaults \in Nat
ASSUME NoneAssumption ==
  /\ None \notin Files /\ None \notin Open
  /\ None \notin [cmd : Commands, read : SUBSET Entries]
  /\ Part # None /\ Part \notin Entries

------------------------------------------------------------------------------
(* InboxStore::add: the file is opened for appending and made if it is not     *)
(* there; writeln! writes the line and the newline apart.                      *)

\* Slip: the file is truncated.
AddOpenTruncating(k) ==
  /\ adder.pc = "idle" /\ k \notin added
  /\ adder' = [pc |-> "line", item |-> k, fd |-> "inbox"]
  /\ files' = [files EXCEPT !["inbox"] = Empty]
  /\ UNCHANGED <<users, added, torn, faults>>

AddOpen(k) ==
  /\ adder.pc = "idle" /\ k \notin added
  /\ adder' = [pc |-> "line", item |-> k, fd |-> "inbox"]
  /\ files' = [files EXCEPT !["inbox"] = IF @ = None THEN Empty ELSE @]
  /\ UNCHANGED <<users, added, torn, faults>>

\* A line that is appended to an unfinished one spoils both.
Appended(file, k) ==
  IF file.open = None
  THEN [entries |-> file.entries \cup {Unread(k)}, open |-> Unread(k), garbled |-> file.garbled]
  ELSE File(file.entries \ {file.open}, TRUE)

AddLine ==
  /\ adder.pc = "line"
  /\ IF adder.fd \in Names
     THEN /\ Written(adder.fd, Appended(files[adder.fd], adder.item))
          /\ torn' = (torn \/ files[adder.fd].open # None)
     ELSE UNCHANGED <<files, torn>>
  /\ added' = added \cup {adder.item}
  /\ adder' = [adder EXCEPT !.pc = "newline"]
  /\ UNCHANGED <<users, faults>>

AddNewline ==
  /\ adder.pc = "newline"
  /\ IF adder.fd \in Names THEN Written(adder.fd, File(files[adder.fd].entries, files[adder.fd].garbled))
     ELSE UNCHANGED files
  /\ adder' = AdderIdle
  /\ UNCHANGED <<users, added, torn, faults>>

\* What a part of a line leaves; appended to an unfinished one it spoils both.
CutShort(file) ==
  IF file.open = None THEN [file EXCEPT !.open = Part] ELSE File(file.entries \ {file.open}, TRUE)

\* The daemon is killed, or a write fails, perhaps with part of the line written.
AddCutOff ==
  /\ adder.pc # "idle" /\ Fault
  /\ adder' = AdderIdle
  /\ \/ UNCHANGED <<files, torn>>
     \/ /\ adder.pc = "line" /\ adder.fd \in Names
        /\ Written(adder.fd, CutShort(files[adder.fd]))
        /\ torn' = (torn \/ files[adder.fd].open # None)
  /\ UNCHANGED <<users, added>>

------------------------------------------------------------------------------
(* acknowledge, clear_acknowledged, clear_all: list, then rewrite or remove.   *)

\* list: nothing if there is no file, an error if a line does not parse.
Inbox == IF files["inbox"] = None THEN Empty ELSE files["inbox"]
Listed == Inbox.entries
Readable == ~Inbox.garbled /\ Inbox.open # Part

AfterList(op) ==
  IF op = "ack" THEN "open" ELSE IF op = "clear" THEN "recount" ELSE "remove"

List(u) ==
  /\ users[u].pc = "idle" /\ Readable
  /\ \E cmd \in Commands :
       /\ cmd.op = "ack" => \E e \in Listed : e.id = cmd.id
       /\ users' = [users EXCEPT ![u] =
                      [pc |-> AfterList(cmd.op), cmd |-> cmd, read |-> Listed, fd |-> None]]
  /\ UNCHANGED <<files, adder, added, torn, faults>>

Leaves(u) == users' = [users EXCEPT ![u] = Idle]

\* clear_acknowledged lists again to count what it clears.  The difference of the two
\* lengths may be negative: a build with overflow checks ends there, others go on.
Recount(u) ==
  /\ users[u].pc = "recount"
  /\ \/ Readable /\ users' = [users EXCEPT ![u].pc = "open"]
     \/ ~Readable /\ Leaves(u)
     \/ /\ Readable /\ Leaves(u)
        /\ Cardinality(Listed) < Cardinality({e \in users[u].read : ~e.acked})
  /\ UNCHANGED <<files, adder, added, torn, faults>>

\* Slip: the temporary file of a command that was cut off is not truncated.
OpenTmpKept(u) ==
  /\ users[u].pc = "open"
  /\ files' = [files EXCEPT !["tmp"] = IF @ = None THEN Empty ELSE @]
  /\ users' = [users EXCEPT ![u].pc = "write", ![u].fd = "tmp"]
  /\ torn' = (torn \/ \E v \in Users : users[v].fd = "tmp")
  /\ UNCHANGED <<adder, added, faults>>

\* Slip: a temporary file that is there is taken for written.
OpenTmpTrusting(u) ==
  /\ users[u].pc = "open"
  /\ files' = [files EXCEPT !["tmp"] = IF @ = None THEN Empty ELSE @]
  /\ users' = [users EXCEPT ![u].pc = IF files["tmp"] = None THEN "write" ELSE "rename",
                            ![u].fd = "tmp"]
  /\ torn' = (torn \/ \E v \in Users : users[v].fd = "tmp")
  /\ UNCHANGED <<adder, added, faults>>

\* fs::write opens and truncates the temporary file, or makes it, ...
OpenTmp(u) ==
  /\ users[u].pc = "open"
  /\ files' = [files EXCEPT !["tmp"] = Empty]
  /\ users' = [users EXCEPT ![u].pc = "write", ![u].fd = "tmp"]
  /\ torn' = (torn \/ \E v \in Users : users[v].fd = "tmp")
  /\ UNCHANGED <<adder, added, faults>>

\* Slip: clear keeps what it should drop.
OutcomeInverted(cmd, read) ==
  IF cmd.op = "ack" THEN {e \in read : e.id # cmd.id} \cup {Acked(cmd.id)}
  ELSE {e \in read : cmd.op = "clear" /\ e.acked}

\* What the command makes of what it read.
Outcome(cmd, read) ==
  IF cmd.op = "ack" THEN {e \in read : e.id # cmd.id} \cup {Acked(cmd.id)}
  ELSE {e \in read : cmd.op = "clear" /\ ~e.acked}

\* What a write at the start of a file leaves: a tail of what another one put there.
Overlaid(new, old) ==
  IF old = Empty THEN {File(new, FALSE)}
  ELSE {File(new \cup rest, cut) : rest \in SUBSET old.entries, cut \in BOOLEAN}

\* ... and writes it, ...
Write(u) ==
  /\ users[u].pc = "write"
  /\ IF users[u].fd \in Names
     THEN \E content \in Overlaid(Outcome(users[u].cmd, users[u].read), files[users[u].fd]) :
            Written(users[u].fd, content)
     ELSE UNCHANGED files
  /\ users' = [users EXCEPT ![u].pc = "rename"]
  /\ UNCHANGED <<adder, added, torn, faults>>

\* ... or fails and leaves a part.
WriteFails(u) ==
  /\ users[u].pc = "write" /\ Fault
  /\ \E part \in SUBSET Outcome(users[u].cmd, users[u].read), cut \in BOOLEAN :
       Written(users[u].fd, File(part, cut))
  /\ Leaves(u)
  /\ UNCHANGED <<adder, added, torn>>

\* Where an open file is after the inbox was removed, or replaced.
Unlinked(fd) == IF fd = "inbox" THEN "gone" ELSE fd
Moved(fd) == IF fd = "tmp" THEN "inbox" ELSE Unlinked(fd)

\* The file may be gone by now: another user has renamed it.
Rename(u) ==
  /\ users[u].pc = "rename"
  /\ IF files["tmp"] = None THEN Leaves(u) /\ UNCHANGED <<files, adder>>
     ELSE /\ files' = [inbox |-> files["tmp"], tmp |-> None]
          /\ adder' = [adder EXCEPT !.fd = Moved(@)]
          /\ users' = [v \in Users |-> IF v = u THEN Idle ELSE [users[v] EXCEPT !.fd = Moved(@)]]
  /\ UNCHANGED <<added, torn, faults>>

\* clear_all removes the file.
Remove(u) ==
  /\ users[u].pc = "remove"
  /\ files' = [files EXCEPT !["inbox"] = None]
  /\ adder' = [adder EXCEPT !.fd = Unlinked(@)]
  /\ users' = [v \in Users |-> IF v = u THEN Idle ELSE [users[v] EXCEPT !.fd = Unlinked(@)]]
  /\ UNCHANGED <<added, torn, faults>>

\* A command is killed.
CutOff(u) ==
  /\ users[u].pc # "idle" /\ Fault /\ Leaves(u)
  /\ UNCHANGED <<files, adder, added, torn>>

User(u) ==
  \/ List(u) \/ Recount(u) \/ OpenTmp(u) \/ Write(u) \/ WriteFails(u) \/ Rename(u)
  \/ Remove(u) \/ CutOff(u)

Next ==
  \/ (\E k \in Items : AddOpen(k)) \/ AddLine \/ AddNewline \/ AddCutOff
  \/ \E u \in Users : User(u)

Spec == Init /\ [][Next]_vars

------------------------------------------------------------------------------
(* Properties. *)

\* The types of the variables; an open file that still has a name is there.
FileTypeOK ==
  /\ files \in [Names -> Files \cup {None}]
  /\ adder \in [pc : {"idle", "line", "newline"}, item : Items \cup {None}, fd : Open \cup {None}]
  /\ adder.pc # "idle" => adder.item \in Items /\ adder.fd \in Open
  /\ adder.fd \in Names => files[adder.fd] # None
  /\ users \in [Users -> UserStates]
  /\ \A u \in Users :
       /\ users[u].pc # "idle" => users[u].cmd \in Commands
       /\ users[u].pc \in {"write", "rename"} => users[u].fd \in Open
       /\ users[u].fd \in Names => files[users[u].fd] # None
  /\ added \subseteq Items /\ torn \in BOOLEAN /\ faults \in 0..MaxFaults

\* Whatever is killed or fails, and with any number of commands at once, the inbox cannot
\* be read (list, which every command calls) in three cases only: two commands had the
\* temporary file open together; the daemon appended to a line that it, or an earlier
\* daemon, had left unfinished; or, the last disjunct, one daemon was cut off in the middle
\* of its line, which is then the end of an inbox that is whole but for that.
ReadableUntilTorn == torn \/ Readable \/ (Inbox.open = Part /\ ~Inbox.garbled)

\* An item that is not unread any more, acknowledged or cleared, is unread again only by a
\* command that had read it as unread and replaces the file late: never by what an earlier
\* command left under the temporary name, by a later add, or by a line that was cut off.
NothingComesBack ==
  [][\A k \in added :
       ~torn' /\ Unread(k) \notin Listed /\ Unread(k) \in Listed' =>
         \E u \in Users : users[u].pc = "rename" /\ Unread(k) \in users[u].read]_vars

\* An unread item vanishes only by --clear-all, by being acknowledged, or by a command
\* that read the inbox when the item was not there as unread, until the file is torn.
UnreadSurvives ==
  [][\A k \in Items :
       ~torn' /\ Unread(k) \in Listed /\ Unread(k) \notin Listed' =>
         \E u \in Users : \/ users[u].pc = "remove"
                          \/ users[u].pc = "rename" /\ Unread(k) \notin users[u].read
                          \/ users[u].pc = "rename" /\ users[u].cmd = [op |-> "ack", id |-> k]]_vars

\* What a user is about to do: its command and what it read.
View(u) == IF users[u].pc = "idle" THEN None ELSE [cmd |-> users[u].cmd, read |-> users[u].read]

Shared == INSTANCE InboxCommands WITH held <- Listed, view <- [u \in Users |-> View(u)]

\* The file implements InboxCommands: a command acts in one step on what it read in one
\* step, whatever the names and the open files do in between.
ImplementsInbox == Shared!Spec
==============================================================================
