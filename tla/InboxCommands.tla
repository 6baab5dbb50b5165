---------------------------- MODULE InboxCommands ----------------------------
(* What the inbox promises to the commands that share it without a lock: each    *)
(* reads the items once, and its answer replaces all of them later, whatever was  *)
(* done in between; the daemon adds items, and an add may be lost.                *)
(* Nothing is promised once the file was torn (see InboxFile).                    *)
EXTENDS FiniteSets

CONSTANTS Items, Users, None

VARIABLES
  held,      \* the entries [id, acked] that a reader finds
  view,      \* of each user: the command it runs and what it has read, or None
  added,     \* the items that were added
  torn

Unread(k) == [id |-> k, acked |-> FALSE]
Acked(k) == [id |-> k, acked |-> TRUE]
Entries == [id : Items, acked : BOOLEAN]
Commands == [op : {"ack"}, id : Items] \cup [op : {"clear", "clear_all"}, id : {None}]

\* What a command makes of the entries that it read.
Outcome(cmd, read) ==
  IF cmd.op = "ack" THEN {e \in read : e.id # cmd.id} \cup {Acked(cmd.id)}
  ELSE {e \in read : cmd.op = "clear" /\ ~e.acked}

Init ==
  /\ held = {} /\ added = {} /\ torn = FALSE
  /\ view = [u \in Users |-> None]

Add(k) ==
  /\ k \notin added /\ added' = added \cup {k}
  /\ held' \in {held, held \cup {Unread(k)}}
  /\ UNCHANGED <<view, torn>>

Read(u) ==
  /\ view[u] = None
  /\ \E cmd \in Commands :
       /\ cmd.op = "ack" => \E e \in held : e.id = cmd.id
       /\ view' = [view EXCEPT ![u] = [cmd |-> cmd, read |-> held]]
  /\ UNCHANGED <<held, added, torn>>

Replace(u) ==
  /\ view[u] # None
  /\ held' = Outcome(view[u].cmd, view[u].read)
  /\ view' = [view EXCEPT ![u] = None]
  /\ UNCHANGED <<added, torn>>

Leave(u) ==
  /\ view' = [view EXCEPT ![u] = None]
  /\ UNCHANGED <<held, added, torn>>

Next ==
  \/ torn' = TRUE
  \/ (\E k \in Items : Add(k)) \/ (\E u \in Users : Read(u) \/ Replace(u) \/ Leave(u))

Spec == Init /\ [][Next]_<<held, view, added, torn>>
==============================================================================
