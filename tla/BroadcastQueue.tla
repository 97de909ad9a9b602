--------------------------- MODULE BroadcastQueue ---------------------------
(***************************************************************************)
(* What the ring buffer of base/src/queues.c promises to its users: a      *)
(* bounded queue whose every message goes to every reader, in the order of *)
(* writing, and whose messages are given up only after every reader is     *)
(* done with them.  Messages are numbered by the order of writing.         *)
(***************************************************************************)
EXTENDS Integers

CONSTANTS Readers, Capacity

VARIABLES written,    \* messages written so far
          taken,      \* messages each reader is done with
          released    \* messages given up by the queue

vars == <<written, taken, released>>

Init ==
  /\ written = 0
  /\ taken = [r \in Readers |-> 0]
  /\ released = 0

Put ==
  /\ written - released < Capacity
  /\ written' = written + 1
  /\ UNCHANGED <<taken, released>>

Take(r) ==
  /\ taken[r] < written
  /\ taken' = [taken EXCEPT ![r] = @ + 1]
  /\ UNCHANGED <<written, released>>

GiveUp ==
  /\ released' \in released .. written
  /\ \A r \in Readers : released' <= taken[r]
  /\ UNCHANGED <<written, taken>>

Next == Put \/ (\E r \in Readers : Take(r)) \/ GiveUp

Spec == Init /\ [][Next]_vars

=============================================================================
