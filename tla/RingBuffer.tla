----------------------------- MODULE RingBuffer -----------------------------
(***************************************************************************)
(* The threads that share one ring buffer (base/src/queues.c): the writers *)
(* that call rbuffer_write and rbuffer_wait_empty, and the readers that    *)
(* loop over rbuffer_read, some work, rbuffer_remove_reference.            *)
(*                                                                         *)
(* A critical section of the mutex is one step, which ends either with the *)
(* unlock or with pthread_cond_wait.  What the code does outside the mutex *)
(* is a step of its own: fetching read_offset, signalling cond after the   *)
(* unlock, loading the data pointer and decrementing the reference count.  *)
(*                                                                         *)
(* Writers and readers wait on the SAME condition variable, cond, and it   *)
(* is signalled, never broadcast: POSIX lets a signal wake any one of the  *)
(* threads blocked on it, and lets a wait return without a signal.         *)
(***************************************************************************)
EXTENDS Queues, FiniteSets

CONSTANTS
  Readers,      \* threads that read the queue; each message has a reference for each
  ByOffset,     \* readers that pass index -1 (ip_loop, the Output Manager)
  Writers,      \* threads that write to the queue
  MaxWritten    \* bound: messages written in a behaviour

ASSUME ReadersAssumption ==
  /\ IsFiniteSet(Readers)
  /\ Cardinality(Readers) \in 1 .. MaxReferences     \* a ref_count of 0 is refused
  /\ Readers \cap Writers = {}
  /\ MaxWritten \in Nat

\* Index -1 means "the oldest message", so it is passed by lone readers only.
ASSUME ByOffsetAssumption ==
  ByOffset \subseteq Readers /\ (ByOffset # {} => Cardinality(Readers) = 1)

Threads == Readers \cup Writers

\* The pointer in a slot that was never written.
Garbage == -1

VARIABLES
  queue,          \* the ring buffer
  pc,             \* where each thread is
  index,          \* the slot each reader works on
  msg,            \* the message each reader got from rbuffer_read
  do_free,        \* the flag each reader passed to rbuffer_remove_reference
  cond,           \* threads blocked on the condition variable cond
  cond_empty,     \* threads blocked on the condition variable cond_empty
  written,        \* history: messages written, numbered from 0
  taken,          \* history: messages each reader has dropped its reference on
  released,       \* history: messages the queue has given up
  freed           \* history: messages whose memory was freed by the queue

vars == <<queue, pc, index, msg, do_free, cond, cond_empty,
          written, taken, released, freed>>

Goto(t, label) == pc' = [pc EXCEPT ![t] = label]

\* pthread_cond_signal wakes one blocked thread, if there is any.
Signal(blocked, blocked_after) ==
  \/ blocked = {} /\ blocked_after = {}
  \/ \E t \in blocked : blocked_after = blocked \ {t}

Init ==
  /\ queue = rbuffer_init(Garbage)
  /\ pc = [t \in Threads |-> IF t \in Readers THEN "start" ELSE "idle"]
  /\ index = [r \in Readers |-> 0]
  /\ msg = [r \in Readers |-> Garbage]
  /\ do_free = [r \in Readers |-> FALSE]
  /\ cond = {}
  /\ cond_empty = {}
  /\ written = 0
  /\ taken = [r \in Readers |-> 0]
  /\ released = 0
  /\ freed = {}

-----------------------------------------------------------------------------
(* rbuffer_write and rbuffer_wait_empty *)

CallWrite(w) ==
  /\ pc[w] = "idle"
  /\ written < MaxWritten
  /\ Goto(w, "write")
  /\ UNCHANGED <<queue, index, msg, do_free, cond, cond_empty,
                 written, taken, released, freed>>

\* rbuffer_write finds no room: pthread_cond_wait(cond).
WaitForRoom(w) ==
  /\ pc[w] = "write" /\ w \notin cond
  /\ Full(queue)
  /\ cond' = cond \cup {w}
  /\ UNCHANGED <<queue, pc, index, msg, do_free, cond_empty,
                 written, taken, released, freed>>

\* rbuffer_write stores the record, signals cond and unlocks.
Write(w) ==
  /\ pc[w] = "write" /\ w \notin cond
  /\ ~Full(queue)
  /\ queue' = Enqueue(queue, written, Cardinality(Readers))
  /\ written' = written + 1
  /\ Signal(cond, cond')
  /\ Goto(w, "idle")
  /\ UNCHANGED <<index, msg, do_free, cond_empty, taken, released, freed>>

CallWaitEmpty(w) ==
  /\ pc[w] = "idle"
  /\ Goto(w, "wait_empty")
  /\ UNCHANGED <<queue, index, msg, do_free, cond, cond_empty,
                 written, taken, released, freed>>

WaitForEmpty(w) ==
  /\ pc[w] = "wait_empty" /\ w \notin cond_empty
  /\ queue.count > 0
  /\ cond_empty' = cond_empty \cup {w}
  /\ UNCHANGED <<queue, pc, index, msg, do_free, cond,
                 written, taken, released, freed>>

\* Mutant: "if" in place of "while" around pthread_cond_wait.
ReturnWaitEmpty_NoRecheck(w) ==
  /\ pc[w] = "wait_empty" /\ w \notin cond_empty
  /\ Goto(w, "idle")
  /\ UNCHANGED <<queue, index, msg, do_free, cond, cond_empty,
                 written, taken, released, freed>>

ReturnWaitEmpty(w) ==
  /\ pc[w] = "wait_empty" /\ w \notin cond_empty
  /\ queue.count = 0
  /\ Goto(w, "idle")
  /\ UNCHANGED <<queue, index, msg, do_free, cond, cond_empty,
                 written, taken, released, freed>>

-----------------------------------------------------------------------------
(* rbuffer_read *)

\* Before the lock: index -1 is replaced by the current read_offset.
ChooseIndex(r) ==
  /\ pc[r] = "start"
  /\ index' = IF r \in ByOffset THEN [index EXCEPT ![r] = queue.read_offset]
                                ELSE index
  /\ Goto(r, "read")
  /\ UNCHANGED <<queue, msg, do_free, cond, cond_empty,
                 written, taken, released, freed>>

WaitForData(r) ==
  /\ pc[r] = "read" /\ r \notin cond
  /\ NoDataAt(queue, index[r])
  /\ cond' = cond \cup {r}
  /\ UNCHANGED <<queue, pc, index, msg, do_free, cond_empty,
                 written, taken, released, freed>>

SeeData(r) ==
  /\ pc[r] = "read" /\ r \notin cond
  /\ ~NoDataAt(queue, index[r])
  /\ Goto(r, "wake")
  /\ UNCHANGED <<queue, index, msg, do_free, cond, cond_empty,
                 written, taken, released, freed>>

\* After the unlock: wake another thread that waits for data.
WakeReader(r) ==
  /\ pc[r] = "wake"
  /\ Signal(cond, cond')
  /\ Goto(r, "fetch")
  /\ UNCHANGED <<queue, index, msg, do_free, cond_empty,
                 written, taken, released, freed>>

\* The pointer is loaded without the mutex.
Fetch(r) ==
  /\ pc[r] = "fetch"
  /\ msg' = [msg EXCEPT ![r] = queue.data[index[r]]]
  /\ Goto(r, "work")
  /\ UNCHANGED <<queue, index, do_free, cond, cond_empty,
                 written, taken, released, freed>>

-----------------------------------------------------------------------------
(* rbuffer_remove_reference *)

\* A lone reader either passes the message on (0) or has it freed (1);
\* readers that share a queue all have it freed.
FreeFlags == IF Cardinality(Readers) = 1 THEN BOOLEAN ELSE {TRUE}

\* The atomic decrement, before the lock.  A counter that was 0 already
\* makes the call return an error at once.
DropReference(r) ==
  /\ pc[r] = "work"
  /\ \E flag \in FreeFlags : do_free' = [do_free EXCEPT ![r] = flag]
  /\ queue' = Unreference(queue, index[r])
  /\ taken' = [taken EXCEPT ![r] = @ + 1]
  /\ Goto(r, IF queue.data_references[index[r]] = 0 THEN "next" ELSE "release")
  /\ UNCHANGED <<index, msg, cond, cond_empty, written, released, freed>>

\* The oldest message still has readers: nothing more to do.
KeepOldest(r) ==
  /\ pc[r] = "release"
  /\ queue.data_references[queue.read_offset] # 0
  /\ Goto(r, "next")
  /\ UNCHANGED <<queue, index, msg, do_free, cond, cond_empty,
                 written, taken, released, freed>>

\* Give up every message at the tail that nobody references any more, and
\* signal cond_empty when that was the last one.
ReleaseOldest(r) ==
  /\ pc[r] = "release"
  /\ queue.data_references[queue.read_offset] = 0
  /\ \E n \in 0 .. queue.count :
       /\ Releasable(queue, n)
       /\ queue' = Release(queue, n)
       /\ released' = released + n
       /\ freed' = IF do_free[r] THEN freed \cup Oldest(queue, n) ELSE freed
       /\ IF n > 0 /\ n = queue.count THEN Signal(cond_empty, cond_empty')
                                      ELSE UNCHANGED cond_empty
  /\ Goto(r, "notify")
  /\ UNCHANGED <<index, msg, do_free, cond, written, taken>>

\* After the unlock: the writer may have room now.
NotifyRoom(r) ==
  /\ pc[r] = "notify"
  /\ Signal(cond, cond')
  /\ Goto(r, "next")
  /\ UNCHANGED <<queue, index, msg, do_free, cond_empty,
                 written, taken, released, freed>>

\* The reader moves on to the next slot.
Advance(r) ==
  /\ pc[r] = "next"
  /\ index' = [index EXCEPT ![r] = (@ + 1) % QueueSize]
  /\ msg' = [msg EXCEPT ![r] = Garbage]
  /\ do_free' = [do_free EXCEPT ![r] = FALSE]
  /\ Goto(r, "start")
  /\ UNCHANGED <<queue, cond, cond_empty, written, taken, released, freed>>

-----------------------------------------------------------------------------
\* pthread_cond_wait may return although nobody signalled.
SpuriousWakeup(t) ==
  /\ \/ t \in cond /\ cond' = cond \ {t} /\ UNCHANGED cond_empty
     \/ t \in cond_empty /\ cond_empty' = cond_empty \ {t} /\ UNCHANGED cond
  /\ UNCHANGED <<queue, pc, index, msg, do_free, written, taken, released, freed>>

WriterStep(w) ==
  \/ WaitForRoom(w) \/ Write(w) \/ WaitForEmpty(w) \/ ReturnWaitEmpty(w)

ReaderStep(r) ==
  \/ ChooseIndex(r) \/ WaitForData(r) \/ SeeData(r) \/ WakeReader(r)
  \/ Fetch(r) \/ DropReference(r) \/ KeepOldest(r) \/ ReleaseOldest(r)
  \/ NotifyRoom(r) \/ Advance(r)

Next ==
  \/ \E w \in Writers : CallWrite(w) \/ CallWaitEmpty(w) \/ WriterStep(w)
  \/ \E r \in Readers : ReaderStep(r)
  \/ \E t \in Threads : SpuriousWakeup(t)

Spec == Init /\ [][Next]_vars

\* A thread inside a call keeps running and is not starved at the mutex;
\* nothing forces a new call, and nothing forces a spurious wake-up.
Fairness ==
  /\ \A w \in Writers : WF_vars(WriterStep(w))
  /\ \A r \in Readers : WF_vars(ReaderStep(r))

FairSpec == Spec /\ Fairness

-----------------------------------------------------------------------------
WriterLabels == {"idle", "write", "wait_empty"}
ReaderLabels == {"start", "read", "wake", "fetch", "work", "release",
                 "notify", "next"}

TypeOK ==
  /\ queue \in RingBuffers(Nat \cup {Garbage})
  /\ pc \in [Threads -> WriterLabels \cup ReaderLabels]
  /\ \A w \in Writers : pc[w] \in WriterLabels
  /\ \A r \in Readers : pc[r] \in ReaderLabels
  /\ index \in [Readers -> Slots]
  /\ msg \in [Readers -> Nat \cup {Garbage}]
  /\ do_free \in [Readers -> BOOLEAN]
  /\ cond \subseteq Threads
  /\ cond_empty \subseteq Writers
  /\ written \in Nat
  /\ taken \in [Readers -> Nat]
  /\ released \in Nat
  /\ freed \subseteq Nat

\* A reader at work on a message has the next message in the order of
\* writing: rbuffer_read, which loads the pointer after it gave the mutex
\* back, never returns a message twice, skips one, or returns a slot that was
\* already overwritten or not written yet.
ReadsInOrder ==
  \A r \in Readers : pc[r] = "work" => msg[r] = taken[r]

\* The memory of a message is freed only after every reader dropped its
\* reference to it, although the decrement happens before the mutex is taken
\* and any reader may be the one that frees.
FreedAfterLastReader ==
  \A m \in freed : \A r \in Readers : m < taken[r]

\* The error path of rbuffer_remove_reference is never taken: a reader that
\* follows the protocol always finds its reference still counted.
ReferenceCounted ==
  \A r \in Readers : pc[r] = "work" => queue.data_references[index[r]] > 0

\* Nothing stays behind: when no reader is between its decrement and the end
\* of rbuffer_remove_reference, every message that all readers are done with
\* has been given up, whichever reader was last.
NothingLeftBehind ==
  (\A r \in Readers : pc[r] # "release") =>
    (released < written => \E r \in Readers : taken[r] <= released)

\* rbuffer_wait_empty returns only when every message written so far was
\* dropped by every reader.
DrainedWhenWaitEmptyReturns ==
  [][\A w \in Writers :
       pc[w] = "wait_empty" /\ pc'[w] = "idle" =>
         \A r \in Readers : taken[r] = written]_vars

\* No message is freed twice.
FreedOnce ==
  [][\A n \in 1 .. QueueSize :
       released' = released + n /\ freed' # freed =>
         Oldest(queue, n) \cap freed = {}]_vars

\* The ring buffer implements a bounded broadcast queue.
Abstract == INSTANCE BroadcastQueue WITH Capacity <- QueueSize - 1
ImplementsBroadcastQueue == Abstract!Spec

\* A writer inside rbuffer_write gets its message into the queue: the wake-up
\* it waits for is not lost to another thread.
WriteCompletes ==
  \A w \in Writers : (pc[w] = "write") ~> (pc[w] = "idle")

\* Every message is eventually dropped by every reader.
MessagesConsumed ==
  \A r \in Readers : \A m \in 0 .. MaxWritten - 1 :
    (m < written) ~> (m < taken[r])

\* rbuffer_wait_empty returns: cond_empty is signalled when the queue drains.
WaitEmptyReturns ==
  \A w \in Writers : (pc[w] = "wait_empty") ~> (pc[w] = "idle")

=============================================================================
