------------------------------- MODULE Queues -------------------------------
(***************************************************************************)
(* The ring buffer of base/src/queues.c as a value: what the statements    *)
(* that run under its mutex compute.  Every queue of the collector is one  *)
(* of these (preprocessor output, the queue behind each intermediate       *)
(* plugin, the store queue of each Data Manager); the modules that use it  *)
(* add the threads.                                                        *)
(***************************************************************************)
EXTENDS Integers

CONSTANTS
  QueueSize,       \* size of the ring buffer, the number of slots
  MaxReferences    \* bound: largest reference count (2^32 - 1 in the code)

\* rbuffer_init refuses 0; with 1 slot rbuffer_write can never return,
\* because it keeps one slot free.
ASSUME QueueSizeAssumption == QueueSize \in Nat /\ QueueSize >= 2

ASSUME MaxReferencesAssumption == MaxReferences \in Nat

Slots == 0 .. QueueSize - 1

(***************************************************************************)
(* struct ring_buffer without its mutex and condition variables.           *)
(***************************************************************************)
RingBuffers(Record) ==
  [ read_offset     : Slots,
    write_offset    : Slots,
    count           : 0 .. QueueSize,
    data            : [Slots -> Record],
    data_references : [Slots -> 0 .. MaxReferences] ]

\* data comes from malloc, so its slots hold some garbage; data_references
\* comes from calloc.
rbuffer_init(garbage) ==
  [ read_offset     |-> 0,
    write_offset    |-> 0,
    count           |-> 0,
    data            |-> [i \in Slots |-> garbage],
    data_references |-> [i \in Slots |-> 0] ]

\* Mutant: the slot that must stay free is used.
Full_NoSpareSlot(q) == q.count >= QueueSize

\* The condition a writer waits on: one slot always stays free.
Full(q) == q.count + 1 >= QueueSize

\* The condition a reader of slot i waits on.
NoDataAt(q, i) == q.write_offset = i

\* Mutant: one reader is not counted.
Enqueue_OneReaderShort(q, record, ref_count) ==
  [ q EXCEPT !.data[q.write_offset]            = record,
             !.data_references[q.write_offset] = ref_count - 1,
             !.write_offset                    = (@ + 1) % QueueSize,
             !.count                           = @ + 1 ]

\* What rbuffer_write stores once there is room.
Enqueue(q, record, ref_count) ==
  [ q EXCEPT !.data[q.write_offset]            = record,
             !.data_references[q.write_offset] = ref_count,
             !.write_offset                    = (@ + 1) % QueueSize,
             !.count                           = @ + 1 ]

\* __sync_fetch_and_sub on an unsigned counter: 0 wraps around.
Unreference(q, i) ==
  [ q EXCEPT !.data_references[i] = IF @ = 0 THEN MaxReferences ELSE @ - 1 ]

\* The slot n places after the oldest one.
SlotAt(q, n) == (q.read_offset + n) % QueueSize

\* Mutant: the loop tests the reference count of the first slot only.
Releasable_FirstCountOnly(q, n) == n = q.count

\* Mutant: the loop runs while count > 1.
Releasable_LeavesOne(q, n) ==
  /\ n = 0 \/ n < q.count
  /\ \A j \in 0 .. n - 1 : q.data_references[SlotAt(q, j)] = 0
  /\ n + 1 < q.count => q.data_references[SlotAt(q, n)] # 0

\* The loop of rbuffer_remove_reference stops after n slots: the n oldest
\* ones have no reference left and the next one, if any, has.
Releasable(q, n) ==
  /\ \A j \in 0 .. n - 1 : q.data_references[SlotAt(q, j)] = 0
  /\ n < q.count => q.data_references[SlotAt(q, n)] # 0

\* What is in the n oldest slots.
Oldest(q, n) == {q.data[SlotAt(q, j)] : j \in 0 .. n - 1}

\* The queue gives its n oldest slots up.
Release(q, n) ==
  [ q EXCEPT !.read_offset = SlotAt(q, n),
             !.count       = @ - n ]

=============================================================================
