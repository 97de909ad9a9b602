-------------------------- MODULE RingBufferProofs --------------------------
(***************************************************************************)
(* The safety properties of RingBuffer, proved for every size of the       *)
(* queue, every finite set of readers, any writers and any number of       *)
(* messages.                                                               *)
(***************************************************************************)
EXTENDS RingBuffer, FiniteSetTheorems, TLAPS

\* How many places after slot o slot i is.
DistanceFrom(o, i) == IF i >= o THEN i - o ELSE i - o + QueueSize

\* How many places after the oldest slot slot i is.
Distance(i) == DistanceFrom(queue.read_offset, i)

\* The readers that still hold a reference on message m.
Holders(m) == {r \in Readers : taken[r] <= m}

\* The counters of the queue agree with the history.
CountsInv ==
  /\ queue.count = written - released
  /\ queue.count < QueueSize
  /\ Distance(queue.write_offset) = queue.count
  /\ \A r \in Readers : released <= taken[r] /\ taken[r] <= written

\* The slots in use hold the messages not given up yet, oldest first, each
\* with one reference for every reader that is not done with it.
SlotsInv ==
  \A i \in Slots : Distance(i) < queue.count =>
    /\ queue.data[i] = released + Distance(i)
    /\ queue.data_references[i] = Cardinality(Holders(released + Distance(i)))

\* A reader before its decrement points at the message it reads next, one
\* after its decrement just before that place.
IndexInv ==
  \A r \in Readers :
    /\ pc[r] \in {"read", "wake", "fetch", "work"} =>
         Distance(index[r]) = taken[r] - released
    /\ pc[r] = "start" /\ r \notin ByOffset =>
         Distance(index[r]) = taken[r] - released
    /\ pc[r] \in {"release", "notify", "next"} =>
         Distance((index[r] + 1) % QueueSize) = taken[r] - released

ReaderInv ==
  \A r \in Readers :
    /\ pc[r] \in {"wake", "fetch", "work"} => taken[r] < written
    /\ pc[r] = "work" => msg[r] = taken[r]

FreedInv == \A m \in freed : m \in Nat /\ m < released

\* The inductive invariant.
IInv ==
  /\ TypeOK
  /\ CountsInv
  /\ SlotsInv
  /\ IndexInv
  /\ ReaderInv
  /\ FreedInv
  /\ NothingLeftBehind

-----------------------------------------------------------------------------
(* Arithmetic of the offsets *)

\* Moving an offset by one: the only case that wraps is the last slot.
LEMMA WrapOne ==
  ASSUME NEW x \in Slots
  PROVE  (x + 1) % QueueSize = IF x + 1 = QueueSize THEN 0 ELSE x + 1
BY QueueSizeAssumption DEF Slots

\* Moving an offset by less than the size wraps at most once.
LEMMA WrapMany ==
  ASSUME NEW x \in Slots, NEW n \in 0 .. QueueSize - 1
  PROVE  (x + n) % QueueSize = IF x + n < QueueSize THEN x + n
                                                    ELSE x + n - QueueSize
BY QueueSizeAssumption DEF Slots

\* The n-th slot after the oldest one is the slot at distance n.
LEMMA SlotAtDistance ==
  ASSUME TypeOK, NEW n \in 0 .. QueueSize - 1
  PROVE  SlotAt(queue, n) \in Slots /\ Distance(SlotAt(queue, n)) = n
<1>1. queue.read_offset \in Slots
  BY DEF TypeOK, RingBuffers
<1>2. SlotAt(queue, n) = IF queue.read_offset + n < QueueSize
                         THEN queue.read_offset + n
                         ELSE queue.read_offset + n - QueueSize
  BY <1>1, WrapMany DEF SlotAt
<1> QED
  BY <1>1, <1>2, QueueSizeAssumption DEF Distance, DistanceFrom, Slots

\* A distance is a number of slots, and no two slots are at the same one.
LEMMA DistanceInjective ==
  ASSUME TypeOK
  PROVE  /\ \A i \in Slots : Distance(i) \in 0 .. QueueSize - 1
         /\ \A i, j \in Slots : Distance(i) = Distance(j) => i = j
<1>1. queue.read_offset \in Slots
  BY DEF TypeOK, RingBuffers
<1> QED
  BY <1>1, QueueSizeAssumption DEF Distance, DistanceFrom, Slots

\* The slot after one at distance d is at distance d + 1.
LEMMA NextDistance ==
  ASSUME TypeOK, NEW i \in Slots, Distance(i) + 1 < QueueSize
  PROVE  /\ (i + 1) % QueueSize \in Slots
         /\ Distance((i + 1) % QueueSize) = Distance(i) + 1
<1>1. queue.read_offset \in Slots
  BY DEF TypeOK, RingBuffers
<1>2. (i + 1) % QueueSize = IF i + 1 = QueueSize THEN 0 ELSE i + 1
  BY WrapOne
<1> QED
  BY <1>1, <1>2, QueueSizeAssumption DEF Distance, DistanceFrom, Slots

-----------------------------------------------------------------------------
(* Reference counts *)

\* The holders of a message are finitely many, and their number is a
\* reference count the queue can store.
LEMMA HoldersFinite ==
  ASSUME NEW m
  PROVE  /\ IsFiniteSet(Holders(m))
         /\ Cardinality(Holders(m)) \in Nat
         /\ Cardinality(Holders(m)) = 0 <=> Holders(m) = {}
<1>1. Holders(m) \subseteq Readers
  BY DEF Holders
<1>2. IsFiniteSet(Holders(m))
  BY <1>1, FS_Subset, ReadersAssumption
<1> QED
  BY <1>2, FS_CardinalityType, FS_EmptySet

\* A slot without references holds a message that every reader is done with.
LEMMA NoReferenceNoHolder ==
  ASSUME TypeOK, SlotsInv, NEW i \in Slots, Distance(i) < queue.count,
         queue.data_references[i] = 0
  PROVE  \A r \in Readers : taken[r] > released + Distance(i)
<1>1. Holders(released + Distance(i)) = {}
  BY HoldersFinite DEF SlotsInv
<1>2. released + Distance(i) \in Int
  BY DistanceInjective, QueueSizeAssumption DEF TypeOK
<1>3. \A r \in Readers : taken[r] \in Int
  BY DEF TypeOK
<1> QED
  BY <1>1, <1>2, <1>3 DEF Holders

\* A slot with references holds a message that some reader is not done with.
LEMMA ReferenceHolder ==
  ASSUME TypeOK, SlotsInv, NEW i \in Slots, Distance(i) < queue.count,
         queue.data_references[i] # 0
  PROVE  \E r \in Readers : taken[r] <= released + Distance(i)
<1>1. Holders(released + Distance(i)) # {}
  BY HoldersFinite DEF SlotsInv
<1> QED
  BY <1>1 DEF Holders

-----------------------------------------------------------------------------
(* The invariant holds initially and is preserved *)

\* The invariant holds in the state that rbuffer_init leaves.
LEMMA InitIInv == Init => IInv
<1> SUFFICES ASSUME Init PROVE IInv
  OBVIOUS
<1>1. TypeOK
  BY QueueSizeAssumption, MaxReferencesAssumption, ReadersAssumption
  DEF Init, TypeOK, RingBuffers, rbuffer_init, Slots, Garbage, Threads,
      WriterLabels, ReaderLabels
<1>2. CountsInv /\ SlotsInv /\ IndexInv
  BY QueueSizeAssumption
  DEF Init, rbuffer_init, CountsInv, SlotsInv, IndexInv, Distance, DistanceFrom, Slots, Threads
<1>3. ReaderInv /\ FreedInv /\ NothingLeftBehind
  BY DEF Init, ReaderInv, FreedInv, NothingLeftBehind, Threads
<1> QED
  BY <1>1, <1>2, <1>3 DEF IInv

\* A step that leaves the queue and the history alone leaves the parts of the
\* invariant about them alone.
LEMMA QueueFrame ==
  ASSUME IInv, UNCHANGED <<queue, written, taken, released, freed>>
  PROVE  CountsInv' /\ SlotsInv' /\ FreedInv'
BY DEF IInv, CountsInv, SlotsInv, FreedInv, Distance, Holders

\* rbuffer_write: the new message is the youngest, and every reader holds it.
LEMMA WriteStep ==
  ASSUME IInv, NEW w \in Writers, Write(w)
  PROVE  IInv'
<1> USE DEF IInv
<1>1. w \notin Readers
  BY ReadersAssumption
<1>2. ~(queue.count + 1 >= QueueSize)
  BY DEF Write, Full
<1>3. /\ queue.write_offset \in Slots
      /\ (queue.write_offset + 1) % QueueSize \in Slots
      /\ Distance((queue.write_offset + 1) % QueueSize) = queue.count + 1
  <2>1. queue.write_offset \in Slots /\ queue.count \in Nat
    BY QueueSizeAssumption DEF TypeOK, RingBuffers
  <2>2. Distance(queue.write_offset) + 1 < QueueSize
    BY <1>2, <2>1, QueueSizeAssumption DEF CountsInv
  <2> QED
    BY <2>1, <2>2, NextDistance DEF CountsInv
<1>4. queue' = Enqueue(queue, written, Cardinality(Readers))
  BY DEF Write
<1>5. TypeOK'
  <2>1. queue' \in RingBuffers(Nat \cup {Garbage})
    <3>1. written \in Nat /\ Cardinality(Readers) \in 0 .. MaxReferences
      BY ReadersAssumption, MaxReferencesAssumption DEF TypeOK
    <3>2. queue.count + 1 \in 0 .. QueueSize
      BY <1>2, QueueSizeAssumption DEF TypeOK, RingBuffers
    <3> QED
      BY <3>1, <3>2, <1>3, <1>4 DEF TypeOK, RingBuffers, Enqueue
  <2>2. pc' = [pc EXCEPT ![w] = "idle"]
    BY DEF Write, Goto
  <2>3. cond' \subseteq cond
    BY DEF Write, Signal
  <2> QED
    BY <2>1, <2>2, <2>3, <1>1 DEF Write, TypeOK, WriterLabels, Threads
<1>6. /\ queue'.read_offset = queue.read_offset
      /\ queue'.write_offset = (queue.write_offset + 1) % QueueSize
      /\ queue'.count = queue.count + 1
      /\ queue'.data = [queue.data EXCEPT ![queue.write_offset] = written]
      /\ queue'.data_references =
           [queue.data_references EXCEPT ![queue.write_offset] = Cardinality(Readers)]
  BY <1>4 DEF TypeOK, RingBuffers, Enqueue
<1>7. \A i : Distance(i)' = Distance(i)
  BY <1>6 DEF Distance
<1>8. CountsInv'
  BY <1>2, <1>3, <1>6, <1>7, QueueSizeAssumption
  DEF CountsInv, Write, TypeOK, Distance, RingBuffers
<1>9. SlotsInv'
  <2> SUFFICES ASSUME NEW i \in Slots, Distance(i) < queue.count + 1
               PROVE  /\ queue'.data[i] = released + Distance(i)
                      /\ queue'.data_references[i]
                           = Cardinality(Holders(released + Distance(i)))
    BY <1>6, <1>7 DEF SlotsInv, Write, Holders
  <2>1. CASE i = queue.write_offset
    <3>1. released + Distance(i) = written
      BY <2>1 DEF CountsInv, TypeOK
    <3>2. Holders(written) = Readers
      BY DEF CountsInv, Holders
    <3> QED
      BY <2>1, <3>1, <3>2, <1>3, <1>6 DEF TypeOK, RingBuffers
  <2>2. CASE i # queue.write_offset
    <3>1. Distance(i) # queue.count
      BY <2>2, <1>3, DistanceInjective DEF CountsInv
    <3>2. Distance(i) \in Int /\ queue.count \in Int
      BY DistanceInjective, QueueSizeAssumption DEF TypeOK, RingBuffers
    <3>3. Distance(i) < queue.count
      BY <3>1, <3>2
    <3> QED
      BY <2>2, <3>3, <1>3, <1>6 DEF SlotsInv, TypeOK, RingBuffers
  <2> QED
    BY <2>1, <2>2
<1>10. IndexInv' /\ ReaderInv' /\ FreedInv'
  BY <1>1, <1>6, <1>7
  DEF IndexInv, ReaderInv, FreedInv, Write, Goto, TypeOK
<1>11. NothingLeftBehind'
  <2>1. \A r \in Readers : pc'[r] = pc[r]
    BY <1>1 DEF Write, Goto, TypeOK
  <2>2. Readers # {}
    BY ReadersAssumption, FS_EmptySet
  <2> QED
    BY <2>1, <2>2 DEF NothingLeftBehind, CountsInv, Write, TypeOK
<1> QED
  BY <1>5, <1>8, <1>9, <1>10, <1>11

\* The other steps of the writers, and spurious wake-ups, change neither the
\* queue nor a reader.
LEMMA WriterFrame ==
  ASSUME IInv,
         \/ \E w \in Writers : \/ CallWrite(w) \/ CallWaitEmpty(w)
                               \/ WaitForRoom(w) \/ WaitForEmpty(w)
                               \/ ReturnWaitEmpty(w)
         \/ \E t \in Threads : SpuriousWakeup(t)
  PROVE  IInv'
<1> USE DEF IInv
<1>1. /\ UNCHANGED <<queue, index, msg, do_free, written, taken, released, freed>>
      /\ \A r \in Readers : pc'[r] = pc[r]
  <2>1. CASE \E w \in Writers : \/ CallWrite(w) \/ CallWaitEmpty(w)
                               \/ WaitForRoom(w) \/ WaitForEmpty(w)
                               \/ ReturnWaitEmpty(w)
    <3>1. PICK w \in Writers : \/ CallWrite(w) \/ CallWaitEmpty(w)
                               \/ WaitForRoom(w) \/ WaitForEmpty(w)
                               \/ ReturnWaitEmpty(w)
      BY <2>1
    <3>2. w \notin Readers
      BY ReadersAssumption
    <3>3. \/ UNCHANGED pc
          \/ \E label \in WriterLabels : pc' = [pc EXCEPT ![w] = label]
      BY <3>1 DEF CallWrite, CallWaitEmpty, WaitForRoom, WaitForEmpty,
                  ReturnWaitEmpty, Goto, WriterLabels
    <3>4. \A r \in Readers : pc'[r] = pc[r]
      BY <3>2, <3>3 DEF TypeOK, Threads
    <3> QED
      BY <3>1, <3>4 DEF CallWrite, CallWaitEmpty, WaitForRoom, WaitForEmpty,
                        ReturnWaitEmpty
  <2>2. CASE \E t \in Threads : SpuriousWakeup(t)
    BY <2>2 DEF SpuriousWakeup
  <2> QED
    BY <2>1, <2>2
<1>2. /\ pc' \in [Threads -> WriterLabels \cup ReaderLabels]
      /\ \A w \in Writers : pc'[w] \in WriterLabels
      /\ cond' \subseteq Threads
      /\ cond_empty' \subseteq Writers
  BY DEF CallWrite, CallWaitEmpty, WaitForRoom, WaitForEmpty, ReturnWaitEmpty,
         SpuriousWakeup, Goto, TypeOK, WriterLabels, Threads
<1>3. TypeOK'
  BY <1>1, <1>2 DEF TypeOK
<1>4. IndexInv' /\ ReaderInv' /\ NothingLeftBehind'
  BY <1>1 DEF IndexInv, ReaderInv, NothingLeftBehind, Distance
<1> QED
  BY <1>1, <1>3, <1>4, QueueFrame

\* Control of a reader: its own step moves no other thread.
LEMMA ReaderMoves ==
  ASSUME TypeOK, NEW r \in Readers, NEW label \in ReaderLabels, Goto(r, label)
  PROVE  /\ pc' \in [Threads -> WriterLabels \cup ReaderLabels]
         /\ \A w \in Writers : pc'[w] \in WriterLabels
         /\ \A q \in Readers : pc'[q] \in ReaderLabels
         /\ pc'[r] = label
         /\ \A q \in Readers : q # r => pc'[q] = pc[q]
BY ReadersAssumption DEF TypeOK, Goto, Threads

\* A reader that reads by offset is alone, and outside rbuffer_read and
\* rbuffer_remove_reference the queue holds exactly what it has not seen.
LEMMA LoneReader ==
  ASSUME TypeOK, CountsInv, NothingLeftBehind,
         NEW r \in ByOffset, pc[r] # "release"
  PROVE  r \in Readers /\ taken[r] = released
<1>1. Readers = {r}
  <2>1. r \in Readers /\ Cardinality(Readers) = 1
    BY ByOffsetAssumption
  <2>2. Cardinality(Readers \ {r}) = 0 /\ IsFiniteSet(Readers \ {r})
    BY <2>1, FS_RemoveElement, ReadersAssumption
  <2>3. Readers \ {r} = {}
    BY <2>2, FS_EmptySet
  <2> QED
    BY <2>1, <2>3
<1>2. released <= taken[r] /\ taken[r] <= written
  BY <1>1 DEF CountsInv
<1>3. released < written => taken[r] <= released
  BY <1>1 DEF NothingLeftBehind
<1> QED
  BY <1>1, <1>2, <1>3 DEF TypeOK

\* rbuffer_read: the steps of a reader up to the message it returns.
LEMMA ReadSteps ==
  ASSUME IInv, NEW r \in Readers,
         ChooseIndex(r) \/ WaitForData(r) \/ SeeData(r) \/ WakeReader(r) \/ Fetch(r)
  PROVE  IInv'
<1> USE DEF IInv
<1>1. CASE ChooseIndex(r)
  <2>1. Goto(r, "read") /\ pc[r] = "start"
    BY <1>1 DEF ChooseIndex
  <2>2. /\ pc'[r] = "read"
        /\ \A q \in Readers : q # r => pc'[q] = pc[q]
    BY <2>1, ReaderMoves DEF ReaderLabels
  <2>3. index'[r] \in Slots /\ Distance(index'[r]) = taken[r] - released
    <3>1. CASE r \in ByOffset
      <4>1. index'[r] = queue.read_offset
        BY <1>1, <3>1 DEF ChooseIndex, TypeOK
      <4>2. taken[r] = released
        BY <2>1, <3>1, LoneReader
      <4>3. queue.read_offset \in Slots
        BY DEF TypeOK, RingBuffers
      <4> QED
        BY <4>1, <4>2, <4>3 DEF TypeOK, Distance, DistanceFrom, Slots
    <3>2. CASE r \notin ByOffset
      BY <1>1, <2>1, <3>2 DEF ChooseIndex, TypeOK, IndexInv
    <3> QED
      BY <3>1, <3>2
  <2>4. /\ index' \in [Readers -> Slots]
        /\ \A q \in Readers : q # r => index'[q] = index[q]
    BY <1>1, <2>3 DEF ChooseIndex, TypeOK
  <2>5. TypeOK'
    BY <1>1, <2>1, <2>4, ReaderMoves DEF ChooseIndex, TypeOK, ReaderLabels
  <2>6. IndexInv'
    BY <1>1, <2>2, <2>3, <2>4 DEF ChooseIndex, IndexInv, Distance
  <2>7. ReaderInv' /\ NothingLeftBehind'
    BY <1>1, <2>1, <2>2 DEF ChooseIndex, ReaderInv, NothingLeftBehind
  <2> QED
    BY <1>1, <2>5, <2>6, <2>7, QueueFrame DEF ChooseIndex
<1>2. CASE WaitForData(r)
  <2>1. TypeOK'
    BY <1>2 DEF WaitForData, TypeOK, Threads
  <2>2. IndexInv' /\ ReaderInv' /\ NothingLeftBehind'
    BY <1>2 DEF WaitForData, IndexInv, ReaderInv, NothingLeftBehind, Distance
  <2> QED
    BY <1>2, <2>1, <2>2, QueueFrame DEF WaitForData
<1>3. CASE SeeData(r)
  <2>1. Goto(r, "wake") /\ pc[r] = "read"
    BY <1>3 DEF SeeData
  <2>2. /\ pc'[r] = "wake"
        /\ \A q \in Readers : q # r => pc'[q] = pc[q]
    BY <2>1, ReaderMoves DEF ReaderLabels
  <2>3. taken[r] < written
    <3>1. queue.write_offset # index[r]
      BY <1>3 DEF SeeData, NoDataAt
    <3>2. Distance(index[r]) = taken[r] - released
      BY <2>1 DEF IndexInv
    <3>3. queue.write_offset \in Slots /\ index[r] \in Slots
      BY DEF TypeOK, RingBuffers
    <3>4. Distance(index[r]) # queue.count
      BY <3>1, <3>3, DistanceInjective DEF CountsInv
    <3> QED
      BY <3>2, <3>4 DEF CountsInv, TypeOK
  <2>4. TypeOK'
    BY <1>3, <2>1, ReaderMoves DEF SeeData, TypeOK, ReaderLabels
  <2>5. IndexInv' /\ ReaderInv' /\ NothingLeftBehind'
    BY <1>3, <2>1, <2>2, <2>3
    DEF SeeData, IndexInv, ReaderInv, NothingLeftBehind, Distance
  <2> QED
    BY <1>3, <2>4, <2>5, QueueFrame DEF SeeData
<1>4. CASE WakeReader(r)
  <2>1. Goto(r, "fetch") /\ pc[r] = "wake"
    BY <1>4 DEF WakeReader
  <2>2. /\ pc'[r] = "fetch"
        /\ \A q \in Readers : q # r => pc'[q] = pc[q]
    BY <2>1, ReaderMoves DEF ReaderLabels
  <2>3. cond' \subseteq cond
    BY <1>4 DEF WakeReader, Signal
  <2>4. TypeOK'
    BY <1>4, <2>1, <2>3, ReaderMoves DEF WakeReader, TypeOK, ReaderLabels
  <2>5. IndexInv' /\ ReaderInv' /\ NothingLeftBehind'
    BY <1>4, <2>1, <2>2
    DEF WakeReader, IndexInv, ReaderInv, NothingLeftBehind, Distance
  <2> QED
    BY <1>4, <2>4, <2>5, QueueFrame DEF WakeReader
<1>5. CASE Fetch(r)
  <2>1. Goto(r, "work") /\ pc[r] = "fetch"
    BY <1>5 DEF Fetch
  <2>2. /\ pc'[r] = "work"
        /\ \A q \in Readers : q # r => pc'[q] = pc[q]
    BY <2>1, ReaderMoves DEF ReaderLabels
  <2>3. queue.data[index[r]] = taken[r]
    <3>1. Distance(index[r]) = taken[r] - released /\ taken[r] < written
      BY <2>1 DEF IndexInv, ReaderInv
    <3>2. index[r] \in Slots /\ Distance(index[r]) < queue.count
      BY <3>1 DEF TypeOK, CountsInv
    <3> QED
      BY <3>1, <3>2 DEF SlotsInv, TypeOK
  <2>4. msg' = [msg EXCEPT ![r] = taken[r]]
    BY <1>5, <2>3 DEF Fetch
  <2>5. TypeOK'
    BY <1>5, <2>1, <2>4, ReaderMoves DEF Fetch, TypeOK, ReaderLabels
  <2>6. IndexInv' /\ ReaderInv' /\ NothingLeftBehind'
    BY <1>5, <2>1, <2>2, <2>4
    DEF Fetch, IndexInv, ReaderInv, NothingLeftBehind, Distance, TypeOK
  <2> QED
    BY <1>5, <2>5, <2>6, QueueFrame DEF Fetch
<1> QED
  BY <1>1, <1>2, <1>3, <1>4, <1>5

\* The atomic decrement: it removes the reader from the holders of the message
\* it worked on, and the counter it found was not 0.
LEMMA DropStep ==
  ASSUME IInv, NEW r \in Readers, DropReference(r)
  PROVE  IInv' /\ queue.data_references[index[r]] > 0
<1> USE DEF IInv
<1> DEFINE at == index[r]
<1>1. /\ pc[r] = "work"
      /\ at \in Slots
      /\ Distance(at) = taken[r] - released
      /\ taken[r] < written
      /\ Distance(at) < queue.count
  BY DEF DropReference, IndexInv, ReaderInv, CountsInv, TypeOK
<1>2. /\ queue.data_references[at] = Cardinality(Holders(taken[r]))
      /\ r \in Holders(taken[r])
  <2>1. released + Distance(at) = taken[r]
    BY <1>1 DEF TypeOK
  <2> QED
    BY <1>1, <2>1 DEF SlotsInv, Holders, TypeOK
<1>3. queue.data_references[at] \in Nat /\ queue.data_references[at] > 0
  BY <1>2, HoldersFinite
<1>4. Goto(r, "release")
  BY <1>3 DEF DropReference
<1>5. /\ pc'[r] = "release"
      /\ \A q \in Readers : q # r => pc'[q] = pc[q]
  BY <1>4, ReaderMoves DEF ReaderLabels
<1>6. /\ queue'.read_offset = queue.read_offset
      /\ queue'.write_offset = queue.write_offset
      /\ queue'.count = queue.count
      /\ queue'.data = queue.data
      /\ queue'.data_references =
           [queue.data_references EXCEPT ![at] = queue.data_references[at] - 1]
  BY <1>1, <1>3 DEF DropReference, Unreference, TypeOK, RingBuffers
<1>7. \A i : Distance(i)' = Distance(i)
  BY <1>6 DEF Distance
<1>8. /\ taken' = [taken EXCEPT ![r] = taken[r] + 1]
      /\ taken'[r] = taken[r] + 1
      /\ \A q \in Readers : q # r => taken'[q] = taken[q]
  BY DEF DropReference, TypeOK
<1>9. TypeOK'
  <2>1. queue' \in RingBuffers(Nat \cup {Garbage})
    <3>1. queue' = [queue EXCEPT !.data_references[at] = queue.data_references[at] - 1]
      BY <1>3 DEF DropReference, Unreference
    <3>2. queue.data_references[at] - 1 \in 0 .. MaxReferences
      BY <1>1, <1>3, MaxReferencesAssumption DEF TypeOK, RingBuffers
    <3> QED
      BY <1>1, <3>1, <3>2 DEF TypeOK, RingBuffers
  <2>2. do_free' \in [Readers -> BOOLEAN]
    BY DEF DropReference, TypeOK, FreeFlags
  <2>3. taken' \in [Readers -> Nat]
    BY <1>8 DEF TypeOK
  <2> QED
    BY <1>4, <2>1, <2>2, <2>3, ReaderMoves DEF DropReference, TypeOK, ReaderLabels
<1>10. CountsInv'
  BY <1>1, <1>6, <1>7, <1>8 DEF CountsInv, DropReference, TypeOK, Distance
<1>11. SlotsInv'
  <2> SUFFICES ASSUME NEW i \in Slots, Distance(i) < queue.count
               PROVE  /\ queue'.data[i] = released + Distance(i)
                      /\ queue'.data_references[i]
                           = Cardinality(Holders(released + Distance(i))')
    BY <1>6, <1>7 DEF SlotsInv, DropReference, Holders
  <2>1. queue'.data[i] = released + Distance(i)
    BY <1>6 DEF SlotsInv
  <2>2. released \in Nat /\ Distance(i) \in Int
    BY DistanceInjective, QueueSizeAssumption DEF TypeOK
  <2>3. Holders(released + Distance(i))'
          = {q \in Readers : taken'[q] <= released + Distance(i)}
    BY <1>7 DEF Holders, DropReference
  <2>4. CASE i = at
    <3>1. released + Distance(i) = taken[r]
      BY <1>1, <2>4 DEF TypeOK
    <3>2. Holders(released + Distance(i))' = Holders(taken[r]) \ {r}
      BY <1>8, <2>3, <3>1 DEF Holders, TypeOK
    <3>3. Cardinality(Holders(taken[r]) \ {r}) = Cardinality(Holders(taken[r])) - 1
      BY <1>2, HoldersFinite, FS_RemoveElement
    <3>4. queue'.data_references[i] = queue.data_references[at] - 1
      BY <1>1, <1>6, <2>4 DEF TypeOK, RingBuffers
    <3> QED
      BY <1>2, <2>1, <3>2, <3>3, <3>4
  <2>5. CASE i # at
    <3>1. released + Distance(i) # taken[r]
      BY <1>1, <2>2, <2>5, DistanceInjective DEF TypeOK
    <3>2. taken[r] + 1 <= released + Distance(i) <=> taken[r] <= released + Distance(i)
      BY <2>2, <3>1 DEF TypeOK
    <3>3. Holders(released + Distance(i))' = Holders(released + Distance(i))
      BY <1>8, <2>3, <3>2 DEF Holders
    <3>4. queue'.data_references[i] = queue.data_references[i]
      BY <1>1, <1>6, <2>5 DEF TypeOK, RingBuffers
    <3> QED
      BY <2>1, <3>3, <3>4 DEF SlotsInv
  <2> QED
    BY <2>4, <2>5
<1>12. IndexInv'
  <2>1. Distance((at + 1) % QueueSize) = taken[r] + 1 - released
    <3>1. queue.count \in Nat /\ Distance(at) \in Int /\ Distance(at) + 1 < QueueSize
      BY <1>1, DistanceInjective, QueueSizeAssumption DEF CountsInv, TypeOK, RingBuffers
    <3> QED
      BY <1>1, <3>1, NextDistance DEF TypeOK
  <2>2. /\ index' = index
        /\ released' = released
        /\ queue'.read_offset = queue.read_offset
    BY <1>6 DEF DropReference
  <2> SUFFICES ASSUME NEW q \in Readers
               PROVE  /\ pc'[q] \in {"read", "wake", "fetch", "work"} =>
                           Distance(index[q]) = taken'[q] - released
                      /\ pc'[q] = "start" /\ q \notin ByOffset =>
                           Distance(index[q]) = taken'[q] - released
                      /\ pc'[q] \in {"release", "notify", "next"} =>
                           Distance((index[q] + 1) % QueueSize) = taken'[q] - released
    BY <2>2 DEF IndexInv, Distance
  <2>3. CASE q = r
    <3>1. pc'[q] = "release"
      BY <1>5, <2>3
    <3>2. taken'[q] = taken[r] + 1
      BY <1>8, <2>3, Zenon
    <3>3. Distance((index[q] + 1) % QueueSize) = taken'[q] - released
      BY <3>2, <2>1, <2>3, QueueSizeAssumption DEF TypeOK, Slots
    <3> QED
      BY <3>1, <3>3
  <2>4. CASE q # r
    BY <1>5, <1>8, <2>4 DEF IndexInv
  <2> QED
    BY <2>3, <2>4
<1>13. ReaderInv' /\ FreedInv' /\ NothingLeftBehind'
  BY <1>5, <1>8 DEF ReaderInv, FreedInv, NothingLeftBehind, DropReference
<1> QED
  BY <1>3, <1>9, <1>10, <1>11, <1>12, <1>13

\* The content of the oldest slots.
LEMMA OldestMessages ==
  ASSUME IInv, NEW n \in 0 .. queue.count
  PROVE  \A m \in Oldest(queue, n) : m \in Nat /\ released <= m /\ m < released + n
<1> USE DEF IInv
<1>1. queue.count \in Nat /\ queue.count < QueueSize /\ released \in Nat
  BY QueueSizeAssumption DEF TypeOK, RingBuffers, CountsInv
<1> SUFFICES ASSUME NEW j \in 0 .. n - 1
             PROVE  queue.data[SlotAt(queue, j)] = released + j
  BY <1>1 DEF Oldest
<1>2. j \in 0 .. QueueSize - 1 /\ j < queue.count
  BY <1>1, QueueSizeAssumption
<1> QED
  BY <1>2, SlotAtDistance DEF SlotsInv

\* The loop of rbuffer_remove_reference: everything it gives up is done with,
\* and it stops at a message somebody still holds.
LEMMA ReleaseStep ==
  ASSUME IInv, NEW r \in Readers, ReleaseOldest(r)
  PROVE  IInv'
<1> USE DEF IInv
<1>1. PICK n \in 0 .. queue.count :
        /\ Releasable(queue, n)
        /\ queue' = Release(queue, n)
        /\ released' = released + n
        /\ freed' = IF do_free[r] THEN freed \cup Oldest(queue, n) ELSE freed
        /\ IF n > 0 /\ n = queue.count THEN Signal(cond_empty, cond_empty')
                                       ELSE UNCHANGED cond_empty
  BY DEF ReleaseOldest
<1>2. /\ queue.count \in Nat
      /\ queue.count < QueueSize
      /\ n \in 0 .. QueueSize - 1
      /\ released \in Nat
      /\ queue.read_offset \in Slots
  BY QueueSizeAssumption DEF TypeOK, RingBuffers, CountsInv
<1>3. /\ Goto(r, "notify")
      /\ UNCHANGED <<index, msg, do_free, cond, written, taken>>
      /\ pc[r] = "release"
  BY DEF ReleaseOldest
<1>4. /\ pc'[r] = "notify"
      /\ \A q \in Readers : q # r => pc'[q] = pc[q]
  BY <1>3, ReaderMoves DEF ReaderLabels
<1>5. /\ queue'.read_offset = SlotAt(queue, n)
      /\ queue'.write_offset = queue.write_offset
      /\ queue'.count = queue.count - n
      /\ queue'.data = queue.data
      /\ queue'.data_references = queue.data_references
  BY <1>1 DEF Release, TypeOK, RingBuffers
<1>6. /\ SlotAt(queue, n) \in Slots
      /\ SlotAt(queue, n) = IF queue.read_offset + n < QueueSize
                            THEN queue.read_offset + n
                            ELSE queue.read_offset + n - QueueSize
  BY <1>2, SlotAtDistance, WrapMany DEF SlotAt
\* Everything n or more places from the old oldest slot comes n places closer.
<1> DEFINE Later(i) == DistanceFrom(SlotAt(queue, n), i)
<1>7. \A i \in Slots :
        /\ Later(i) \in 0 .. QueueSize - 1
        /\ Distance(i) >= n => Later(i) = Distance(i) - n
        /\ Later(i) < QueueSize - n => Distance(i) = Later(i) + n
  BY <1>2, <1>6, QueueSizeAssumption DEF Distance, DistanceFrom, Slots
<1> HIDE DEF Later
<1>8. \A i \in Slots : Distance(i)' = Later(i)
  BY <1>5 DEF Distance, Later
\* What is given up is done with.
<1>9. \A q \in Readers : released + n <= taken[q]
  <2>1. CASE n = 0
    BY <2>1, <1>2 DEF CountsInv
  <2>2. CASE n # 0
    <3>1. n - 1 \in 0 .. n - 1 /\ n - 1 \in 0 .. QueueSize - 1 /\ n - 1 < queue.count
      BY <1>2, <2>2, QueueSizeAssumption
    <3>2. queue.data_references[SlotAt(queue, n - 1)] = 0
      BY <1>1, <3>1 DEF Releasable
    <3>3. \A q \in Readers : taken[q] > released + (n - 1)
      BY <3>1, <3>2, SlotAtDistance, NoReferenceNoHolder
    <3> QED
      BY <1>2, <3>3 DEF TypeOK
  <2> QED
    BY <2>1, <2>2
<1>10. \A m \in Oldest(queue, n) : m \in Nat /\ released <= m /\ m < released + n
  BY OldestMessages
<1>11. TypeOK'
  <2>1. queue' \in RingBuffers(Nat \cup {Garbage})
    <3>1. queue.count - n \in 0 .. QueueSize
      BY <1>2, QueueSizeAssumption
    <3> QED
      BY <1>1, <1>6, <3>1 DEF Release, TypeOK, RingBuffers
  <2>2. freed' \subseteq Nat
    BY <1>1, <1>10 DEF TypeOK
  <2>3. released' \in Nat
    BY <1>1, <1>2, QueueSizeAssumption
  <2>4. cond_empty' \subseteq cond_empty
    BY <1>1 DEF Signal
  <2> QED
    BY <1>3, <2>1, <2>2, <2>3, <2>4, ReaderMoves DEF TypeOK, ReaderLabels
<1>12. CountsInv'
  <2>1. queue.write_offset \in Slots /\ written \in Nat
    BY DEF TypeOK, RingBuffers
  <2>2. Later(queue.write_offset) = queue.count - n
    BY <2>1, <1>2, <1>7 DEF CountsInv
  <2>3. DistanceFrom(queue'.read_offset, queue'.write_offset) = queue'.count
    BY <2>2, <1>5 DEF Later
  <2>4. queue'.count = written' - released' /\ queue'.count < QueueSize
    BY <1>1, <1>2, <1>3, <1>5, <2>1, QueueSizeAssumption DEF CountsInv
  <2>5. \A q \in Readers : released' <= taken'[q] /\ taken'[q] <= written'
    BY <1>1, <1>3, <1>9 DEF CountsInv
  <2> QED
    BY <2>3, <2>4, <2>5 DEF CountsInv, Distance
<1>13. SlotsInv'
  <2> SUFFICES ASSUME NEW i \in Slots, Later(i) < queue.count - n
               PROVE  /\ queue.data[i] = released + n + Later(i)
                      /\ queue.data_references[i]
                           = Cardinality(Holders(released + n + Later(i)))
    BY <1>1, <1>3, <1>5, <1>8 DEF SlotsInv, Holders
  <2>1. Later(i) \in Nat /\ Later(i) < QueueSize - n
    BY <1>2, <1>7, QueueSizeAssumption
  <2>2. Distance(i) = Later(i) + n
    BY <1>7, <2>1
  <2>3. Distance(i) < queue.count /\ released + n + Later(i) = released + Distance(i)
    BY <1>2, <2>1, <2>2
  <2> QED
    BY <2>3 DEF SlotsInv
<1>14. IndexInv'
  <2>1. \A q \in Readers : \A i \in Slots :
          Distance(i) = taken[q] - released => Later(i) = taken[q] - released'
    BY <1>1, <1>2, <1>7, <1>9 DEF TypeOK
  <2>2. \A q \in Readers : index[q] \in Slots /\ (index[q] + 1) % QueueSize \in Slots
    BY QueueSizeAssumption DEF TypeOK, Slots
  <2> SUFFICES ASSUME NEW q \in Readers
               PROVE  /\ pc'[q] \in {"read", "wake", "fetch", "work"} =>
                           Later(index[q]) = taken[q] - released'
                      /\ pc'[q] = "start" /\ q \notin ByOffset =>
                           Later(index[q]) = taken[q] - released'
                      /\ pc'[q] \in {"release", "notify", "next"} =>
                           Later((index[q] + 1) % QueueSize) = taken[q] - released'
    BY <1>3, <1>5 DEF IndexInv, Distance, Later
  <2>3. CASE q = r
    BY <1>3, <1>4, <2>1, <2>2, <2>3 DEF IndexInv
  <2>4. CASE q # r
    BY <1>4, <2>1, <2>2, <2>4 DEF IndexInv
  <2> QED
    BY <2>3, <2>4
<1>15. ReaderInv' /\ FreedInv'
  BY <1>1, <1>2, <1>3, <1>4, <1>10 DEF ReaderInv, FreedInv, TypeOK
<1>16. NothingLeftBehind'
  <2>1. CASE n = queue.count
    BY <1>1, <1>3, <2>1 DEF NothingLeftBehind, CountsInv, TypeOK
  <2>2. CASE n < queue.count
    <3>1. queue.data_references[SlotAt(queue, n)] # 0
      BY <1>1, <2>2 DEF Releasable
    <3>2. \E q \in Readers : taken[q] <= released + n
      BY <1>2, <2>2, <3>1, SlotAtDistance, ReferenceHolder
    <3> QED
      BY <1>1, <1>3, <3>2 DEF NothingLeftBehind
  <2> QED
    BY <1>2, <2>1, <2>2
<1> QED
  BY <1>11, <1>12, <1>13, <1>14, <1>15, <1>16

\* The other steps of rbuffer_remove_reference and of the reader's loop.
LEMMA FinishSteps ==
  ASSUME IInv, NEW r \in Readers, KeepOldest(r) \/ NotifyRoom(r) \/ Advance(r)
  PROVE  IInv'
<1> USE DEF IInv
<1>1. CASE KeepOldest(r)
  <2>1. Goto(r, "next") /\ pc[r] = "release"
    BY <1>1 DEF KeepOldest
  <2>2. /\ pc'[r] = "next"
        /\ \A q \in Readers : q # r => pc'[q] = pc[q]
    BY <2>1, ReaderMoves DEF ReaderLabels
  <2>3. TypeOK'
    BY <1>1, <2>1, ReaderMoves DEF KeepOldest, TypeOK, ReaderLabels
  <2>4. IndexInv' /\ ReaderInv'
    BY <1>1, <2>1, <2>2 DEF KeepOldest, IndexInv, ReaderInv, Distance
  <2>5. released < written => \E q \in Readers : taken[q] <= released
    <3> SUFFICES ASSUME released < written
                 PROVE  \E q \in Readers : taken[q] <= released
      OBVIOUS
    <3>1. queue.read_offset \in Slots /\ Distance(queue.read_offset) = 0
      BY DEF TypeOK, RingBuffers, Distance, DistanceFrom, Slots
    <3>2. Distance(queue.read_offset) < queue.count
      BY <3>1 DEF CountsInv, TypeOK
    <3>3. queue.data_references[queue.read_offset] # 0
      BY <1>1 DEF KeepOldest
    <3>4. \E q \in Readers : taken[q] <= released + 0
      BY <3>1, <3>2, <3>3, ReferenceHolder
    <3> QED
      BY <3>4 DEF TypeOK
  <2>6. NothingLeftBehind'
    BY <1>1, <2>5 DEF KeepOldest, NothingLeftBehind
  <2> QED
    BY <1>1, <2>3, <2>4, <2>6, QueueFrame DEF KeepOldest
<1>2. CASE NotifyRoom(r)
  <2>1. Goto(r, "next") /\ pc[r] = "notify"
    BY <1>2 DEF NotifyRoom
  <2>2. /\ pc'[r] = "next"
        /\ \A q \in Readers : q # r => pc'[q] = pc[q]
    BY <2>1, ReaderMoves DEF ReaderLabels
  <2>3. cond' \subseteq cond
    BY <1>2 DEF NotifyRoom, Signal
  <2>4. TypeOK'
    BY <1>2, <2>1, <2>3, ReaderMoves DEF NotifyRoom, TypeOK, ReaderLabels
  <2>5. IndexInv' /\ ReaderInv' /\ NothingLeftBehind'
    BY <1>2, <2>1, <2>2
    DEF NotifyRoom, IndexInv, ReaderInv, NothingLeftBehind, Distance
  <2> QED
    BY <1>2, <2>4, <2>5, QueueFrame DEF NotifyRoom
<1>3. CASE Advance(r)
  <2>1. Goto(r, "start") /\ pc[r] = "next"
    BY <1>3 DEF Advance
  <2>2. /\ pc'[r] = "start"
        /\ \A q \in Readers : q # r => pc'[q] = pc[q]
    BY <2>1, ReaderMoves DEF ReaderLabels
  <2>3. /\ index[r] \in Slots
        /\ (index[r] + 1) % QueueSize \in Slots
    BY QueueSizeAssumption DEF TypeOK, Slots
  <2>4. /\ index' \in [Readers -> Slots]
        /\ index'[r] = (index[r] + 1) % QueueSize
        /\ \A q \in Readers : q # r => index'[q] = index[q]
    BY <1>3, <2>3 DEF Advance, TypeOK
  <2>5. /\ msg' \in [Readers -> Nat \cup {Garbage}]
        /\ do_free' \in [Readers -> BOOLEAN]
        /\ \A q \in Readers : q # r => msg'[q] = msg[q]
    BY <1>3 DEF Advance, TypeOK
  <2>6. TypeOK'
    BY <1>3, <2>1, <2>4, <2>5, ReaderMoves DEF Advance, TypeOK, ReaderLabels
  <2>7. Distance(index'[r]) = taken[r] - released
    BY <2>1, <2>4 DEF IndexInv
  <2>8. IndexInv'
    BY <1>3, <2>2, <2>4, <2>7 DEF Advance, IndexInv, Distance
  <2>9. ReaderInv' /\ NothingLeftBehind'
    BY <1>3, <2>1, <2>2, <2>5 DEF Advance, ReaderInv, NothingLeftBehind
  <2> QED
    BY <1>3, <2>6, <2>8, <2>9, QueueFrame DEF Advance
<1> QED
  BY <1>1, <1>2, <1>3

\* The invariant is preserved by every step of every thread.
LEMMA NextIInv == IInv /\ [Next]_vars => IInv'
<1> SUFFICES ASSUME IInv, [Next]_vars PROVE IInv'
  OBVIOUS
<1>1. CASE \E w \in Writers : CallWrite(w) \/ CallWaitEmpty(w) \/ WriterStep(w)
  BY <1>1, WriterFrame, WriteStep DEF WriterStep
<1>2. CASE \E r \in Readers : ReaderStep(r)
  BY <1>2, ReadSteps, DropStep, ReleaseStep, FinishSteps DEF ReaderStep
<1>3. CASE \E t \in Threads : SpuriousWakeup(t)
  BY <1>3, WriterFrame
<1>4. CASE UNCHANGED vars
  <2>1. UNCHANGED <<queue, written, taken, released, freed>>
    BY <1>4 DEF vars
  <2>2. TypeOK'
    BY <1>4 DEF IInv, TypeOK, vars
  <2>3. IndexInv' /\ ReaderInv' /\ NothingLeftBehind'
    BY <1>4 DEF IInv, IndexInv, ReaderInv, NothingLeftBehind, Distance, vars
  <2> QED
    BY <2>1, <2>2, <2>3, QueueFrame DEF IInv
<1> QED
  BY <1>1, <1>2, <1>3, <1>4 DEF Next

-----------------------------------------------------------------------------
(* The theorems *)

\* The inductive invariant holds in every reachable state.
THEOREM Invariant == Spec => []IInv
BY InitIInv, NextIInv, PTL DEF Spec

\* Every state of the ring buffer and of its threads is well formed.
THEOREM TypeCorrect == Spec => []TypeOK
<1>1. IInv => TypeOK
  BY DEF IInv
<1> QED
  BY <1>1, Invariant, PTL

\* rbuffer_read returns every message to every reader once and in the order
\* of writing, although it loads the pointer without the mutex.
THEOREM InOrder == Spec => []ReadsInOrder
<1>1. IInv => ReadsInOrder
  BY DEF IInv, ReaderInv, ReadsInOrder
<1> QED
  BY <1>1, Invariant, PTL

\* A message is freed only after every reader dropped its reference.
THEOREM FreedLate == Spec => []FreedAfterLastReader
<1>1. IInv => FreedAfterLastReader
  BY DEF IInv, FreedInv, CountsInv, FreedAfterLastReader, TypeOK
<1> QED
  BY <1>1, Invariant, PTL

\* rbuffer_remove_reference never takes its error path.
THEOREM AlwaysCounted == Spec => []ReferenceCounted
<1>1. IInv => ReferenceCounted
  <2> SUFFICES ASSUME IInv, NEW r \in Readers, pc[r] = "work"
               PROVE  queue.data_references[index[r]] > 0
    BY DEF ReferenceCounted
  <2> USE DEF IInv
  <2>1. /\ index[r] \in Slots
        /\ Distance(index[r]) < queue.count
        /\ released + Distance(index[r]) = taken[r]
    BY DEF IndexInv, ReaderInv, CountsInv, TypeOK
  <2>2. queue.data_references[index[r]] = Cardinality(Holders(taken[r]))
    BY <2>1 DEF SlotsInv
  <2>3. r \in Holders(taken[r])
    BY DEF Holders, TypeOK
  <2> QED
    BY <2>2, <2>3, HoldersFinite
<1> QED
  BY <1>1, Invariant, PTL

\* When no reader is inside rbuffer_remove_reference, every message that all
\* readers are done with has been given up.
THEOREM NoLeftovers == Spec => []NothingLeftBehind
<1>1. IInv => NothingLeftBehind
  BY DEF IInv
<1> QED
  BY <1>1, Invariant, PTL

\* rbuffer_wait_empty returns only when every message was dropped by every
\* reader.
THEOREM Drained == Spec => DrainedWhenWaitEmptyReturns
<1>1. IInv /\ [Next]_vars =>
        [\A w \in Writers : pc[w] = "wait_empty" /\ pc'[w] = "idle" =>
           \A r \in Readers : taken[r] = written]_vars
  <2> SUFFICES ASSUME IInv, Next, NEW w \in Writers,
                      pc[w] = "wait_empty", pc'[w] = "idle"
               PROVE  \A r \in Readers : taken[r] = written
    BY DEF vars
  <2> USE DEF IInv
  <2>1. \E v \in Writers : ReturnWaitEmpty(v)
    <3>1. CASE \E v \in Writers : \/ CallWrite(v) \/ CallWaitEmpty(v)
                                 \/ WaitForRoom(v) \/ Write(v) \/ WaitForEmpty(v)
      BY <3>1 DEF CallWrite, CallWaitEmpty, WaitForRoom, Write, WaitForEmpty,
                  Goto, TypeOK, Threads
    <3>2. CASE \E r \in Readers : ReaderStep(r)
      <4>1. PICK r \in Readers : ReaderStep(r)
        BY <3>2
      <4>2. \/ UNCHANGED pc
            \/ \E label \in ReaderLabels : pc' = [pc EXCEPT ![r] = label]
        BY <4>1 DEF ReaderStep, ChooseIndex, WaitForData, SeeData, WakeReader,
                    Fetch, DropReference, KeepOldest, ReleaseOldest, NotifyRoom,
                    Advance, Goto, ReaderLabels
      <4>3. w # r
        BY ReadersAssumption
      <4> QED
        BY <4>2, <4>3 DEF TypeOK, Threads
    <3>3. CASE \E t \in Threads : SpuriousWakeup(t)
      BY <3>3 DEF SpuriousWakeup
    <3> QED
      BY <3>1, <3>2, <3>3 DEF Next, WriterStep
  <2>2. queue.count = 0
    BY <2>1 DEF ReturnWaitEmpty
  <2> QED
    BY <2>2 DEF CountsInv, TypeOK
<1> QED
  BY <1>1, Invariant, PTL DEF Spec, DrainedWhenWaitEmptyReturns

\* The only step that gives messages up is ReleaseOldest, and what it gives up
\* are the oldest messages, those numbered from released on.
LEMMA GivenUp ==
  ASSUME IInv, Next, <<released, freed>>' # <<released, freed>>
  PROVE  \E n \in 0 .. queue.count :
           /\ Releasable(queue, n)
           /\ released' = released + n
           /\ UNCHANGED <<written, taken>>
<1>1. ~ \E w \in Writers : CallWrite(w) \/ CallWaitEmpty(w) \/ WriterStep(w)
  BY DEF CallWrite, CallWaitEmpty, WriterStep, WaitForRoom, Write, WaitForEmpty,
         ReturnWaitEmpty
<1>2. ~ \E t \in Threads : SpuriousWakeup(t)
  BY DEF SpuriousWakeup
<1>3. PICK r \in Readers : ReaderStep(r)
  BY <1>1, <1>2 DEF Next
<1>4. ReleaseOldest(r)
  BY <1>3 DEF ReaderStep, ChooseIndex, WaitForData, SeeData, WakeReader, Fetch,
              DropReference, KeepOldest, NotifyRoom, Advance
<1> QED
  BY <1>4 DEF ReleaseOldest

\* No message is freed twice.
THEOREM NoDoubleFree == Spec => FreedOnce
<1>1. IInv /\ [Next]_vars =>
        [\A n \in 1 .. QueueSize :
           released' = released + n /\ freed' # freed =>
             Oldest(queue, n) \cap freed = {}]_vars
  <2> SUFFICES ASSUME IInv, Next, NEW n \in 1 .. QueueSize,
                      released' = released + n, freed' # freed
               PROVE  Oldest(queue, n) \cap freed = {}
    BY DEF vars
  <2>1. \E k \in 0 .. queue.count : released' = released + k
    BY GivenUp
  <2>2. released \in Nat /\ queue.count \in Nat
    BY QueueSizeAssumption DEF IInv, TypeOK, RingBuffers
  <2>3. n \in 0 .. queue.count
    BY <2>1, <2>2
  <2>4. \A m \in Oldest(queue, n) : m \in Nat /\ released <= m
    BY <2>3, OldestMessages
  <2> QED
    BY <2>2, <2>4 DEF IInv, FreedInv
<1> QED
  BY <1>1, Invariant, PTL DEF Spec, FreedOnce

\* The ring buffer implements the bounded broadcast queue.
THEOREM Refinement == Spec => ImplementsBroadcastQueue
<1>1. Init => Abstract!Init
  BY DEF Init, Abstract!Init
<1>2. IInv /\ IInv' /\ [Next]_vars => [Abstract!Next]_(Abstract!vars)
  <2> SUFFICES ASSUME IInv, IInv', Next,
                      ~ UNCHANGED <<written, taken, released>>
               PROVE  Abstract!Next
    BY DEF vars, Abstract!vars
  <2> USE DEF IInv
  <2>1. CASE \E w \in Writers : CallWrite(w) \/ CallWaitEmpty(w) \/ WriterStep(w)
    <3>1. PICK w \in Writers : Write(w)
      BY <2>1 DEF CallWrite, CallWaitEmpty, WriterStep, WaitForRoom, WaitForEmpty,
                  ReturnWaitEmpty
    <3>2. queue.count \in Nat /\ queue.count + 1 < QueueSize
      BY <3>1, QueueSizeAssumption DEF Write, Full, TypeOK, RingBuffers
    <3>3. written - released < QueueSize - 1
      BY <3>2, QueueSizeAssumption DEF CountsInv, TypeOK
    <3> QED
      BY <3>1, <3>3 DEF Write, Abstract!Next, Abstract!Put
  <2>2. CASE \E r \in Readers : ReaderStep(r)
    <3>1. PICK r \in Readers : DropReference(r) \/ ReleaseOldest(r)
      BY <2>2 DEF ReaderStep, ChooseIndex, WaitForData, SeeData, WakeReader,
                  Fetch, KeepOldest, NotifyRoom, Advance
    <3>2. CASE DropReference(r)
      <4>1. taken[r] < written
        BY <3>2 DEF DropReference, ReaderInv
      <4> QED
        BY <3>2, <4>1 DEF DropReference, Abstract!Next, Abstract!Take
    <3>3. CASE ReleaseOldest(r)
      <4>1. released' \in Nat /\ released <= released'
        BY <3>3 DEF ReleaseOldest, TypeOK, RingBuffers
      <4>2. UNCHANGED <<written, taken>>
        BY <3>3 DEF ReleaseOldest
      <4>3. \A q \in Readers : released' <= taken[q]
        BY <4>2 DEF CountsInv
      <4>4. released' <= written
        BY <4>2, QueueSizeAssumption DEF CountsInv, TypeOK, RingBuffers
      <4> QED
        BY <4>1, <4>2, <4>3, <4>4 DEF Abstract!Next, Abstract!GiveUp, TypeOK
    <3> QED
      BY <3>1, <3>2, <3>3
  <2>3. CASE \E t \in Threads : SpuriousWakeup(t)
    BY <2>3 DEF SpuriousWakeup
  <2> QED
    BY <2>1, <2>2, <2>3 DEF Next
<1> QED
  BY <1>1, <1>2, Invariant, PTL DEF Spec, ImplementsBroadcastQueue, Abstract!Spec

=============================================================================
