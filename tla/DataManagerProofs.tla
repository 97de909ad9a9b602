-------------------------- MODULE DataManagerProofs --------------------------
(***************************************************************************)
(* A Data Manager whose plugins stay the same: with up to two storage      *)
(* plugins, a queue of any length and any number of messages, each plugin  *)
(* stores every message once and in order, holds a reference to what it    *)
(* works on, and has stored everything when data_manager_close returns.    *)
(* With three plugins, or plugins that come and go, this is not so.        *)
(***************************************************************************)
EXTENDS DataManager, FiniteSetTheorems, SequenceTheorems, TLAPS

\* The configuration does not change, and has at most two plugins.
FixedPlugins == Added = {} /\ Removed = {} /\ Len(Initial) <= 2

Output == call["output_manager"]

\* Plugins with a thread.
Joined == {p \in Plugins : pc[p] \notin {"none", "refused"}}

\* The START of the plugin is not yet written.
Pending(p) == Output.op \in {"count", "start"} /\ Output.plugin = p

\* plugins_count, with the plugin whose thread was just created.
Count == IF Output.op = "count" THEN plugins_count + 1 ELSE plugins_count

\* data_manager_close has written its NULL.
NullWritten == Output.op = "close" \/ (~open /\ starting > Len(Initial))

-----------------------------------------------------------------------------
(* Places in the queue *)

\* How many places after slot o slot i is.
DistanceFrom(o, i) == IF i >= o THEN i - o ELSE i - o + QueueSize

Distance(i) == DistanceFrom(queue.read_offset, i)

Live(i) == i \in Slots /\ Distance(i) < queue.count

\* The number of the data message in the oldest slot, as many below 0 as there
\* are STARTs before the first one.
Base == data - (IF NullWritten THEN queue.count - 1 ELSE queue.count)

NumberAt(i) == Base + Distance(i)

\* The slot of the message that the thread handles next.
Ahead(p) == IF pc[p] \in {"release", "next"} THEN (index[p] + 1) % QueueSize ELSE index[p]

\* The data messages the thread has dropped its reference on.
Dropped(p) ==
  IF pc[p] = "drop" /\ do_free[p] THEN Len(stored[p]) - 1 ELSE Len(stored[p])

\* The thread has not dropped the reference on its START.
HoldsStart(p) == ~can_read[p] \/ (pc[p] = "drop" /\ ~do_free[p])

\* The plugins that have not dropped data message n, or NULL.
Holders(n) == {p \in Joined : Dropped(p) <= n}

NotNegative(n) == IF n < 0 THEN 0 ELSE n

\* The thread of p is e places after the oldest slot, or just before it, which
\* is at the START of the other plugin.
At(p, e) ==
  /\ Ahead(p) \in Slots
  /\ Distance(Ahead(p)) = IF e = -1 THEN QueueSize - 1 ELSE e
  /\ Dropped(p) = NotNegative(Base + e)
  /\ e = -1 => Base <= 0 /\ \E x \in Joined \ {p} : queue.data[Ahead(p)] = Start(x)
  /\ \A i \in Slots : Live(i) /\ queue.data[i] = Start(p) =>
       IF can_read[p] THEN Distance(i) < e \/ (Distance(i) = e /\ pc[p] = "drop" /\ ~do_free[p])
                      ELSE e <= Distance(i)
  /\ NullWritten \/ pc[p] \in {"load", "store", "drop"} => e < queue.count
  /\ pc[p] = "store" => e >= 0 /\ queue.data[index[p]] = Data(Base + e) /\ msg[p] = Data(Base + e)
                        /\ Base + e >= 0 /\ can_read[p]
  /\ pc[p] = "drop" => /\ e >= 0 /\ can_read[p]
                       /\ IF do_free[p] THEN queue.data[index[p]] = Data(Base + e) /\ Base + e >= 0
                                        ELSE queue.data[index[p]] = Start(p)
  /\ pc[p] \in {"exit", "ended"} => NullWritten /\ e = queue.count - 1

-----------------------------------------------------------------------------
(* The inductive invariant *)

\* What the messages, the queue and the calls are when no plugin is removed.
QueueMessages == {Start(p) : p \in Plugins} \cup {Data(n) : n \in Nat} \cup {End}

StoreQueues ==
  [ read_offset : Slots, write_offset : Slots, count : Nat,
    data : [Slots -> QueueMessages], data_references : [Slots -> Nat] ]

Calls ==
  [Callers -> {Idle} \cup [op : {"count", "start"}, plugin : Plugins]
              \cup [op : {"data", "null"}, ref_count : Nat] \cup {[op |-> "close"]}]

USE DEF QueueMessages, StoreQueues, Calls

Types ==
  /\ queue \in StoreQueues
  /\ storage_plugins \in [0 .. 7 -> Plugins \cup {NULL}]
  /\ id \in [Plugins -> Plugins] /\ config \in [Plugins -> Plugins]
  /\ open \in BOOLEAN /\ starting \in Nat /\ data \in Nat
  /\ pc \in [Plugins -> {"none", "refused", "created", "read", "load", "store",
                         "drop", "release", "next", "exit", "ended"}]
  /\ index \in [Plugins -> Slots]
  /\ can_read \in [Plugins -> BOOLEAN] /\ do_free \in [Plugins -> BOOLEAN]
  /\ msg \in [Plugins -> {Data(n) : n \in Nat} \cup {End}]
  /\ stop = [p \in Plugins |-> FALSE]
  /\ starting_msg \in [Plugins -> {Start(p) : p \in Plugins} \cup {NULL}]
  /\ stored \in [Plugins -> Seq(Nat)]
  /\ from \in [Plugins -> {NotDue, 0}]

\* The Output Manager's thread: first the STARTs, then the data, then the NULL.
CallsInvariant ==
  /\ call \in Calls
  /\ call["main"] = Idle
  /\ Output.op \in {"count", "start"} =>
       Output.plugin \in Joined /\ ~open /\ starting <= Len(Initial)
  /\ Output.op \in {"data", "null"} => Output.ref_count = plugins_count
  /\ Output.op \in {"data", "null", "close"} => open
  /\ open => starting > Len(Initial)
  /\ starting <= Len(Initial) => data = 0
  /\ starting > Len(Initial) => Joined # {}
  /\ ~open /\ starting > Len(Initial) => \A p \in Joined : pc[p] = "ended"

\* The array of plugins.
PluginsInvariant ==
  /\ plugins_count \in Nat
  /\ Count = Cardinality(Joined)
  /\ Count <= starting
  /\ \A i \in DOMAIN Initial : i > starting => Initial[i] \notin Joined
  /\ Joined \subseteq ToSet(Initial)
  /\ \A i \in 0 .. 7 : storage_plugins[i] # NULL =>
       \E k \in DOMAIN Initial : k <= starting /\ storage_plugins[i] = Initial[k]
  /\ \A i, j \in 0 .. 7 : storage_plugins[i] = storage_plugins[j] /\ storage_plugins[i] # NULL => i = j
  /\ \A p \in Joined : id[config[p]] = p
  /\ open \/ starting <= Len(Initial) =>
       \A p \in Joined : \E i \in 0 .. 7 : i < Count /\ storage_plugins[i] = config[p]

\* Plugins before their START, and what they have to start with.
StartsInvariant ==
  /\ \A p \in Plugins : ~can_read[p] => stored[p] = <<>>
  /\ \A p \in Plugins : p \notin Joined => ~can_read[p]
  /\ \A p \in Plugins : from[p] = IF p \notin Joined \/ Pending(p) THEN NotDue ELSE 0
  /\ \A p \in Joined : Pending(p) \/ pc[p] = "created" => ~can_read[p]
  /\ \A p \in Joined : ~can_read[p] =>
       Pending(p) \/ \E i \in Slots : Live(i) /\ queue.data[i] = Start(p)
  /\ \A i \in Slots : \A p \in Plugins : queue.data[i] = Start(p) => p \in Joined /\ ~Pending(p)
  /\ \A i, j \in Slots : \A p \in Plugins :
       queue.data[i] = Start(p) /\ queue.data[j] = Start(p) => i = j

\* What is in the queue: STARTs, data in order, NULL.
ContentsInvariant ==
  /\ queue.count < QueueSize
  /\ Distance(queue.write_offset) = queue.count
  /\ NullWritten => queue.count > 0
  /\ \A i \in Slots : Live(i) =>
       IF NumberAt(i) < 0 THEN \E p \in Joined : queue.data[i] = Start(p)
       ELSE IF NullWritten /\ Distance(i) = queue.count - 1 THEN queue.data[i] = End
       ELSE queue.data[i] = Data(NumberAt(i))

\* Every slot has a reference for each thread that will drop one.
ReferencesInvariant ==
  \A i \in Slots : Live(i) =>
    IF NumberAt(i) < 0
    THEN \A p \in Plugins : queue.data[i] = Start(p) =>
           queue.data_references[i] = IF HoldsStart(p) THEN 1 ELSE 0
    ELSE queue.data_references[i] = Cardinality(Holders(NumberAt(i)))

PlacesInvariant ==
  \A p \in Joined : pc[p] # "created" => \E e \in -1 .. queue.count : At(p, e)

StoredInvariant ==
  /\ \A p \in Plugins : \A i \in 1 .. Len(stored[p]) : stored[p][i] = i - 1
  /\ \A n \in Nat : Data(n) \in freed => n < Base

ManagerInvariant ==
  /\ Types
  /\ CallsInvariant
  /\ PluginsInvariant
  /\ StartsInvariant
  /\ ContentsInvariant
  /\ ReferencesInvariant
  /\ PlacesInvariant
  /\ StoredInvariant

-----------------------------------------------------------------------------
(* Messages and places *)

\* The kinds of messages are told apart by their type.
LEMMA Kinds ==
  /\ \A p : Start(p).type = "start" /\ Start(p).plugin = p
  /\ \A n : Data(n).type = "data" /\ Data(n).number = n
  /\ End.type = "null"
  /\ \A p, n : Start(p) # Data(n) /\ Start(p) # End /\ Data(n) # End
  /\ \A p, x : Start(p) = Start(x) => p = x
  /\ \A n, m : Data(n) = Data(m) => n = m
<1>1. /\ \A p : Start(p).type = "start" /\ Start(p).plugin = p
      /\ \A n : Data(n).type = "data" /\ Data(n).number = n
      /\ End.type = "null"
  BY DEF Start, Data, End
<1>2. \A p, n : Start(p) # Data(n) /\ Start(p) # End /\ Data(n) # End
  BY <1>1
<1>3. ASSUME NEW p, NEW x, Start(p) = Start(x) PROVE p = x
  <2>1. Start(p).plugin = p /\ Start(x).plugin = x
    BY <1>1
  <2> QED
    BY <1>3, <2>1
<1>4. ASSUME NEW n, NEW m, Data(n) = Data(m) PROVE n = m
  <2>1. Data(n).number = n /\ Data(m).number = m
    BY <1>1
  <2> QED
    BY <1>4, <2>1
<1> QED
  BY <1>1, <1>2, <1>3, <1>4

LEMMA QueueTypes ==
  ASSUME Types
  PROVE  /\ queue.read_offset \in Slots /\ queue.write_offset \in Slots /\ queue.count \in Nat
         /\ queue.data_references \in [Slots -> Nat]
         /\ queue.data \in [Slots -> QueueMessages]
BY DEF Types

\* Moving an offset by one: the only case that wraps is the last slot.
LEMMA WrapOne ==
  ASSUME NEW x \in Slots
  PROVE  (x + 1) % QueueSize = IF x + 1 = QueueSize THEN 0 ELSE x + 1
BY QueueSizeAssumption DEF Slots

\* Moving an offset by less than the size wraps at most once.
LEMMA WrapMany ==
  ASSUME NEW x \in Slots, NEW n \in 0 .. QueueSize - 1
  PROVE  (x + n) % QueueSize = IF x + n < QueueSize THEN x + n ELSE x + n - QueueSize
BY QueueSizeAssumption DEF Slots

\* No two slots are at the same distance from a slot.
LEMMA DistanceInjective ==
  ASSUME Types
  PROVE  /\ \A i \in Slots : Distance(i) \in 0 .. QueueSize - 1
         /\ \A i, j \in Slots : Distance(i) = Distance(j) => i = j
         /\ Distance(queue.read_offset) = 0
<1>1. queue.read_offset \in Slots
  BY QueueTypes
<1> QED
  BY <1>1, QueueSizeAssumption DEF Distance, DistanceFrom, Slots

\* The slot after one at distance d is at distance d + 1, the one after the
\* last is the first.
LEMMA NextDistance ==
  ASSUME Types, NEW i \in Slots
  PROVE  /\ (i + 1) % QueueSize \in Slots
         /\ Distance((i + 1) % QueueSize) =
              IF Distance(i) = QueueSize - 1 THEN 0 ELSE Distance(i) + 1
<1>1. (i + 1) % QueueSize = IF i + 1 = QueueSize THEN 0 ELSE i + 1
  BY WrapOne
<1>2. queue.read_offset \in Slots
  BY QueueTypes
<1> QED
  BY <1>1, <1>2, QueueSizeAssumption DEF Distance, DistanceFrom, Slots

\* The slot n places after the oldest one.
LEMMA SlotAtDistance ==
  ASSUME Types, NEW n \in 0 .. QueueSize - 1
  PROVE  SlotAt(queue, n) \in Slots /\ Distance(SlotAt(queue, n)) = n
<1>1. SlotAt(queue, n) = IF queue.read_offset + n < QueueSize
                         THEN queue.read_offset + n
                         ELSE queue.read_offset + n - QueueSize
  BY QueueTypes, WrapMany DEF SlotAt
<1>2. queue.read_offset \in Slots
  BY QueueTypes
<1> QED
  BY <1>1, <1>2, QueueSizeAssumption DEF Distance, DistanceFrom, Slots

LEMMA InitialLength == Len(Initial) \in Nat /\ DOMAIN Initial = 1 .. Len(Initial)
BY PluginsAssumption

\* Of two plugins, one is the other one.
LEMMA OneOther ==
  ASSUME FixedPlugins, PluginsInvariant,
         NEW p \in Joined, NEW x \in Joined, NEW y \in Joined, x # p, y # p
  PROVE  x = y
<1>1. Initial \in Seq(Plugins) /\ Len(Initial) <= 2
  BY PluginsAssumption DEF FixedPlugins
<1>2. \A z \in Joined : \E i \in DOMAIN Initial : z = Initial[i]
  BY DEF PluginsInvariant, ToSet
<1>3. \A i \in DOMAIN Initial : i = 1 \/ i = 2
  BY <1>1
<1> QED
  BY <1>2, <1>3

\* The numbers of places are integers.
LEMMA Numbers ==
  ASSUME Types
  PROVE  /\ Base \in Int
         /\ \A i \in Slots : NumberAt(i) \in Int /\ NumberAt(i) = Base + Distance(i)
         /\ \A p \in Plugins : Dropped(p) \in Int /\ Len(stored[p]) \in Nat
         /\ \A p \in Plugins : Ahead(p) \in Slots
<1>1. Base \in Int
  <2>1. queue.count \in Nat /\ data \in Nat
    BY QueueTypes DEF Types
  <2> QED
    BY <2>1 DEF Base
<1>2. \A i \in Slots : Distance(i) \in Int
  BY DistanceInjective
<1>3. \A p \in Plugins : Len(stored[p]) \in Nat
  BY DEF Types
<1>4. \A p \in Plugins : index[p] \in Slots
  BY DEF Types
<1> QED
  BY <1>1, <1>2, <1>3, <1>4, NextDistance DEF NumberAt, Dropped, Ahead
-----------------------------------------------------------------------------
(* What a step of one plugin's thread leaves alone *)

\* The other threads are where they were.
Others(p) ==
  \A r \in Plugins \ {p} :
    /\ pc'[r] = pc[r] /\ index'[r] = index[r] /\ msg'[r] = msg[r]
    /\ can_read'[r] = can_read[r] /\ do_free'[r] = do_free[r] /\ stored'[r] = stored[r]

\* The variables of the two callers.
CallersUnchanged ==
  UNCHANGED <<call, open, starting, data, from, plugins_count, storage_plugins, id, config>>

LEMMA ThreadSteps ==
  ASSUME Types, NEW p \in Plugins, Thread(p)
  PROVE  /\ pc[p] \notin {"none", "refused", "ended"}
         /\ pc'[p] \notin {"none", "refused"}
         /\ Others(p)
         /\ CallersUnchanged
<1> USE DEF Types, Others, CallersUnchanged, Goto, queue_vars, manager_vars, caller_vars
<1>1. CASE Begin(p)
  BY <1>1 DEF Begin
<1>2. CASE SeeMessage(p)
  BY <1>2 DEF SeeMessage
<1>3. CASE LoadEnd(p) \/ LoadStop(p)
  BY <1>3 DEF LoadEnd, LoadStop
<1>4. CASE LoadStart(p)
  <2>1. /\ pc' = [pc EXCEPT ![p] = "drop"] \/ pc' = [pc EXCEPT ![p] = "next"]
        /\ can_read' = can_read \/ can_read' = [can_read EXCEPT ![p] = TRUE]
        /\ do_free' = do_free \/ do_free' = [do_free EXCEPT ![p] = FALSE]
    BY <1>4 DEF LoadStart
  <2> QED
    BY <1>4, <2>1 DEF LoadStart
<1>5. CASE LoadData(p)
  <2>1. /\ pc' = [pc EXCEPT ![p] = "store"] \/ pc' = [pc EXCEPT ![p] = "next"]
        /\ msg' = msg \/ msg' = [msg EXCEPT ![p] = Message(p)]
    BY <1>5 DEF LoadData
  <2> QED
    BY <1>5, <2>1 DEF LoadData
<1>6. CASE Store(p)
  BY <1>6 DEF Store
<1>7. CASE Drop(p) \/ ReleaseOldest(p)
  BY <1>7 DEF Drop, ReleaseOldest
<1>8. CASE NextMessage(p) \/ Exit(p)
  BY <1>8 DEF NextMessage, Exit
<1> QED
  BY <1>1, <1>2, <1>3, <1>4, <1>5, <1>6, <1>7, <1>8 DEF Thread

\* A thread's step does not concern the callers and the array of plugins.
LEMMA ThreadFrame ==
  ASSUME ManagerInvariant, NEW p \in Plugins, Thread(p)
  PROVE  /\ p \in Joined /\ Joined' = Joined
         /\ CallsInvariant' /\ PluginsInvariant'
         /\ NullWritten' = NullWritten
         /\ \A r : Pending(r)' = Pending(r)
         /\ ~(~open /\ starting > Len(Initial))
<1> USE DEF ManagerInvariant
<1>1. /\ pc[p] \notin {"none", "refused", "ended"} /\ pc'[p] \notin {"none", "refused"}
      /\ Others(p) /\ CallersUnchanged
  BY ThreadSteps
<1>2. p \in Joined /\ Joined' = Joined
  BY <1>1 DEF Joined, Others
<1>3. ~(~open /\ starting > Len(Initial))
  BY <1>1, <1>2 DEF CallsInvariant
<1>4. call' = call /\ open' = open /\ starting' = starting /\ data' = data /\ plugins_count' = plugins_count
  BY <1>1 DEF CallersUnchanged
<1>5. CallsInvariant'
  BY <1>2, <1>3, <1>4 DEF CallsInvariant, Output
<1>6. PluginsInvariant'
  BY <1>1, <1>2 DEF PluginsInvariant, CallersUnchanged, Count, Output
<1> QED
  BY <1>2, <1>3, <1>4, <1>5, <1>6 DEF NullWritten, Pending, Output

\* The place of a thread; only references change in the queue, nothing in the
\* thread.
LEMMA AtFrame ==
  ASSUME NEW r, NEW e, At(r, e),
         queue'.read_offset = queue.read_offset, queue'.count = queue.count,
         queue'.data = queue.data, Base' = Base, NullWritten' = NullWritten, Joined \subseteq Joined',
         pc'[r] = pc[r], index'[r] = index[r], msg'[r] = msg[r],
         can_read'[r] = can_read[r], do_free'[r] = do_free[r], stored'[r] = stored[r]
  PROVE  At(r, e)'
BY DEF At, Ahead, Dropped, Live, Distance, DistanceFrom

\* A step of a thread that does not change the queue, nor what the thread holds.
LEMMA QuietStep ==
  ASSUME ManagerInvariant, NEW p \in Plugins, Thread(p), queue' = queue, Types',
         Dropped(p)' = Dropped(p), HoldsStart(p)' = HoldsStart(p),
         can_read[p] => can_read'[p], can_read'[p] => ~Pending(p),
         can_read'[p] \/ stored'[p] = <<>>, pc'[p] # "created",
         NEW e \in -1 .. queue.count, At(p, e)',
         StoredInvariant'
  PROVE  ManagerInvariant'
<1> USE DEF ManagerInvariant
<1>1. /\ p \in Joined /\ Joined' = Joined /\ CallsInvariant' /\ PluginsInvariant'
      /\ NullWritten' = NullWritten /\ \A r : Pending(r)' = Pending(r)
  BY ThreadFrame
<1>2. Others(p) /\ CallersUnchanged
  BY ThreadSteps
<1>3. /\ Base' = Base
      /\ \A i : Distance(i)' = Distance(i) /\ Live(i)' = Live(i) /\ NumberAt(i)' = NumberAt(i)
  BY <1>1, <1>2 DEF CallersUnchanged, Base, Distance, Live, NumberAt
<1>4. \A r \in Plugins : Dropped(r)' = Dropped(r) /\ HoldsStart(r)' = HoldsStart(r)
  BY <1>2 DEF Others, Dropped, HoldsStart
<1>5. StartsInvariant'
  <2>1. \A r \in Plugins : ~can_read'[r] => stored'[r] = <<>> /\ ~can_read[r]
    BY <1>2 DEF StartsInvariant, Others
  <2>2. \A r \in Plugins : r \notin Joined => ~can_read'[r]
    BY <1>1, <1>2 DEF StartsInvariant, Others
  <2>3. \A r \in Joined : Pending(r) \/ pc'[r] = "created" => ~can_read'[r]
    BY <1>2 DEF StartsInvariant, Others, Joined
  <2>4. from' = from
    BY <1>2 DEF CallersUnchanged
  <2> QED
    BY <1>1, <1>3, <2>1, <2>2, <2>3, <2>4 DEF StartsInvariant, Joined
<1>6. ContentsInvariant'
  BY <1>1, <1>3 DEF ContentsInvariant
<1>7. ReferencesInvariant'
  <2>1. \A n : Holders(n)' = Holders(n)
    BY <1>1, <1>4 DEF Holders, Joined
  <2> QED
    BY <1>3, <1>4, <2>1 DEF ReferencesInvariant
<1>8. PlacesInvariant'
  <2> SUFFICES ASSUME NEW r \in Joined, pc'[r] # "created"
               PROVE  \E d \in -1 .. queue.count : At(r, d)'
    BY <1>1 DEF PlacesInvariant
  <2>1. CASE r = p
    BY <2>1
  <2>2. CASE r # p
    <3>1. /\ pc'[r] = pc[r] /\ index'[r] = index[r] /\ msg'[r] = msg[r]
          /\ can_read'[r] = can_read[r] /\ do_free'[r] = do_free[r] /\ stored'[r] = stored[r]
      BY <1>2, <2>2 DEF Others, Joined
    <3>2. PICK d \in -1 .. queue.count : At(r, d)
      BY <3>1 DEF PlacesInvariant
    <3>3. At(r, d)'
      BY <1>1, <1>3, <3>1, <3>2, AtFrame
    <3> QED
      BY <3>3
  <2> QED
    BY <2>1, <2>2
<1> QED
  BY <1>1, <1>5, <1>6, <1>7, <1>8

-----------------------------------------------------------------------------
(* The thread's steps that leave the queue alone *)

\* Before its START a plugin is before all data.
LEMMA NoDataBeforeStart ==
  ASSUME ManagerInvariant, NEW p \in Joined, ~can_read[p]
  PROVE  /\ Base <= 0
         /\ \A i \in Slots : Live(i) /\ NumberAt(i) >= 0 =>
              \E k \in Slots : Live(k) /\ queue.data[k] = Start(p) /\ Distance(k) < Distance(i)
<1> USE DEF ManagerInvariant
<1>0. Base \in Int /\ \A i \in Slots : Distance(i) \in Nat /\ NumberAt(i) = Base + Distance(i)
  BY Numbers, DistanceInjective
<1>1. CASE Pending(p)
  <2>1. ~NullWritten /\ data = 0
    BY <1>1, InitialLength DEF Pending, NullWritten, CallsInvariant, Types
  <2>2. Base = 0 - queue.count /\ queue.count \in Nat
    BY <2>1, QueueTypes DEF Base
  <2> QED
    BY <1>0, <2>2 DEF Live
<1>2. CASE \E k \in Slots : Live(k) /\ queue.data[k] = Start(p)
  <2>1. PICK k \in Slots : Live(k) /\ queue.data[k] = Start(p)
    BY <1>2
  <2>2. NumberAt(k) < 0
    BY <2>1, Kinds DEF ContentsInvariant
  <2> QED
    BY <1>0, <2>1, <2>2
<1> QED
  BY <1>1, <1>2 DEF StartsInvariant

\* What a thread finds when it loads the message at its index.
LEMMA Loaded ==
  ASSUME ManagerInvariant, NEW p \in Joined, pc[p] = "load",
         NEW e \in -1 .. queue.count, At(p, e)
  PROVE  /\ e < queue.count
         /\ e = -1 => \E x \in Joined \ {p} : Message(p) = Start(x)
         /\ e >= 0 =>
              /\ Live(index[p]) /\ Distance(index[p]) = e /\ NumberAt(index[p]) = Base + e
              /\ \/ Base + e < 0 /\ \E x \in Joined : Message(p) = Start(x)
                 \/ Base + e >= 0 /\ NullWritten /\ e = queue.count - 1 /\ Message(p) = End
                 \/ Base + e >= 0 /\ Message(p) = Data(Base + e)
<1> USE DEF ManagerInvariant
<1>1. Ahead(p) = index[p] /\ e < queue.count /\ index[p] \in Slots
  BY DEF Ahead, At, Joined, Types
<1>2. CASE e = -1
  BY <1>1, <1>2 DEF At, Message
<1>3. CASE e # -1
  <2>1. Distance(index[p]) = e /\ Live(index[p]) /\ NumberAt(index[p]) = Base + e
    BY <1>1, <1>3, Numbers DEF At, Live
  <2>2. Base + e \in Int
    BY Numbers
  <2> QED
    BY <1>1, <1>3, <2>1, <2>2 DEF ContentsInvariant, Message
<1> QED
  BY <1>2, <1>3

LEMMA BeginStep ==
  ASSUME ManagerInvariant, NEW p \in Plugins, Begin(p)
  PROVE  ManagerInvariant'
<1> USE DEF ManagerInvariant
<1>1. /\ pc[p] = "created" /\ pc' = [pc EXCEPT ![p] = "read"]
      /\ index' = [index EXCEPT ![p] = queue.read_offset] /\ queue' = queue
      /\ UNCHANGED <<msg, can_read, do_free, stored, freed, stop, starting_msg>>
  BY DEF Begin, Goto, queue_vars
<1>2. Thread(p) /\ p \in Joined /\ Joined' = Joined /\ NullWritten' = NullWritten /\ CallersUnchanged
  BY ThreadFrame, ThreadSteps DEF Thread
<1>3. Types'
  BY <1>1, <1>2, QueueTypes DEF Types, CallersUnchanged
<1>4. ~can_read[p] /\ stored[p] = <<>>
  BY <1>1, <1>2 DEF StartsInvariant
<1>5. Base' = Base /\ Base \in Int /\ Base <= 0
  BY <1>1, <1>2, <1>4, NoDataBeforeStart, Numbers DEF Base, CallersUnchanged
<1>6. /\ Dropped(p)' = Dropped(p) /\ Dropped(p) = 0 /\ HoldsStart(p)' = HoldsStart(p)
      /\ Ahead(p)' = queue.read_offset
  BY <1>1, <1>4 DEF Dropped, HoldsStart, Ahead, Types
<1>7. StoredInvariant'
  BY <1>1, <1>5 DEF StoredInvariant
<1>8. At(p, 0)'
  <2>1. queue.read_offset \in Slots /\ Distance(queue.read_offset)' = 0
    BY <1>1, QueueTypes, DistanceInjective DEF Distance
  <2>2. \A i \in Slots : Distance(i)' \in Nat
    BY <1>1, DistanceInjective DEF Distance
  <2>3. NullWritten => 0 < queue.count
    BY DEF ContentsInvariant
  <2>4. pc'[p] = "read" /\ ~can_read'[p]
    BY <1>1, <1>4 DEF Types
  <2> QED
    BY <1>1, <1>2, <1>5, <1>6, <2>1, <2>2, <2>3, <2>4 DEF At, NotNegative
<1>9. ~can_read'[p] /\ stored'[p] = <<>> /\ pc'[p] # "created"
  BY <1>1, <1>4 DEF Types
<1>10. 0 \in -1 .. queue.count
  BY QueueTypes
<1> QED
  BY <1>1, <1>2, <1>3, <1>4, <1>6, <1>7, <1>8, <1>9, <1>10, QuietStep

LEMMA SeeMessageStep ==
  ASSUME ManagerInvariant, NEW p \in Plugins, SeeMessage(p)
  PROVE  ManagerInvariant'
<1> USE DEF ManagerInvariant
<1>1. /\ pc[p] = "read" /\ pc' = [pc EXCEPT ![p] = "load"] /\ queue' = queue
      /\ queue.write_offset # index[p]
      /\ UNCHANGED <<index, msg, can_read, do_free, stored, freed, stop, starting_msg>>
  BY DEF SeeMessage, Goto, queue_vars, NoDataAt
<1>2. Thread(p) /\ p \in Joined /\ Joined' = Joined /\ NullWritten' = NullWritten /\ CallersUnchanged
  BY ThreadFrame, ThreadSteps DEF Thread
<1>3. Types' /\ pc'[p] = "load"
  BY <1>1, <1>2 DEF Types, CallersUnchanged
<1>4. Base' = Base
  BY <1>1, <1>2 DEF Base, CallersUnchanged
<1>5. /\ Dropped(p)' = Dropped(p) /\ HoldsStart(p)' = HoldsStart(p)
      /\ Ahead(p)' = Ahead(p) /\ Ahead(p) = index[p]
  BY <1>1, <1>3 DEF Dropped, HoldsStart, Ahead
<1>6. StoredInvariant'
  BY <1>1, <1>4 DEF StoredInvariant
<1>7. PICK e \in -1 .. queue.count : At(p, e)
  BY <1>1, <1>2 DEF PlacesInvariant
<1>8. e # queue.count
  <2>1. e = queue.count => Distance(index[p]) = Distance(queue.write_offset)
    BY <1>5, <1>7, QueueTypes DEF At, ContentsInvariant
  <2> QED
    BY <1>1, <2>1, DistanceInjective, QueueTypes DEF Types
<1>9. At(p, e)'
  <2>1. e < queue.count
    BY <1>7, <1>8, QueueTypes
  <2>2. \A i : Distance(i)' = Distance(i) /\ Live(i)' = Live(i)
    BY <1>1 DEF Distance, Live
  <2> QED
    BY <1>1, <1>2, <1>3, <1>4, <1>5, <1>7, <2>1, <2>2 DEF At
<1>10. can_read'[p] => ~Pending(p)
  BY <1>1, <1>2 DEF StartsInvariant
<1>11. can_read'[p] \/ stored'[p] = <<>>
  BY <1>1 DEF StartsInvariant
<1> QED
  BY <1>1, <1>2, <1>3, <1>5, <1>6, <1>7, <1>9, <1>10, <1>11, QuietStep

LEMMA LoadEndStep ==
  ASSUME ManagerInvariant, NEW p \in Plugins, LoadEnd(p)
  PROVE  ManagerInvariant'
<1> USE DEF ManagerInvariant
<1>1. /\ pc[p] = "load" /\ pc' = [pc EXCEPT ![p] = "exit"] /\ queue' = queue
      /\ Message(p).type = "null"
      /\ UNCHANGED <<index, msg, can_read, do_free, stored, freed, stop, starting_msg>>
  BY DEF LoadEnd, Goto, queue_vars
<1>2. Thread(p) /\ p \in Joined /\ Joined' = Joined /\ NullWritten' = NullWritten /\ CallersUnchanged
  BY ThreadFrame, ThreadSteps DEF Thread
<1>3. Types' /\ pc'[p] = "exit"
  BY <1>1, <1>2 DEF Types, CallersUnchanged
<1>4. Base' = Base
  BY <1>1, <1>2 DEF Base, CallersUnchanged
<1>5. /\ Dropped(p)' = Dropped(p) /\ HoldsStart(p)' = HoldsStart(p) /\ Ahead(p)' = Ahead(p)
  BY <1>1, <1>3 DEF Dropped, HoldsStart, Ahead
<1>6. StoredInvariant'
  BY <1>1, <1>4 DEF StoredInvariant
<1>7. PICK e \in -1 .. queue.count : At(p, e)
  BY <1>1, <1>2 DEF PlacesInvariant
<1>8. NullWritten /\ e = queue.count - 1
  BY <1>1, <1>2, <1>7, Loaded, Kinds
<1>9. At(p, e)'
  <2>1. \A i : Distance(i)' = Distance(i) /\ Live(i)' = Live(i)
    BY <1>1 DEF Distance, Live
  <2> QED
    BY <1>1, <1>2, <1>3, <1>4, <1>5, <1>7, <1>8, <2>1 DEF At
<1>10. can_read'[p] => ~Pending(p)
  BY <1>1, <1>2 DEF StartsInvariant
<1>11. can_read'[p] \/ stored'[p] = <<>>
  BY <1>1 DEF StartsInvariant
<1> QED
  BY <1>1, <1>2, <1>3, <1>5, <1>6, <1>7, <1>9, <1>10, <1>11, QuietStep

\* No STOP is written when no plugin is removed.
LEMMA LoadStopStep ==
  ASSUME ManagerInvariant, NEW p \in Plugins
  PROVE  ~LoadStop(p)
<1>1. Message(p) \in QueueMessages
  BY QueueTypes DEF ManagerInvariant, Message, Types
<1> QED
  BY <1>1, Kinds DEF LoadStop

LEMMA NextMessageStep ==
  ASSUME ManagerInvariant, NEW p \in Plugins, NextMessage(p)
  PROVE  ManagerInvariant'
<1> USE DEF ManagerInvariant
<1>1. /\ pc[p] = "next" /\ pc' = [pc EXCEPT ![p] = "read"] /\ queue' = queue
      /\ index' = [index EXCEPT ![p] = (index[p] + 1) % QueueSize]
      /\ do_free' = [do_free EXCEPT ![p] = FALSE]
      /\ UNCHANGED <<msg, can_read, stored, freed, stop, starting_msg>>
  BY DEF NextMessage, Goto, queue_vars, Types
<1>2. Thread(p) /\ p \in Joined /\ Joined' = Joined /\ NullWritten' = NullWritten /\ CallersUnchanged
  BY ThreadFrame, ThreadSteps DEF Thread
<1>3. Types' /\ pc'[p] = "read"
  <2>1. (index[p] + 1) % QueueSize \in Slots
    BY NextDistance DEF Types
  <2> QED
    BY <1>1, <1>2, <2>1 DEF Types, CallersUnchanged
<1>4. Base' = Base
  BY <1>1, <1>2 DEF Base, CallersUnchanged
<1>5. /\ Dropped(p)' = Dropped(p) /\ HoldsStart(p)' = HoldsStart(p) /\ Ahead(p)' = Ahead(p)
  BY <1>1, <1>3 DEF Dropped, HoldsStart, Ahead, Types
<1>6. StoredInvariant'
  BY <1>1, <1>4 DEF StoredInvariant
<1>7. PICK e \in -1 .. queue.count : At(p, e)
  BY <1>1, <1>2 DEF PlacesInvariant
<1>8. At(p, e)'
  <2>1. \A i : Distance(i)' = Distance(i) /\ Live(i)' = Live(i)
    BY <1>1 DEF Distance, Live
  <2> QED
    BY <1>1, <1>2, <1>3, <1>4, <1>5, <1>7, <2>1 DEF At
<1>9. can_read'[p] => ~Pending(p)
  BY <1>1, <1>2 DEF StartsInvariant
<1>10. can_read'[p] \/ stored'[p] = <<>>
  BY <1>1 DEF StartsInvariant
<1> QED
  BY <1>1, <1>2, <1>3, <1>5, <1>6, <1>7, <1>8, <1>9, <1>10, QuietStep

LEMMA ExitStep ==
  ASSUME ManagerInvariant, NEW p \in Plugins, Exit(p)
  PROVE  ManagerInvariant'
<1> USE DEF ManagerInvariant
<1>1. /\ pc[p] = "exit" /\ pc' = [pc EXCEPT ![p] = "ended"] /\ queue' = queue
      /\ starting_msg' = [starting_msg EXCEPT ![p] = NULL]
      /\ freed' = IF starting_msg[p] # NULL THEN freed \cup {starting_msg[p]} ELSE freed
      /\ UNCHANGED <<index, msg, can_read, do_free, stored, stop>>
  BY DEF Exit, Goto, queue_vars
<1>2. Thread(p) /\ p \in Joined /\ Joined' = Joined /\ NullWritten' = NullWritten /\ CallersUnchanged
  BY ThreadFrame, ThreadSteps DEF Thread
<1>3. Types' /\ pc'[p] = "ended"
  BY <1>1, <1>2 DEF Types, CallersUnchanged
<1>4. Base' = Base
  BY <1>1, <1>2 DEF Base, CallersUnchanged
<1>5. /\ Dropped(p)' = Dropped(p) /\ HoldsStart(p)' = HoldsStart(p) /\ Ahead(p)' = Ahead(p)
  BY <1>1, <1>3 DEF Dropped, HoldsStart, Ahead
<1>6. StoredInvariant'
  <2>1. starting_msg[p] # NULL => \E x \in Plugins : starting_msg[p] = Start(x)
    BY DEF Types
  <2>2. \A n \in Nat : Data(n) \in freed' => Data(n) \in freed
    BY <1>1, <2>1, Kinds
  <2> QED
    BY <1>1, <1>4, <2>2 DEF StoredInvariant
<1>7. PICK e \in -1 .. queue.count : At(p, e)
  BY <1>1, <1>2 DEF PlacesInvariant
<1>8. At(p, e)'
  <2>1. \A i : Distance(i)' = Distance(i) /\ Live(i)' = Live(i)
    BY <1>1 DEF Distance, Live
  <2> QED
    BY <1>1, <1>2, <1>3, <1>4, <1>5, <1>7, <2>1 DEF At
<1>9. can_read'[p] => ~Pending(p)
  BY <1>1, <1>2 DEF StartsInvariant
<1>10. can_read'[p] \/ stored'[p] = <<>>
  BY <1>1 DEF StartsInvariant
<1> QED
  BY <1>1, <1>2, <1>3, <1>5, <1>6, <1>7, <1>8, <1>9, <1>10, QuietStep

\* A thread that loads a data message has met its START, and the number of the
\* message is the number of messages it has stored.
LEMMA LoadDataStep ==
  ASSUME ManagerInvariant, NEW p \in Plugins, LoadData(p)
  PROVE  ManagerInvariant'
<1> USE DEF ManagerInvariant
<1>1. pc[p] = "load" /\ queue' = queue /\ Message(p).type = "data"
      /\ UNCHANGED <<index, can_read, do_free, stored, freed, stop, starting_msg>>
  BY DEF LoadData, queue_vars
<1>2. Thread(p) /\ p \in Joined /\ Joined' = Joined /\ NullWritten' = NullWritten /\ CallersUnchanged
  BY ThreadFrame, ThreadSteps DEF Thread
<1>3. PICK e \in -1 .. queue.count : At(p, e)
  BY <1>1, <1>2 DEF PlacesInvariant
<1>4. /\ e >= 0 /\ Base + e >= 0 /\ Message(p) = Data(Base + e) /\ Live(index[p])
      /\ Distance(index[p]) = e /\ NumberAt(index[p]) = Base + e /\ e < queue.count
      /\ index[p] \in Slots
  <2>1. /\ e < queue.count
        /\ e = -1 => \E x \in Joined \ {p} : Message(p) = Start(x)
        /\ e >= 0 =>
             /\ Live(index[p]) /\ Distance(index[p]) = e /\ NumberAt(index[p]) = Base + e
             /\ \/ \E x \in Joined : Message(p) = Start(x)
                \/ Message(p) = End
                \/ Base + e >= 0 /\ Message(p) = Data(Base + e)
    BY <1>1, <1>2, <1>3, Loaded
  <2>2. (\A x : Message(p) # Start(x)) /\ Message(p) # End
    BY <1>1, Kinds
  <2>3. index[p] \in Slots
    BY DEF Types
  <2> QED
    BY <2>1, <2>2, <2>3
<1>5. can_read[p]
  <2> SUFFICES ASSUME ~can_read[p] PROVE FALSE
    OBVIOUS
  <2>1. PICK k \in Slots : Live(k) /\ queue.data[k] = Start(p) /\ Distance(k) < Distance(index[p])
    BY <1>2, <1>4, NoDataBeforeStart
  <2>2. e <= Distance(k)
    BY <1>3, <2>1 DEF At
  <2> QED
    BY <1>4, <2>1, <2>2, DistanceInjective
<1>6. msg' = [msg EXCEPT ![p] = Message(p)] /\ pc' = [pc EXCEPT ![p] = "store"]
  BY <1>5 DEF LoadData, Goto
<1>7. Types' /\ pc'[p] = "store" /\ msg'[p] = Data(Base + e)
  <2>1. Base + e \in Nat
    BY <1>4, Numbers
  <2> QED
    BY <1>1, <1>2, <1>4, <1>6, <2>1 DEF Types, CallersUnchanged
<1>8. Base' = Base
  BY <1>1, <1>2 DEF Base, CallersUnchanged
<1>9. /\ Dropped(p)' = Dropped(p) /\ HoldsStart(p)' = HoldsStart(p) /\ Ahead(p)' = Ahead(p)
  BY <1>1, <1>7 DEF Dropped, HoldsStart, Ahead
<1>10. StoredInvariant'
  BY <1>1, <1>8 DEF StoredInvariant
<1>11. At(p, e)'
  <2>1. \A i : Distance(i)' = Distance(i) /\ Live(i)' = Live(i)
    BY <1>1 DEF Distance, Live
  <2> QED
    BY <1>1, <1>2, <1>3, <1>4, <1>5, <1>7, <1>8, <1>9, <2>1 DEF At, Message
<1>12. can_read'[p] => ~Pending(p)
  BY <1>1, <1>2 DEF StartsInvariant
<1> QED
  BY <1>1, <1>2, <1>3, <1>5, <1>7, <1>9, <1>10, <1>11, <1>12, QuietStep

LEMMA StoreStep ==
  ASSUME ManagerInvariant, NEW p \in Plugins, Store(p)
  PROVE  ManagerInvariant'
<1> USE DEF ManagerInvariant
<1>1. /\ pc[p] = "store" /\ pc' = [pc EXCEPT ![p] = "drop"] /\ queue' = queue
      /\ stored' = [stored EXCEPT ![p] = Append(stored[p], msg[p].number)]
      /\ msg' = [msg EXCEPT ![p] = End] /\ do_free' = [do_free EXCEPT ![p] = TRUE]
      /\ UNCHANGED <<index, can_read, freed, stop, starting_msg>>
  BY DEF Store, Goto, queue_vars
<1>2. Thread(p) /\ p \in Joined /\ Joined' = Joined /\ NullWritten' = NullWritten /\ CallersUnchanged
  BY ThreadFrame, ThreadSteps DEF Thread
<1>3. PICK e \in -1 .. queue.count : At(p, e)
  BY <1>1, <1>2 DEF PlacesInvariant
<1>4. /\ e >= 0 /\ queue.data[index[p]] = Data(Base + e) /\ msg[p] = Data(Base + e)
      /\ Base + e >= 0 /\ can_read[p] /\ e < queue.count /\ Dropped(p) = NotNegative(Base + e)
  BY <1>1, <1>3 DEF At
<1>5. Base + e \in Nat /\ msg[p].number = Base + e /\ stored[p] \in Seq(Nat)
  <2>1. Base + e \in Nat
    BY <1>4, Numbers
  <2>2. msg[p].number = Base + e
    BY <1>4, Kinds
  <2> QED
    BY <2>1, <2>2 DEF Types
<1>6. Len(stored[p]) = Base + e /\ Dropped(p) = Len(stored[p])
  BY <1>1, <1>4, <1>5 DEF Dropped, NotNegative
<1>7. /\ stored'[p] = Append(stored[p], Base + e) /\ stored'[p] \in Seq(Nat)
      /\ Len(stored'[p]) = Len(stored[p]) + 1
      /\ \A i \in 1 .. Len(stored'[p]) :
           stored'[p][i] = IF i = Len(stored[p]) + 1 THEN Base + e ELSE stored[p][i]
  <2>1. stored'[p] = Append(stored[p], Base + e)
    BY <1>1, <1>5 DEF Types
  <2> QED
    BY <1>5, <2>1
<1>8. Types' /\ pc'[p] = "drop" /\ do_free'[p] /\ can_read'[p]
  BY <1>1, <1>2, <1>4, <1>7 DEF Types, CallersUnchanged
<1>9. Base' = Base
  BY <1>1, <1>2 DEF Base, CallersUnchanged
<1>10. /\ Dropped(p)' = Dropped(p) /\ HoldsStart(p)' = HoldsStart(p) /\ Ahead(p)' = Ahead(p)
  BY <1>1, <1>4, <1>6, <1>7, <1>8 DEF Dropped, HoldsStart, Ahead
<1>11. StoredInvariant'
  <2>1. \A i \in 1 .. Len(stored'[p]) : stored'[p][i] = i - 1
    BY <1>5, <1>6, <1>7 DEF StoredInvariant
  <2>2. \A r \in Plugins : r # p => stored'[r] = stored[r]
    BY <1>1 DEF Types
  <2>3. \A r \in Plugins : \A i \in 1 .. Len(stored'[r]) : stored'[r][i] = i - 1
    BY <2>1, <2>2 DEF StoredInvariant
  <2> QED
    BY <1>1, <1>9, <2>3 DEF StoredInvariant
<1>12. At(p, e)'
  <2>1. \A i : Distance(i)' = Distance(i) /\ Live(i)' = Live(i)
    BY <1>1 DEF Distance, Live
  <2> QED
    BY <1>1, <1>2, <1>3, <1>4, <1>8, <1>9, <1>10, <2>1 DEF At
<1>13. can_read'[p] => ~Pending(p)
  BY <1>1, <1>2 DEF StartsInvariant
<1> QED
  BY <1>1, <1>2, <1>3, <1>4, <1>8, <1>10, <1>11, <1>12, <1>13, QuietStep

\* The START of the thread's own plugin switches it on; at the START of the
\* other plugin the thread goes on, though the slot may be released.
LEMMA LoadStartStep ==
  ASSUME ManagerInvariant, NEW p \in Plugins, LoadStart(p)
  PROVE  ManagerInvariant'
<1> USE DEF ManagerInvariant
<1>1. /\ pc[p] = "load" /\ queue' = queue /\ Message(p).type = "start"
      /\ UNCHANGED <<index, msg, stored, stop>>
  BY DEF LoadStart, queue_vars
<1>2. Thread(p) /\ p \in Joined /\ Joined' = Joined /\ NullWritten' = NullWritten /\ CallersUnchanged
  BY ThreadFrame, ThreadSteps DEF Thread
<1>3. PICK e \in -1 .. queue.count : At(p, e)
  BY <1>1, <1>2 DEF PlacesInvariant
<1>4. PICK x \in Joined : Message(p) = Start(x)
  <2>1. Message(p) \in QueueMessages
    BY QueueTypes DEF Message, Types
  <2>2. PICK y \in Plugins : Message(p) = Start(y)
    BY <1>1, <2>1, Kinds
  <2>3. y \in Joined
    BY <2>2 DEF StartsInvariant, Message, Types
  <2> QED
    BY <2>2, <2>3
<1>5. Base' = Base /\ Base \in Int
  BY <1>1, <1>2, Numbers DEF Base, CallersUnchanged
<1>6. /\ e < queue.count /\ queue.count \in Nat /\ index[p] \in Slots /\ Ahead(p) = index[p]
      /\ e = -1 => x # p /\ Base <= 0
      /\ e >= 0 => Live(index[p]) /\ Distance(index[p]) = e /\ Base + e < 0
  <2>1. /\ e < queue.count
        /\ e = -1 => \E y \in Joined \ {p} : Message(p) = Start(y)
        /\ e >= 0 =>
             /\ Live(index[p]) /\ Distance(index[p]) = e
             /\ \/ Base + e < 0
                \/ Message(p) = End
                \/ Message(p) = Data(Base + e)
    BY <1>1, <1>2, <1>3, Loaded
  <2>2. \A y : Message(p) = Start(y) => y = x
    BY <1>4, Kinds
  <2>3. Message(p) # End /\ Message(p) # Data(Base + e)
    BY <1>4, Kinds
  <2>4. e = -1 => Base <= 0
    BY <1>3 DEF At
  <2> QED
    BY <1>1, <2>1, <2>2, <2>3, <2>4, QueueTypes DEF Types, Ahead
<1>7. ForMe(p) <=> x = p
  BY <1>2, <1>4, Kinds DEF ForMe, PluginsInvariant
<1>8. \A i : Distance(i)' = Distance(i) /\ Live(i)' = Live(i)
  BY <1>1 DEF Distance, Live
<1>9. Dropped(p) = Len(stored[p]) /\ HoldsStart(p) = ~can_read[p]
  BY <1>1 DEF Dropped, HoldsStart, Types
<1>10. CASE x = p
  <2>1. /\ can_read' = [can_read EXCEPT ![p] = TRUE] /\ do_free' = [do_free EXCEPT ![p] = FALSE]
        /\ starting_msg' = [starting_msg EXCEPT ![p] = Start(p)]
        /\ freed' = IF starting_msg[p] # NULL THEN freed \cup {starting_msg[p]} ELSE freed
        /\ pc' = [pc EXCEPT ![p] = "drop"]
    BY <1>4, <1>7, <1>10 DEF LoadStart, Goto
  <2>2. Types' /\ pc'[p] = "drop" /\ ~do_free'[p] /\ can_read'[p]
    BY <1>1, <1>2, <2>1 DEF Types, CallersUnchanged
  <2>3. e >= 0 /\ queue.data[index[p]] = Start(p)
    BY <1>4, <1>6, <1>10 DEF Message
  <2>4. ~can_read[p]
    BY <1>1, <1>3, <1>6, <2>3 DEF At
  <2>5. Dropped(p)' = Dropped(p) /\ HoldsStart(p)' = HoldsStart(p) /\ Ahead(p)' = Ahead(p)
    BY <1>1, <1>6, <1>9, <2>2, <2>4 DEF Dropped, HoldsStart, Ahead
  <2>6. StoredInvariant'
    <3>1. starting_msg[p] # NULL => \E y \in Plugins : starting_msg[p] = Start(y)
      BY DEF Types
    <3>2. \A n \in Nat : Data(n) \in freed' => Data(n) \in freed
      BY <2>1, <3>1, Kinds
    <3> QED
      BY <1>1, <1>5, <3>2 DEF StoredInvariant
  <2>7. At(p, e)'
    <3>1. \A i \in Slots : Live(i) /\ queue.data[i] = Start(p) => Distance(i) = e
      BY <1>6, <2>3 DEF StartsInvariant
    <3> QED
      BY <1>1, <1>2, <1>3, <1>5, <1>6, <1>8, <2>2, <2>3, <2>5, <3>1 DEF At
  <2>8. ~Pending(p)
    BY <1>6, <2>3 DEF StartsInvariant
  <2> QED
    BY <1>1, <1>2, <1>3, <2>2, <2>4, <2>5, <2>6, <2>7, <2>8, QuietStep
<1>11. CASE x # p
  <2>1. pc' = [pc EXCEPT ![p] = "next"] /\ UNCHANGED <<can_read, starting_msg, do_free, freed>>
    BY <1>7, <1>11 DEF LoadStart, Goto
  <2>2. Types' /\ pc'[p] = "next"
    BY <1>1, <1>2, <2>1 DEF Types, CallersUnchanged
  <2>3. /\ Dropped(p)' = Dropped(p) /\ HoldsStart(p)' = HoldsStart(p)
        /\ Ahead(p)' = (index[p] + 1) % QueueSize
    BY <1>1, <1>9, <2>1, <2>2 DEF Dropped, HoldsStart, Ahead
  <2>4. StoredInvariant'
    BY <1>1, <1>5, <2>1 DEF StoredInvariant
  <2>5. e + 1 \in -1 .. queue.count
    BY <1>6
  <2>6. Ahead(p)' \in Slots /\ Distance(Ahead(p)') = e + 1
    <3>1. Distance(index[p]) = IF e = -1 THEN QueueSize - 1 ELSE e
      BY <1>3, <1>6 DEF At
    <3>2. queue.count < QueueSize
      BY DEF ContentsInvariant
    <3> QED
      BY <1>6, <2>3, <3>1, <3>2, NextDistance, QueueSizeAssumption
  <2>7. Dropped(p) = 0 /\ NotNegative(Base + (e + 1)) = 0
    <3>1. Base + (e + 1) <= 0 /\ Base + e <= 0
      BY <1>5, <1>6
    <3>2. Dropped(p) = NotNegative(Base + e)
      BY <1>3 DEF At
    <3> QED
      BY <1>5, <3>1, <3>2 DEF NotNegative
  <2>8. NullWritten => e + 1 < queue.count
    <3> SUFFICES ASSUME NullWritten, e = queue.count - 1 PROVE FALSE
      BY <1>6
    <3>1. queue.count > 0 /\ data \in Nat
      BY DEF ContentsInvariant, Types
    <3>2. Base = data - (queue.count - 1)
      BY DEF Base
    <3> QED
      BY <1>6, <3>1, <3>2
  <2>9. \A i \in Slots : Live(i) /\ queue.data[i] = Start(p) =>
          IF can_read[p] THEN Distance(i) < e + 1 ELSE e + 1 <= Distance(i)
    <3> SUFFICES ASSUME NEW i \in Slots, Live(i), queue.data[i] = Start(p)
                 PROVE  IF can_read[p] THEN Distance(i) < e + 1 ELSE e + 1 <= Distance(i)
      OBVIOUS
    <3>1. IF can_read[p] THEN Distance(i) < e ELSE e <= Distance(i)
      BY <1>1, <1>3 DEF At
    <3>2. e >= 0 => Distance(i) # e
      BY <1>4, <1>6, <1>11, DistanceInjective, Kinds DEF Message
    <3>3. Distance(i) \in Nat
      BY DistanceInjective
    <3> QED
      BY <1>6, <3>1, <3>2, <3>3
  <2>10. At(p, e + 1)'
    BY <1>1, <1>2, <1>5, <1>8, <2>1, <2>2, <2>3, <2>5, <2>6, <2>7, <2>8, <2>9 DEF At
  <2>11. can_read'[p] => ~Pending(p)
    BY <1>1, <1>2, <2>1 DEF StartsInvariant
  <2>12. can_read'[p] \/ stored'[p] = <<>>
    BY <1>1, <2>1 DEF StartsInvariant
  <2> QED
    BY <1>1, <1>2, <2>1, <2>2, <2>3, <2>4, <2>5, <2>10, <2>11, <2>12, QuietStep
<1> QED
  BY <1>10, <1>11

-----------------------------------------------------------------------------
(* References *)

LEMMA HoldersFinite ==
  ASSUME NEW n
  PROVE  IsFiniteSet(Holders(n)) /\ Cardinality(Holders(n)) \in Nat
<1>1. Holders(n) \subseteq Plugins
  BY DEF Holders, Joined
<1> QED
  BY <1>1, PluginsAssumption, FS_Subset, FS_CardinalityType

\* The thread drops a reference that it has: the one on its START is its own,
\* the ones on a data message are counted by the plugins that have not dropped
\* theirs.
LEMMA DropHasReference ==
  ASSUME ManagerInvariant, NEW p \in Joined, pc[p] \in {"store", "drop"},
         NEW e \in -1 .. queue.count, At(p, e)
  PROVE  /\ e >= 0 /\ e < queue.count /\ index[p] \in Slots
         /\ Live(index[p]) /\ Distance(index[p]) = e /\ NumberAt(index[p]) = Base + e
         /\ queue.data_references[index[p]] > 0
         /\ pc[p] = "drop" /\ ~do_free[p] => Base + e < 0 /\ queue.data[index[p]] = Start(p)
         /\ pc[p] = "store" \/ do_free[p] =>
              /\ Base + e >= 0 /\ queue.data[index[p]] = Data(Base + e)
              /\ p \in Holders(Base + e)
<1> USE DEF ManagerInvariant
<1>1. /\ e >= 0 /\ e < queue.count /\ index[p] \in Slots /\ Ahead(p) = index[p]
  BY DEF At, Ahead, Types, Joined
<1>2. Live(index[p]) /\ Distance(index[p]) = e /\ NumberAt(index[p]) = Base + e /\ Base + e \in Int
  BY <1>1, Numbers DEF At, Live
<1>3. CASE pc[p] = "drop" /\ ~do_free[p]
  <2>1. queue.data[index[p]] = Start(p)
    BY <1>3 DEF At
  <2>2. Base + e < 0
    BY <1>1, <1>2, <2>1, Kinds DEF ContentsInvariant
  <2>3. queue.data_references[index[p]] = 1
    BY <1>1, <1>2, <1>3, <2>1, <2>2 DEF ReferencesInvariant, HoldsStart, Joined
  <2> QED
    BY <1>1, <1>2, <1>3, <2>1, <2>2, <2>3
<1>4. CASE pc[p] = "store" \/ do_free[p]
  <2>1. queue.data[index[p]] = Data(Base + e) /\ Base + e >= 0 /\ Dropped(p) = Base + e
    <3>1. pc[p] = "store" \/ (pc[p] = "drop" /\ do_free[p])
      BY <1>4
    <3>2. queue.data[index[p]] = Data(Base + e) /\ Base + e >= 0 /\ Dropped(p) = NotNegative(Base + e)
      BY <3>1 DEF At
    <3> QED
      BY <1>2, <3>2 DEF NotNegative
  <2>2. p \in Holders(Base + e)
    BY <1>2, <2>1 DEF Holders
  <2>3. Cardinality(Holders(Base + e)) > 0
    BY <2>2, HoldersFinite, FS_EmptySet
  <2>4. queue.data_references[index[p]] = Cardinality(Holders(Base + e))
    BY <1>1, <1>2, <2>1 DEF ReferencesInvariant
  <2> QED
    BY <1>1, <1>2, <1>4, <2>1, <2>2, <2>3, <2>4
<1> QED
  BY <1>3, <1>4

LEMMA DropStep ==
  ASSUME ManagerInvariant, NEW p \in Plugins, Drop(p)
  PROVE  ManagerInvariant'
<1> USE DEF ManagerInvariant
<1>1. /\ pc[p] = "drop" /\ queue' = Unreference(queue, index[p])
      /\ UNCHANGED <<index, msg, can_read, do_free, stored, freed, stop, starting_msg>>
  BY DEF Drop
<1>2. /\ Thread(p) /\ p \in Joined /\ Joined' = Joined /\ NullWritten' = NullWritten /\ CallersUnchanged
      /\ CallsInvariant' /\ PluginsInvariant' /\ Others(p) /\ \A r : Pending(r)' = Pending(r)
  BY ThreadFrame, ThreadSteps DEF Thread
<1>3. PICK e \in -1 .. queue.count : At(p, e)
  BY <1>1, <1>2 DEF PlacesInvariant
<1>4. /\ e >= 0 /\ e < queue.count /\ index[p] \in Slots
      /\ Live(index[p]) /\ Distance(index[p]) = e /\ NumberAt(index[p]) = Base + e
      /\ queue.data_references[index[p]] > 0
      /\ ~do_free[p] => Base + e < 0 /\ queue.data[index[p]] = Start(p)
      /\ do_free[p] => /\ Base + e >= 0 /\ queue.data[index[p]] = Data(Base + e)
                       /\ p \in Holders(Base + e)
  BY <1>1, <1>2, <1>3, DropHasReference
<1>5. /\ queue' = [queue EXCEPT !.data_references = [queue.data_references EXCEPT ![index[p]] = @ - 1]]
      /\ pc' = [pc EXCEPT ![p] = "release"]
  <2>1. queue.data_references[index[p]] # 0
    BY <1>4
  <2>2. queue' = [queue EXCEPT !.data_references[index[p]] = IF @ = 0 THEN MaxReferences ELSE @ - 1]
    BY <1>1 DEF Unreference
  <2>3. pc' = [pc EXCEPT ![p] = "release"]
    BY <2>1 DEF Drop, Goto
  <2> QED
    BY <2>1, <2>2, <2>3
<1>6. /\ queue'.read_offset = queue.read_offset /\ queue'.write_offset = queue.write_offset
      /\ queue'.count = queue.count /\ queue'.data = queue.data
      /\ queue'.data_references = [queue.data_references EXCEPT ![index[p]] = @ - 1]
  BY <1>5 DEF Types
<1>7. Types' /\ pc'[p] = "release"
  <2>1. queue'.data_references \in [Slots -> Nat]
    BY <1>4, <1>6, QueueTypes
  <2>2. /\ queue' \in StoreQueues
    BY <1>5, <1>6, <2>1 DEF Types
  <2> QED
    BY <1>1, <1>2, <1>5, <2>2 DEF Types, CallersUnchanged
<1>8. /\ Base' = Base /\ Base \in Int
      /\ \A i : Distance(i)' = Distance(i) /\ Live(i)' = Live(i) /\ NumberAt(i)' = NumberAt(i)
  BY <1>2, <1>6, Numbers DEF CallersUnchanged, Base, Distance, Live, NumberAt
<1>9. /\ can_read[p] /\ ~HoldsStart(p)' /\ Ahead(p)' = (index[p] + 1) % QueueSize
      /\ Dropped(p) = NotNegative(Base + e)
      /\ Dropped(p)' = IF do_free[p] THEN Dropped(p) + 1 ELSE Dropped(p)
  <2>1. can_read[p] /\ Dropped(p) = NotNegative(Base + e)
    BY <1>1, <1>3 DEF At
  <2>2. Len(stored[p]) \in Nat
    BY Numbers
  <2> QED
    BY <1>1, <1>7, <2>1, <2>2 DEF HoldsStart, Ahead, Dropped
<1>10. StartsInvariant'
  <2>1. \A r \in Joined : pc'[r] = "created" => pc[r] = "created"
    BY <1>2, <1>7 DEF Others, Joined
  <2>2. from' = from
    BY <1>2 DEF CallersUnchanged
  <2> QED
    BY <1>1, <1>2, <1>6, <1>8, <2>1, <2>2 DEF StartsInvariant
<1>11. ContentsInvariant'
  BY <1>2, <1>6, <1>8 DEF ContentsInvariant
<1>12. ReferencesInvariant'
  <2>1. \A r \in Plugins : r # p => Dropped(r)' = Dropped(r) /\ HoldsStart(r)' = HoldsStart(r)
    BY <1>2 DEF Others, Dropped, HoldsStart
  <2> SUFFICES ASSUME NEW i \in Slots, Live(i)
               PROVE  IF NumberAt(i) < 0
                      THEN \A r \in Plugins : queue.data[i] = Start(r) =>
                             queue'.data_references[i] = IF HoldsStart(r)' THEN 1 ELSE 0
                      ELSE queue'.data_references[i] = Cardinality(Holders(NumberAt(i))')
    BY <1>6, <1>8 DEF ReferencesInvariant
  <2>2. NumberAt(i) \in Int /\ NumberAt(i) = Base + Distance(i) /\ Distance(i) \in Nat
    BY Numbers, DistanceInjective
  <2>3. queue'.data_references[i] = IF i = index[p] THEN queue.data_references[i] - 1
                                    ELSE queue.data_references[i]
    BY <1>4, <1>6, QueueTypes
  <2>4. CASE NumberAt(i) < 0
    <3> SUFFICES ASSUME NEW r \in Plugins, queue.data[i] = Start(r)
                 PROVE  queue'.data_references[i] = IF HoldsStart(r)' THEN 1 ELSE 0
      BY <2>4
    <3>1. queue.data_references[i] = IF HoldsStart(r) THEN 1 ELSE 0
      BY <2>4 DEF ReferencesInvariant
    <3>2. CASE i = index[p]
      <4>1. r = p /\ ~do_free[p]
        BY <1>4, <3>2, Kinds
      <4>2. HoldsStart(p)
        BY <1>1, <4>1 DEF HoldsStart
      <4> QED
        BY <1>9, <2>3, <3>1, <3>2, <4>1, <4>2
    <3>3. CASE i # index[p] /\ r # p
      BY <2>1, <2>3, <3>1, <3>3
    <3>4. CASE i # index[p] /\ r = p
      <4>1. do_free[p]
        BY <1>4, <3>4 DEF StartsInvariant
      <4>2. ~HoldsStart(p)
        BY <1>1, <1>9, <4>1 DEF HoldsStart
      <4> QED
        BY <1>9, <2>3, <3>1, <3>4, <4>2
    <3> QED
      BY <3>2, <3>3, <3>4
  <2>5. CASE NumberAt(i) >= 0
    <3>1. queue.data_references[i] = Cardinality(Holders(NumberAt(i)))
      BY <2>2, <2>5 DEF ReferencesInvariant
    <3>2. Dropped(p) \in Int
      BY Numbers
    <3>3. CASE i = index[p]
      <4>1. do_free[p] /\ Dropped(p) = NumberAt(i)
        BY <1>4, <1>9, <2>2, <2>5, <3>3 DEF NotNegative
      <4>2. Holders(NumberAt(i))' = Holders(NumberAt(i)) \ {p}
        BY <1>2, <1>8, <1>9, <2>1, <2>2, <4>1 DEF Holders, Joined
      <4>3. p \in Holders(NumberAt(i))
        BY <1>2, <2>2, <4>1 DEF Holders
      <4>4. Cardinality(Holders(NumberAt(i)) \ {p}) = Cardinality(Holders(NumberAt(i))) - 1
        BY <4>3, HoldersFinite, FS_RemoveElement
      <4>5. queue'.data_references[i] = Cardinality(Holders(NumberAt(i)) \ {p})
        BY <2>3, <3>1, <3>3, <4>4
      <4>6. queue'.data_references[i] = Cardinality(Holders(NumberAt(i))')
        BY <4>2, <4>5
      <4> QED
        BY <2>2, <2>5, <4>6
    <3>4. CASE i # index[p]
      <4>1. NumberAt(i) # Base + e
        BY <1>4, <1>8, <2>2, <3>4, DistanceInjective
      <4>2. Dropped(p)' <= NumberAt(i) <=> Dropped(p) <= NumberAt(i)
        BY <1>4, <1>8, <1>9, <2>2, <2>5, <3>2, <4>1 DEF NotNegative
      <4>3. Holders(NumberAt(i))' = Holders(NumberAt(i))
        BY <1>2, <1>8, <2>1, <4>2 DEF Holders, Joined
      <4> QED
        BY <2>2, <2>3, <2>5, <3>1, <3>4, <4>3
    <3> QED
      BY <3>3, <3>4
  <2> QED
    BY <2>2, <2>4, <2>5
<1>13. At(p, e + 1)' /\ e + 1 \in -1 .. queue.count
  <2>1. e + 1 \in -1 .. queue.count /\ e + 1 # -1
    BY <1>4, QueueTypes
  <2>2. Ahead(p)' \in Slots /\ Distance(Ahead(p)') = e + 1
    <3>1. queue.count < QueueSize /\ queue.count \in Nat
      BY QueueTypes DEF ContentsInvariant
    <3> QED
      BY <1>4, <1>9, <3>1, NextDistance, QueueSizeAssumption
  <2>3. Dropped(p)' = NotNegative(Base + (e + 1))
    BY <1>4, <1>8, <1>9 DEF NotNegative
  <2>4. \A i \in Slots : Live(i) /\ queue.data[i] = Start(p) => Distance(i) < e + 1
    <3>1. \A i \in Slots : Live(i) /\ queue.data[i] = Start(p) => Distance(i) < e \/ Distance(i) = e
      BY <1>3, <1>9 DEF At
    <3> QED
      BY <3>1, DistanceInjective
  <2>5. NullWritten => e + 1 < queue.count
    <3> SUFFICES ASSUME NullWritten, e = queue.count - 1 PROVE FALSE
      BY <1>4, QueueTypes
    <3>1. data \in Nat /\ queue.count \in Nat
      BY QueueTypes DEF Types
    <3>2. Base + e >= 0
      BY <1>8, <3>1 DEF Base
    <3>3. queue.data[index[p]] = End
      BY <1>4, <1>8, <3>2 DEF ContentsInvariant
    <3> QED
      BY <1>4, <1>8, <3>2, <3>3, Kinds
  <2> QED
    BY <1>1, <1>2, <1>6, <1>7, <1>8, <1>9, <2>1, <2>2, <2>3, <2>4, <2>5 DEF At
<1>14. PlacesInvariant'
  <2> SUFFICES ASSUME NEW r \in Joined, pc'[r] # "created"
               PROVE  \E d \in -1 .. queue.count : At(r, d)'
    BY <1>2, <1>6 DEF PlacesInvariant
  <2>1. CASE r = p
    BY <1>13, <2>1
  <2>2. CASE r # p
    <3>1. /\ pc'[r] = pc[r] /\ index'[r] = index[r] /\ msg'[r] = msg[r]
          /\ can_read'[r] = can_read[r] /\ do_free'[r] = do_free[r] /\ stored'[r] = stored[r]
      BY <1>2, <2>2 DEF Others, Joined
    <3>2. PICK d \in -1 .. queue.count : At(r, d)
      BY <3>1 DEF PlacesInvariant
    <3>3. At(r, d)'
      BY <1>2, <1>6, <1>8, <3>1, <3>2, AtFrame
    <3> QED
      BY <3>3
  <2> QED
    BY <2>1, <2>2
<1>15. StoredInvariant'
  BY <1>1, <1>8 DEF StoredInvariant
<1> QED
  BY <1>2, <1>7, <1>10, <1>11, <1>12, <1>14, <1>15

-----------------------------------------------------------------------------
(* Giving up the oldest slots *)

\* The remaining slots come n places nearer.
LEMMA Released ==
  ASSUME Types, queue.count < QueueSize, NEW n \in 0 .. queue.count, queue' = Release(queue, n)
  PROVE  /\ queue'.read_offset \in Slots /\ queue'.count = queue.count - n /\ queue'.count \in Nat
         /\ queue'.write_offset = queue.write_offset /\ queue'.data = queue.data
         /\ queue'.data_references = queue.data_references
         /\ queue' \in StoreQueues
         /\ \A i \in Slots :
              /\ Distance(i)' = IF Distance(i) >= n THEN Distance(i) - n ELSE Distance(i) - n + QueueSize
              /\ Live(i)' <=> Live(i) /\ Distance(i) >= n
<1>1. n \in 0 .. QueueSize - 1 /\ queue.count - n \in Nat /\ n \in Nat /\ queue.count \in Nat
  BY QueueTypes, QueueSizeAssumption
<1>2. /\ SlotAt(queue, n) \in Slots
      /\ SlotAt(queue, n) = IF queue.read_offset + n < QueueSize
                            THEN queue.read_offset + n
                            ELSE queue.read_offset + n - QueueSize
  BY <1>1, QueueTypes, WrapMany, SlotAtDistance DEF SlotAt
<1>3. queue' = [queue EXCEPT !.read_offset = SlotAt(queue, n), !.count = queue.count - n]
  BY DEF Release
<1>4. /\ queue'.read_offset = SlotAt(queue, n) /\ queue'.count = queue.count - n
      /\ queue'.write_offset = queue.write_offset /\ queue'.data = queue.data
      /\ queue'.data_references = queue.data_references
  BY <1>3 DEF Types
<1>5. queue' \in StoreQueues
  BY <1>1, <1>2, <1>3 DEF Types
<1>6. ASSUME NEW i \in Slots
      PROVE  Distance(i)' = IF Distance(i) >= n THEN Distance(i) - n ELSE Distance(i) - n + QueueSize
  <2>1. queue.read_offset \in Slots
    BY QueueTypes
  <2>2. QueueSize \in Nat
    BY QueueSizeAssumption
  <2> QED
    BY <1>1, <1>2, <1>4, <2>1, <2>2 DEF Distance, DistanceFrom, Slots
<1>7. ASSUME NEW i \in Slots
      PROVE  Live(i)' <=> Live(i) /\ Distance(i) >= n
  <2>1. Distance(i) \in Nat
    BY DistanceInjective
  <2> QED
    BY <1>1, <1>4, <1>6, <2>1, QueueSizeAssumption DEF Live
<1> QED
  BY <1>1, <1>2, <1>4, <1>5, <1>6, <1>7

\* What is released ahead of a thread, or where it stands, are STARTs of
\* other plugins.
LEMMA ReleasedAhead ==
  ASSUME ManagerInvariant, NEW r \in Joined, NEW e \in -1 .. queue.count, At(r, e),
         NEW i \in Slots, Live(i), e <= Distance(i), queue.data_references[i] = 0
  PROVE  Base + Distance(i) < 0 /\ \E x \in Joined \ {r} : queue.data[i] = Start(x)
<1> USE DEF ManagerInvariant
<1>1. /\ Base \in Int /\ NumberAt(i) = Base + Distance(i) /\ Distance(i) \in Nat /\ e \in Int
  BY Numbers, DistanceInjective
<1>2. NumberAt(i) < 0
  <2> SUFFICES ASSUME NumberAt(i) >= 0 PROVE FALSE
    BY <1>1
  <2>1. queue.data_references[i] = Cardinality(Holders(NumberAt(i)))
    BY <1>1 DEF ReferencesInvariant
  <2>2. Holders(NumberAt(i)) = {}
    BY <2>1, HoldersFinite, FS_EmptySet
  <2>3. Dropped(r) = NotNegative(Base + e)
    BY DEF At
  <2>4. Dropped(r) <= NumberAt(i)
    BY <1>1, <2>3 DEF NotNegative
  <2> QED
    BY <2>2, <2>4 DEF Holders
<1>3. PICK x \in Joined : queue.data[i] = Start(x)
  BY <1>2 DEF ContentsInvariant
<1>4. ~HoldsStart(x)
  BY <1>2, <1>3 DEF ReferencesInvariant, Joined
<1>5. x # r
  <2> SUFFICES ASSUME x = r PROVE FALSE
    OBVIOUS
  <2>1. can_read[r] /\ ~(pc[r] = "drop" /\ ~do_free[r])
    BY <1>4 DEF HoldsStart
  <2>2. Distance(i) < e
    BY <1>3, <2>1 DEF At
  <2> QED
    BY <1>1, <2>2
<1> QED
  BY <1>1, <1>2, <1>3, <1>5

\* The queue is released at most to the place after the one a thread stands at,
\* and that only at the START of the other plugin.
LEMMA ReleasedUpTo ==
  ASSUME FixedPlugins, ManagerInvariant, NEW n \in 0 .. queue.count, Releasable(queue, n),
         NEW r \in Joined, NEW e \in -1 .. queue.count, At(r, e)
  PROVE  /\ n <= e + 1
         /\ e = -1 => n = 0
         /\ n = e + 1 /\ e >= 0 =>
              Base + e < 0 /\ \E x \in Joined \ {r} : queue.data[Ahead(r)] = Start(x)
         /\ NullWritten => n < queue.count
<1> USE DEF ManagerInvariant
<1>0. /\ queue.count \in Nat /\ queue.count < QueueSize /\ Base \in Int /\ QueueSize \in Nat
      /\ e \in Int /\ n \in Nat
  BY QueueTypes, Numbers, QueueSizeAssumption DEF ContentsInvariant
<1>1. ASSUME NEW j \in 0 .. n - 1
      PROVE  /\ SlotAt(queue, j) \in Slots /\ Distance(SlotAt(queue, j)) = j
             /\ Live(SlotAt(queue, j)) /\ queue.data_references[SlotAt(queue, j)] = 0
  <2>1. j \in 0 .. QueueSize - 1 /\ j < queue.count
    BY <1>0
  <2>2. queue.data_references[SlotAt(queue, j)] = 0
    BY DEF Releasable
  <2> QED
    BY <2>1, <2>2, SlotAtDistance DEF Live
<1>2. ASSUME NEW j \in 0 .. n - 1, e <= j
      PROVE  Base + j < 0 /\ \E x \in Joined \ {r} : queue.data[SlotAt(queue, j)] = Start(x)
  BY <1>1, <1>2, ReleasedAhead
<1>3. n <= e + 1 /\ (e = -1 => n = 0)
  <2>1. CASE e >= 0
    <3> SUFFICES ASSUME n > e + 1 PROVE FALSE
      BY <1>0, <2>1
    <3>1. e \in 0 .. n - 1 /\ e + 1 \in 0 .. n - 1 /\ e <= e /\ e <= e + 1
      BY <1>0, <2>1
    <3>2. PICK x \in Joined \ {r} : queue.data[SlotAt(queue, e)] = Start(x)
      BY <1>2, <3>1
    <3>3. PICK y \in Joined \ {r} : queue.data[SlotAt(queue, e + 1)] = Start(y)
      BY <1>2, <3>1
    <3>4. x = y
      BY OneOther
    <3>5. SlotAt(queue, e) = SlotAt(queue, e + 1)
      BY <1>1, <3>1, <3>2, <3>3, <3>4 DEF StartsInvariant, Joined
    <3> QED
      BY <1>0, <1>1, <3>1, <3>5
  <2>2. CASE e = -1
    <3> SUFFICES ASSUME n > 0 PROVE FALSE
      BY <1>0, <2>2
    <3>1. 0 \in 0 .. n - 1 /\ e <= 0
      BY <1>0, <2>2
    <3>2. PICK x \in Joined \ {r} : queue.data[SlotAt(queue, 0)] = Start(x)
      BY <1>2, <3>1
    <3>3. PICK y \in Joined \ {r} : queue.data[Ahead(r)] = Start(y)
      BY <2>2 DEF At
    <3>4. x = y
      BY OneOther
    <3>5. Ahead(r) \in Slots /\ Distance(Ahead(r)) = QueueSize - 1
      BY <2>2 DEF At
    <3>6. SlotAt(queue, 0) = Ahead(r)
      BY <1>1, <3>1, <3>2, <3>3, <3>4, <3>5 DEF StartsInvariant, Joined
    <3>7. Distance(SlotAt(queue, 0)) = 0
      BY <1>1, <3>1
    <3> QED
      BY <3>5, <3>6, <3>7, QueueSizeAssumption
  <2> QED
    BY <1>0, <2>1, <2>2
<1>4. ASSUME n = e + 1, e >= 0
      PROVE  Base + e < 0 /\ \E x \in Joined \ {r} : queue.data[Ahead(r)] = Start(x)
  <2>1. e \in 0 .. n - 1 /\ e <= e
    BY <1>0, <1>4
  <2>2. Ahead(r) \in Slots /\ Distance(Ahead(r)) = e
    BY <1>0, <1>4 DEF At
  <2>3. Ahead(r) = SlotAt(queue, e)
    BY <1>1, <2>1, <2>2, DistanceInjective
  <2> QED
    BY <1>2, <2>1, <2>3
<1>5. ASSUME NullWritten, n = queue.count PROVE FALSE
  <2>1. e < queue.count
    BY <1>5 DEF At
  <2>2. queue.count > 0
    BY <1>5 DEF ContentsInvariant
  <2>3. queue.count - 1 \in 0 .. n - 1 /\ e <= queue.count - 1
    BY <1>0, <1>5, <2>1, <2>2
  <2>4. Base + (queue.count - 1) < 0
    BY <1>2, <2>3
  <2>5. Base = data - (queue.count - 1) /\ data \in Nat
    BY <1>5 DEF Base, Types
  <2> QED
    BY <1>0, <2>4, <2>5
<1> QED
  BY <1>0, <1>3, <1>4, <1>5

\* The place of a thread after a release.
LEMMA AtReleased ==
  ASSUME FixedPlugins, ManagerInvariant, NEW n \in 0 .. queue.count, Releasable(queue, n),
         queue' = Release(queue, n), Base' = Base + n, NullWritten' = NullWritten, Joined' = Joined,
         NEW r \in Joined, NEW e \in -1 .. queue.count, At(r, e),
         Ahead(r)' = Ahead(r), Dropped(r)' = Dropped(r),
         pc'[r] = pc[r] \/ (pc[r] = "release" /\ pc'[r] = "next"),
         index'[r] = index[r], msg'[r] = msg[r],
         can_read'[r] = can_read[r], do_free'[r] = do_free[r]
  PROVE  At(r, e - n)' /\ e - n \in -1 .. queue'.count
<1> USE DEF ManagerInvariant
<1>0. /\ queue.count \in Nat /\ queue.count < QueueSize /\ Base \in Int /\ QueueSize \in Nat
      /\ e \in Int /\ n \in Nat
  BY QueueTypes, Numbers, QueueSizeAssumption DEF ContentsInvariant
<1>1. /\ n <= e + 1
      /\ e = -1 => n = 0
      /\ n = e + 1 /\ e >= 0 =>
           Base + e < 0 /\ \E x \in Joined \ {r} : queue.data[Ahead(r)] = Start(x)
  BY ReleasedUpTo
<1>2. /\ queue'.count = queue.count - n /\ queue'.data = queue.data
      /\ \A i \in Slots :
           /\ Distance(i)' = IF Distance(i) >= n THEN Distance(i) - n ELSE Distance(i) - n + QueueSize
           /\ Live(i)' <=> Live(i) /\ Distance(i) >= n
  BY <1>0, Released
<1>3. \A i \in Slots : Distance(i) \in Nat
  BY DistanceInjective
<1>4. e - n \in -1 .. queue'.count /\ Base' + (e - n) = Base + e
  BY <1>0, <1>1, <1>2
<1>5. /\ Ahead(r) \in Slots
      /\ Distance(Ahead(r)) = IF e = -1 THEN QueueSize - 1 ELSE e
      /\ Dropped(r) = NotNegative(Base + e)
      /\ e = -1 => Base <= 0 /\ \E x \in Joined \ {r} : queue.data[Ahead(r)] = Start(x)
  BY DEF At
<1>6. Distance(Ahead(r))' = IF e - n = -1 THEN QueueSize - 1 ELSE e - n
  <2>1. Distance(Ahead(r))' = IF Distance(Ahead(r)) >= n THEN Distance(Ahead(r)) - n
                              ELSE Distance(Ahead(r)) - n + QueueSize
    BY <1>2, <1>5 DEF Distance
  <2> QED
    BY <1>0, <1>1, <1>5, <2>1, QueueSizeAssumption
<1>7. e - n = -1 => Base' <= 0 /\ \E x \in Joined \ {r} : queue.data[Ahead(r)] = Start(x)
  BY <1>0, <1>1, <1>5
<1>8. \A i \in Slots : Live(i)' /\ queue.data[i] = Start(r) =>
        IF can_read[r]
        THEN Distance(i)' < e - n \/ (Distance(i)' = e - n /\ pc[r] = "drop" /\ ~do_free[r])
        ELSE e - n <= Distance(i)'
  <2> SUFFICES ASSUME NEW i \in Slots, Live(i)', queue.data[i] = Start(r)
               PROVE  IF can_read[r]
                      THEN Distance(i)' < e - n \/ (Distance(i)' = e - n /\ pc[r] = "drop" /\ ~do_free[r])
                      ELSE e - n <= Distance(i)'
    OBVIOUS
  <2>1. Live(i) /\ Distance(i) >= n /\ Distance(i)' = Distance(i) - n
    BY <1>2
  <2>2. IF can_read[r] THEN Distance(i) < e \/ (Distance(i) = e /\ pc[r] = "drop" /\ ~do_free[r])
                       ELSE e <= Distance(i)
    BY <2>1 DEF At
  <2>3. Distance(i) \in Nat
    BY <1>3
  <2> QED
    BY <1>0, <2>1, <2>2, <2>3
<1>9. NullWritten \/ pc[r] \in {"load", "store", "drop"} => e - n < queue'.count
  <2>1. NullWritten \/ pc[r] \in {"load", "store", "drop"} => e < queue.count
    BY DEF At
  <2> QED
    BY <1>0, <1>2, <2>1
<1>10. pc[r] \in {"store", "drop"} => e - n >= 0
  <2> SUFFICES ASSUME pc[r] \in {"store", "drop"}, n > e PROVE FALSE
    BY <1>0
  <2>1. e >= 0 /\ index[r] \in Slots /\ Distance(index[r]) = e /\ queue.data_references[index[r]] > 0
    BY DropHasReference
  <2>2. e \in 0 .. n - 1 /\ e \in 0 .. QueueSize - 1
    BY <1>0, <2>1
  <2>3. SlotAt(queue, e) = index[r]
    BY <2>1, <2>2, SlotAtDistance, DistanceInjective
  <2> QED
    BY <2>1, <2>2, <2>3 DEF Releasable
<1>11. pc[r] \in {"exit", "ended"} => NullWritten /\ e - n = queue'.count - 1
  <2>1. pc[r] \in {"exit", "ended"} => NullWritten /\ e = queue.count - 1
    BY DEF At
  <2> QED
    BY <1>0, <1>2, <2>1
<1>12. /\ pc[r] = "store" => /\ queue.data[index[r]] = Data(Base + e) /\ msg[r] = Data(Base + e)
                             /\ Base + e >= 0 /\ can_read[r]
       /\ pc[r] = "drop" =>
            /\ can_read[r]
            /\ IF do_free[r] THEN queue.data[index[r]] = Data(Base + e) /\ Base + e >= 0
                             ELSE queue.data[index[r]] = Start(r)
  BY DEF At
<1>13. CASE pc'[r] = pc[r]
  BY <1>2, <1>4, <1>5, <1>6, <1>7, <1>8, <1>9, <1>10, <1>11, <1>12, <1>13 DEF At
<1>14. CASE pc[r] = "release" /\ pc'[r] = "next"
  BY <1>2, <1>4, <1>5, <1>6, <1>7, <1>8, <1>9, <1>14 DEF At
<1> QED
  BY <1>4, <1>13, <1>14

LEMMA ReleaseOldestStep ==
  ASSUME FixedPlugins, ManagerInvariant, NEW p \in Plugins, ReleaseOldest(p)
  PROVE  ManagerInvariant'
<1> USE DEF ManagerInvariant
<1>1. /\ pc[p] = "release" /\ pc' = [pc EXCEPT ![p] = "next"]
      /\ UNCHANGED <<index, msg, can_read, do_free, stored, stop, starting_msg>>
  BY DEF ReleaseOldest, Goto
<1>2. PICK n \in 0 .. queue.count :
        /\ Releasable(queue, n) /\ queue' = Release(queue, n)
        /\ freed' = IF do_free[p] THEN freed \cup (Oldest(queue, n) \ {End}) ELSE freed
  BY DEF ReleaseOldest
<1>3. /\ Thread(p) /\ p \in Joined /\ Joined' = Joined /\ NullWritten' = NullWritten /\ CallersUnchanged
      /\ CallsInvariant' /\ PluginsInvariant' /\ Others(p) /\ \A r : Pending(r)' = Pending(r)
  BY ThreadFrame, ThreadSteps DEF Thread
<1>4. /\ queue.count \in Nat /\ queue.count < QueueSize /\ Base \in Int /\ QueueSize \in Nat
      /\ n \in Nat
  BY QueueTypes, Numbers, QueueSizeAssumption DEF ContentsInvariant
<1>5. /\ queue'.read_offset \in Slots /\ queue'.count = queue.count - n /\ queue'.count \in Nat
      /\ queue'.write_offset = queue.write_offset /\ queue'.data = queue.data
      /\ queue'.data_references = queue.data_references
      /\ queue' \in StoreQueues
      /\ \A i \in Slots :
           /\ Distance(i)' = IF Distance(i) >= n THEN Distance(i) - n ELSE Distance(i) - n + QueueSize
           /\ Live(i)' <=> Live(i) /\ Distance(i) >= n
  BY <1>2, <1>4, Released
<1>6. Types' /\ pc'[p] = "next"
  BY <1>1, <1>3, <1>5 DEF Types, CallersUnchanged
<1>7. Base' = Base + n
  <2>1. data \in Nat
    BY DEF Types
  <2> QED
    BY <1>3, <1>4, <1>5, <2>1 DEF Base, CallersUnchanged
<1>8. \A r \in Plugins :
        /\ Dropped(r)' = Dropped(r) /\ HoldsStart(r)' = HoldsStart(r) /\ Ahead(r)' = Ahead(r)
        /\ pc'[r] = pc[r] \/ (pc[r] = "release" /\ pc'[r] = "next")
  BY <1>1, <1>6 DEF Dropped, HoldsStart, Ahead, Types
<1>9. ASSUME NEW i \in Slots, Live(i)'
      PROVE  /\ Live(i) /\ Distance(i) >= n /\ Distance(i)' = Distance(i) - n
             /\ NumberAt(i)' = NumberAt(i) /\ Distance(i) \in Nat
  <2>1. Live(i) /\ Distance(i) >= n /\ Distance(i)' = Distance(i) - n
    BY <1>5, <1>9
  <2>2. Distance(i) \in Nat
    BY DistanceInjective
  <2> QED
    BY <1>4, <1>7, <2>1, <2>2 DEF NumberAt
<1>10. ASSUME NEW i \in Slots, Live(i), queue.data_references[i] # 0
       PROVE  Live(i)'
  <2> SUFFICES ASSUME Distance(i) < n PROVE FALSE
    BY <1>4, <1>5, <1>10, DistanceInjective
  <2>1. Distance(i) \in 0 .. n - 1 /\ Distance(i) \in 0 .. QueueSize - 1
    BY <1>4, DistanceInjective
  <2>2. SlotAt(queue, Distance(i)) = i
    BY <2>1, SlotAtDistance, DistanceInjective
  <2> QED
    BY <1>2, <1>10, <2>1, <2>2 DEF Releasable
<1>11. NullWritten => n < queue.count
  <2>1. PICK e \in -1 .. queue.count : At(p, e)
    BY <1>1, <1>3 DEF PlacesInvariant
  <2> QED
    BY <1>2, <1>3, <2>1, ReleasedUpTo
<1>12. StartsInvariant'
  <2>1. \A r \in Joined : pc'[r] = "created" => pc[r] = "created"
    BY <1>8 DEF Joined
  <2>2. from' = from
    BY <1>3 DEF CallersUnchanged
  <2>3. ASSUME NEW r \in Joined, ~can_read[r], ~Pending(r)
        PROVE  \E i \in Slots : Live(i)' /\ queue.data[i] = Start(r)
    <3>1. PICK i \in Slots : Live(i) /\ queue.data[i] = Start(r)
      BY <2>3 DEF StartsInvariant
    <3>2. NumberAt(i) < 0
      BY <3>1, Kinds DEF ContentsInvariant
    <3>3. queue.data_references[i] = 1
      BY <2>3, <3>1, <3>2 DEF ReferencesInvariant, HoldsStart, Joined
    <3> QED
      BY <1>10, <3>1, <3>3
  <2> QED
    BY <1>1, <1>3, <1>5, <2>1, <2>2, <2>3 DEF StartsInvariant
<1>13. ContentsInvariant'
  <2>1. queue'.count < QueueSize
    BY <1>4, <1>5
  <2>2. Distance(queue.write_offset)' = queue'.count
    <3>1. queue.write_offset \in Slots /\ Distance(queue.write_offset) = queue.count
      BY QueueTypes DEF ContentsInvariant
    <3>2. Distance(queue.write_offset)' = DistanceFrom(queue'.read_offset, queue.write_offset)
      BY <1>5 DEF Distance
    <3>3. ASSUME NEW w \in Slots, Distance(w) = queue.count
          PROVE  DistanceFrom(queue'.read_offset, w) = queue'.count
      <4>1. Distance(w)' = IF Distance(w) >= n THEN Distance(w) - n ELSE Distance(w) - n + QueueSize
        BY <1>5
      <4> QED
        BY <1>4, <1>5, <3>3, <4>1 DEF Distance
    <3> QED
      BY <3>1, <3>2, <3>3
  <2>3. NullWritten => queue'.count > 0
    BY <1>4, <1>5, <1>11
  <2>4. ASSUME NEW i \in Slots, Live(i)'
        PROVE  IF NumberAt(i)' < 0 THEN \E r \in Joined : queue.data[i] = Start(r)
               ELSE IF NullWritten /\ Distance(i)' = queue'.count - 1 THEN queue.data[i] = End
               ELSE queue.data[i] = Data(NumberAt(i)')
    <3>1. /\ Live(i) /\ Distance(i) >= n /\ Distance(i)' = Distance(i) - n
          /\ NumberAt(i)' = NumberAt(i) /\ Distance(i) \in Nat
      BY <1>9, <2>4
    <3>2. Distance(i)' = queue'.count - 1 <=> Distance(i) = queue.count - 1
      BY <1>4, <1>5, <3>1
    <3> QED
      BY <3>1, <3>2 DEF ContentsInvariant
  <2> QED
    BY <1>3, <1>5, <2>1, <2>2, <2>3, <2>4 DEF ContentsInvariant
<1>14. ReferencesInvariant'
  <2>0. \A r \in Joined : Dropped(r)' = Dropped(r)
    BY <1>8 DEF Joined
  <2>1. \A m : Holders(m)' = Holders(m)
    BY <1>3, <2>0 DEF Holders
  <2> SUFFICES ASSUME NEW i \in Slots, Live(i)'
               PROVE  IF NumberAt(i)' < 0
                      THEN \A r \in Plugins : queue.data[i] = Start(r) =>
                             queue.data_references[i] = IF HoldsStart(r)' THEN 1 ELSE 0
                      ELSE queue.data_references[i] = Cardinality(Holders(NumberAt(i))')
    BY <1>5 DEF ReferencesInvariant
  <2>2. Live(i) /\ NumberAt(i)' = NumberAt(i)
    BY <1>9
  <2>3. Holders(NumberAt(i))' = Holders(NumberAt(i))
    BY <2>1, <2>2 DEF Holders
  <2>4. \A r \in Plugins : HoldsStart(r)' = HoldsStart(r)
    BY <1>8
  <2>5. IF NumberAt(i) < 0
        THEN \A r \in Plugins : queue.data[i] = Start(r) =>
               queue.data_references[i] = IF HoldsStart(r) THEN 1 ELSE 0
        ELSE queue.data_references[i] = Cardinality(Holders(NumberAt(i)))
    BY <2>2 DEF ReferencesInvariant
  <2>6. CASE NumberAt(i) < 0
    BY <2>2, <2>4, <2>5, <2>6
  <2>7. CASE ~(NumberAt(i) < 0)
    <3>1. queue.data_references[i] = Cardinality(Holders(NumberAt(i))')
      BY <2>3, <2>5, <2>7
    <3> QED
      BY <2>2, <2>7, <3>1
  <2> QED
    BY <2>6, <2>7
<1>15. PlacesInvariant'
  <2> SUFFICES ASSUME NEW r \in Joined, pc'[r] # "created"
               PROVE  \E d \in -1 .. queue'.count : At(r, d)'
    BY <1>3 DEF PlacesInvariant
  <2>1. r \in Plugins
    BY DEF Joined
  <2>2. pc[r] # "created"
    BY <1>8, <2>1
  <2>3. PICK e \in -1 .. queue.count : At(r, e)
    BY <2>2 DEF PlacesInvariant
  <2>4. At(r, e - n)' /\ e - n \in -1 .. queue'.count
    <3>1. /\ Ahead(r)' = Ahead(r) /\ Dropped(r)' = Dropped(r)
          /\ pc'[r] = pc[r] \/ (pc[r] = "release" /\ pc'[r] = "next")
      BY <1>8, <2>1
    <3>2. /\ index'[r] = index[r] /\ msg'[r] = msg[r]
          /\ can_read'[r] = can_read[r] /\ do_free'[r] = do_free[r]
      BY <1>1
    <3> QED
      BY <1>2, <1>3, <1>7, <2>3, <3>1, <3>2, AtReleased
  <2> QED
    BY <2>4
<1>16. StoredInvariant'
  <2> SUFFICES ASSUME NEW m \in Nat, Data(m) \in freed' PROVE m < Base'
    BY <1>1 DEF StoredInvariant
  <2>1. CASE Data(m) \in freed
    <3>1. m < Base
      BY <2>1 DEF StoredInvariant
    <3> QED
      BY <1>4, <1>7, <3>1
  <2>2. CASE Data(m) \in Oldest(queue, n)
    <3>1. PICK j \in 0 .. n - 1 : queue.data[SlotAt(queue, j)] = Data(m)
      BY <2>2 DEF Oldest
    <3>2. j \in 0 .. QueueSize - 1 /\ j < queue.count /\ j \in Nat /\ j < n
      BY <1>4
    <3>3. SlotAt(queue, j) \in Slots /\ Distance(SlotAt(queue, j)) = j /\ Live(SlotAt(queue, j))
      BY <3>2, SlotAtDistance DEF Live
    <3>4. Data(m) = Data(NumberAt(SlotAt(queue, j)))
      BY <3>1, <3>3, Kinds DEF ContentsInvariant
    <3>5. m = Base + j
      BY <3>3, <3>4, Kinds, Numbers
    <3> QED
      BY <1>4, <1>7, <3>2, <3>5
  <2> QED
    BY <1>2, <2>1, <2>2
<1> QED
  BY <1>3, <1>6, <1>12, <1>13, <1>14, <1>15, <1>16

\* Every step of a thread.
LEMMA ThreadStep ==
  ASSUME FixedPlugins, ManagerInvariant, NEW p \in Plugins, Thread(p)
  PROVE  ManagerInvariant'
BY BeginStep, SeeMessageStep, LoadEndStep, LoadStopStep, LoadStartStep, LoadDataStep,
   StoreStep, DropStep, ReleaseOldestStep, NextMessageStep, ExitStep DEF Thread

-----------------------------------------------------------------------------
(* Writing a message *)

\* The slot at write_offset comes to the end of the queue, with message m and
\* k references.
Appended(m, k) ==
  /\ queue' \in StoreQueues
  /\ queue'.count = queue.count + 1 /\ queue'.count < QueueSize
  /\ queue.write_offset \in Slots /\ Distance(queue.write_offset) = queue.count
  /\ Distance(queue.write_offset)' = queue'.count
  /\ \A i \in Slots :
       /\ Distance(i)' = Distance(i)
       /\ Live(i)' <=> Live(i) \/ i = queue.write_offset
       /\ Live(i) => i # queue.write_offset
       /\ queue'.data[i] = IF i = queue.write_offset THEN m ELSE queue.data[i]
       /\ queue'.data_references[i] =
            IF i = queue.write_offset THEN k ELSE queue.data_references[i]

LEMMA Written ==
  ASSUME Types, ContentsInvariant, ~Full(queue),
         NEW m \in QueueMessages,
         NEW k \in Nat, queue' = Enqueue(queue, m, k)
  PROVE  Appended(m, k)
<1>1. /\ queue.write_offset \in Slots /\ queue.read_offset \in Slots /\ queue.count \in Nat
      /\ queue.count + 1 < QueueSize /\ Distance(queue.write_offset) = queue.count
      /\ QueueSize \in Nat
  BY QueueTypes, QueueSizeAssumption DEF ContentsInvariant, Full
<1>2. queue' = [queue EXCEPT !.data = [queue.data EXCEPT ![queue.write_offset] = m],
                  !.data_references = [queue.data_references EXCEPT ![queue.write_offset] = k],
                  !.write_offset = (queue.write_offset + 1) % QueueSize,
                  !.count = queue.count + 1]
  BY DEF Enqueue, Types
<1>3. /\ queue'.data = [queue.data EXCEPT ![queue.write_offset] = m]
      /\ queue'.data_references = [queue.data_references EXCEPT ![queue.write_offset] = k]
      /\ queue'.write_offset = (queue.write_offset + 1) % QueueSize
      /\ queue'.count = queue.count + 1 /\ queue'.read_offset = queue.read_offset
  BY <1>2 DEF Types
<1>4. /\ (queue.write_offset + 1) % QueueSize \in Slots
      /\ Distance((queue.write_offset + 1) % QueueSize) = queue.count + 1
  BY <1>1, NextDistance
<1>5. queue' \in StoreQueues
  <2>1. /\ queue'.data \in [Slots -> QueueMessages]
        /\ queue'.data_references \in [Slots -> Nat]
    BY <1>1, <1>3, QueueTypes
  <2>2. queue' = [read_offset |-> queue'.read_offset, write_offset |-> queue'.write_offset,
                  count |-> queue'.count, data |-> queue'.data,
                  data_references |-> queue'.data_references]
    BY <1>2 DEF Types
  <2> QED
    BY <1>1, <1>3, <1>4, <2>1, <2>2
<1>6. Distance(queue.write_offset)' = queue'.count
  BY <1>3, <1>4 DEF Distance
<1>7. ASSUME NEW i \in Slots
      PROVE  /\ Distance(i)' = Distance(i)
             /\ Live(i)' <=> Live(i) \/ i = queue.write_offset
             /\ Live(i) => i # queue.write_offset
  <2>1. Distance(i)' = Distance(i)
    BY <1>3 DEF Distance
  <2>2. Distance(i) \in Nat /\ (Distance(i) = queue.count <=> i = queue.write_offset)
    BY <1>1, DistanceInjective
  <2> QED
    BY <1>1, <1>3, <2>1, <2>2 DEF Live
<1>8. \A i \in Slots :
        /\ queue'.data[i] = IF i = queue.write_offset THEN m ELSE queue.data[i]
        /\ queue'.data_references[i] = IF i = queue.write_offset THEN k ELSE queue.data_references[i]
  BY <1>1, <1>3, QueueTypes
<1> QED
  BY <1>1, <1>3, <1>5, <1>6, <1>7, <1>8 DEF Appended

\* The threads do not notice what the callers do.
ThreadsUnchanged ==
  UNCHANGED <<pc, index, msg, can_read, stop, starting_msg, do_free, stored, freed>>

LEMMA ThreadsFrame ==
  ASSUME ThreadsUnchanged
  PROVE  /\ Joined' = Joined
         /\ \A r : Dropped(r)' = Dropped(r) /\ HoldsStart(r)' = HoldsStart(r) /\ Ahead(r)' = Ahead(r)
         /\ \A n : Holders(n)' = Holders(n)
<1>1. Joined' = Joined
  BY DEF ThreadsUnchanged, Joined
<1>2. \A r : Dropped(r)' = Dropped(r) /\ HoldsStart(r)' = HoldsStart(r) /\ Ahead(r)' = Ahead(r)
  BY DEF ThreadsUnchanged, Dropped, HoldsStart, Ahead
<1>3. \A n : Holders(n)' = Holders(n)
  BY <1>1, <1>2 DEF Holders
<1> QED
  BY <1>1, <1>2, <1>3

\* A message written after the last one leaves the thread where it is.
LEMMA AtWritten ==
  ASSUME ManagerInvariant, ~Full(queue),
         NEW m \in QueueMessages,
         NEW k \in Nat, queue' = Enqueue(queue, m, k),
         ThreadsUnchanged, ~NullWritten, Base' \in Int, Base' <= Base,
         NEW r \in Joined, NEW e \in -1 .. queue.count, At(r, e),
         Base' = Base \/ Base + queue.count <= 0,
         m = Start(r) => ~can_read[r]
  PROVE  At(r, e)' /\ e \in -1 .. queue'.count
<1> USE DEF ManagerInvariant
<1>1. /\ queue.count \in Nat /\ queue.count + 1 < QueueSize /\ Base \in Int /\ QueueSize \in Nat
      /\ e \in Int
  BY QueueTypes, Numbers, QueueSizeAssumption DEF ContentsInvariant, Full
<1>2. /\ queue'.count = queue.count + 1
      /\ queue.write_offset \in Slots /\ Distance(queue.write_offset) = queue.count
      /\ \A i \in Slots :
           /\ Distance(i)' = Distance(i)
           /\ Live(i)' <=> Live(i) \/ i = queue.write_offset
           /\ queue'.data[i] = IF i = queue.write_offset THEN m ELSE queue.data[i]
  BY Written DEF Appended
<1>3. /\ Joined' = Joined /\ Dropped(r)' = Dropped(r) /\ Ahead(r)' = Ahead(r)
      /\ pc' = pc /\ index' = index /\ msg' = msg /\ can_read' = can_read /\ do_free' = do_free
  BY ThreadsFrame DEF ThreadsUnchanged
<1>4. /\ Ahead(r) \in Slots
      /\ Distance(Ahead(r)) = IF e = -1 THEN QueueSize - 1 ELSE e
      /\ Dropped(r) = NotNegative(Base + e)
      /\ e = -1 => Base <= 0 /\ \E x \in Joined \ {r} : queue.data[Ahead(r)] = Start(x)
      /\ pc[r] \in {"load", "store", "drop"} => e < queue.count
      /\ pc[r] \notin {"exit", "ended"}
      /\ pc[r] = "store" => e >= 0 /\ queue.data[index[r]] = Data(Base + e) /\ msg[r] = Data(Base + e)
                            /\ Base + e >= 0 /\ can_read[r]
      /\ pc[r] = "drop" =>
           /\ e >= 0 /\ can_read[r]
           /\ IF do_free[r] THEN queue.data[index[r]] = Data(Base + e) /\ Base + e >= 0
                            ELSE queue.data[index[r]] = Start(r)
  BY DEF At
<1>5. Distance(Ahead(r))' = Distance(Ahead(r))
  BY <1>2, <1>3, <1>4 DEF Distance
<1>6. Dropped(r) = NotNegative(Base' + e)
  BY <1>1, <1>4 DEF NotNegative
<1>7. e = -1 => Base' <= 0 /\ \E x \in Joined \ {r} : queue'.data[Ahead(r)] = Start(x)
  <2>1. e = -1 => Ahead(r) # queue.write_offset
    BY <1>1, <1>2, <1>4
  <2> QED
    BY <1>1, <1>2, <1>4, <2>1
<1>8. ASSUME NEW i \in Slots, Live(i)', queue'.data[i] = Start(r)
      PROVE  IF can_read[r] THEN Distance(i) < e \/ (Distance(i) = e /\ pc[r] = "drop" /\ ~do_free[r])
                            ELSE e <= Distance(i)
  <2>1. CASE i = queue.write_offset
    <3>1. ~can_read[r]
      BY <1>2, <1>8, <2>1
    <3> QED
      BY <1>1, <1>2, <2>1, <3>1
  <2>2. CASE i # queue.write_offset
    <3>1. Live(i) /\ queue.data[i] = Start(r)
      BY <1>2, <1>8, <2>2
    <3> QED
      BY <3>1 DEF At
  <2> QED
    BY <2>1, <2>2
<1>9. ASSUME pc[r] \in {"store", "drop"}
      PROVE  /\ queue'.data[index[r]] = queue.data[index[r]]
             /\ pc[r] = "store" \/ do_free[r] => Base' = Base
  <2>1. index[r] = Ahead(r)
    BY <1>9 DEF Ahead
  <2>2. e < queue.count /\ e >= 0
    BY <1>4, <1>9
  <2>3. index[r] # queue.write_offset
    BY <1>1, <1>2, <1>4, <2>1, <2>2
  <2>4. pc[r] = "store" \/ do_free[r] => Base + e >= 0
    BY <1>4, <1>9
  <2> QED
    BY <1>1, <1>2, <1>4, <2>1, <2>2, <2>3, <2>4
<1>10. NullWritten' \/ pc[r] \in {"load", "store", "drop"} => e < queue'.count
  BY <1>1, <1>2
<1>11. \A i \in Slots : Live(i)' /\ queue'.data[i] = Start(r) =>
         IF can_read'[r] THEN Distance(i)' < e \/ (Distance(i)' = e /\ pc'[r] = "drop" /\ ~do_free'[r])
                         ELSE e <= Distance(i)'
  BY <1>2, <1>3, <1>8
<1>12. /\ pc'[r] = "store" => e >= 0 /\ queue'.data[index'[r]] = Data(Base' + e) /\ msg'[r] = Data(Base' + e)
                              /\ Base' + e >= 0 /\ can_read'[r]
       /\ pc'[r] = "drop" =>
            /\ e >= 0 /\ can_read'[r]
            /\ IF do_free'[r] THEN queue'.data[index'[r]] = Data(Base' + e) /\ Base' + e >= 0
                              ELSE queue'.data[index'[r]] = Start(r)
  BY <1>3, <1>4, <1>9
<1>13. At(r, e)'
  BY <1>3, <1>4, <1>5, <1>6, <1>7, <1>10, <1>11, <1>12 DEF At
<1> QED
  BY <1>1, <1>2, <1>13

LEMMA PluginsCounted ==
  ASSUME PluginsInvariant
  PROVE  /\ Count \in Nat /\ (Count = 0 <=> Joined = {}) /\ IsFiniteSet(Joined)
         /\ plugins_count \in Nat
<1>1. IsFiniteSet(Joined)
  BY PluginsAssumption, FS_Subset DEF Joined
<1>2. Cardinality(Joined) \in Nat /\ (Cardinality(Joined) = 0 <=> Joined = {})
  BY <1>1, FS_CardinalityType, FS_EmptySet
<1> QED
  BY <1>1, <1>2 DEF PluginsInvariant

\* Once the manager is open every plugin is counted.
LEMMA OpenCounted ==
  ASSUME ManagerInvariant, open
  PROVE  Count = plugins_count
BY DEF ManagerInvariant, CallsInvariant, Count

\* The START of a plugin whose thread was just created.
LEMMA WriteStartStep ==
  ASSUME ManagerInvariant, WriteStart("output_manager")
  PROVE  ManagerInvariant'
<1> USE DEF ManagerInvariant
<1> DEFINE x == Output.plugin
           w == queue.write_offset
<1>1. /\ Output.op = "start" /\ ~Full(queue) /\ queue' = Enqueue(queue, Start(x), 1)
      /\ from' = [from EXCEPT ![x] = data] /\ call' = [call EXCEPT !["output_manager"] = Idle]
      /\ UNCHANGED <<data, open, starting, plugins_count, storage_plugins, id, config>>
      /\ ThreadsUnchanged
  BY DEF WriteStart, Output, manager_vars, thread_vars, ThreadsUnchanged
<1>2. x \in Joined /\ x \in Plugins /\ ~open /\ starting <= Len(Initial) /\ data = 0 /\ Pending(x)
  BY <1>1 DEF CallsInvariant, Pending, Joined
<1>3. Output' = Idle /\ Output'.op = "idle" /\ call'["main"] = Idle
      /\ call' \in Calls
  BY <1>1 DEF Output, Idle, CallsInvariant, Callers
<1>4. ~NullWritten /\ ~NullWritten'
  BY <1>1, <1>2, <1>3, InitialLength DEF NullWritten, Types
<1>5. /\ Joined' = Joined
      /\ \A r : Dropped(r)' = Dropped(r) /\ HoldsStart(r)' = HoldsStart(r) /\ Ahead(r)' = Ahead(r)
  BY <1>1, ThreadsFrame
<1>6. /\ queue' \in StoreQueues
      /\ queue'.count = queue.count + 1 /\ queue'.count < QueueSize
      /\ w \in Slots /\ Distance(w) = queue.count
      /\ Distance(queue.write_offset)' = queue'.count
      /\ \A i \in Slots :
           /\ Distance(i)' = Distance(i)
           /\ Live(i)' <=> Live(i) \/ i = w
           /\ Live(i) => i # w
           /\ queue'.data[i] = IF i = w THEN Start(x) ELSE queue.data[i]
           /\ queue'.data_references[i] = IF i = w THEN 1 ELSE queue.data_references[i]
  <2>1. Start(x) \in QueueMessages
    BY <1>2
  <2>2. Appended(Start(x), 1)
    BY <1>1, <2>1, Written
  <2> QED
    BY <2>2 DEF Appended
<1>7. Base = 0 - queue.count /\ Base' = Base - 1 /\ Base \in Int /\ queue.count \in Nat
  BY <1>1, <1>2, <1>4, <1>6, QueueTypes DEF Base
<1>8. Types'
  <2>1. from' \in [Plugins -> {NotDue, 0}]
    BY <1>1, <1>2 DEF Types
  <2> QED
    BY <1>1, <1>6, <2>1 DEF Types, ThreadsUnchanged
<1>9. CallsInvariant'
  BY <1>1, <1>2, <1>3, <1>5 DEF CallsInvariant, Types
<1>10. PluginsInvariant'
  BY <1>1, <1>3, <1>5 DEF PluginsInvariant, Count
<1>11. \A r : ~Pending(r)' /\ (Pending(r) <=> r = x)
  BY <1>1, <1>3 DEF Pending
<1>12. StartsInvariant'
  <2>1. \A r \in Plugins : from'[r] = IF r \notin Joined THEN NotDue ELSE 0
    <3>1. \A r \in Plugins : from'[r] = IF r = x THEN 0 ELSE from[r]
      BY <1>1, <1>2 DEF Types
    <3>2. \A r \in Plugins : from[r] = IF r \notin Joined \/ r = x THEN NotDue ELSE 0
      BY <1>11 DEF StartsInvariant
    <3> QED
      BY <1>2, <3>1, <3>2
  <2>2. ~can_read[x] /\ \A i \in Slots : queue.data[i] # Start(x)
    BY <1>2 DEF StartsInvariant
  <2>3. ASSUME NEW r \in Joined, ~can_read[r]
        PROVE  \E i \in Slots : Live(i)' /\ queue'.data[i] = Start(r)
    BY <1>6, <1>11, <2>3 DEF StartsInvariant
  <2>4. \A i \in Slots : \A r \in Plugins : queue'.data[i] = Start(r) => r \in Joined
    BY <1>2, <1>6, Kinds DEF StartsInvariant
  <2>5. \A i, j \in Slots : \A r \in Plugins :
          queue'.data[i] = Start(r) /\ queue'.data[j] = Start(r) => i = j
    BY <1>6, <2>2, Kinds DEF StartsInvariant
  <2>6. pc' = pc /\ can_read' = can_read /\ stored' = stored
    BY <1>1 DEF ThreadsUnchanged
  <2> QED
    BY <1>5, <1>11, <2>1, <2>3, <2>4, <2>5, <2>6 DEF StartsInvariant
<1>13. ASSUME NEW i \in Slots, Live(i)'
       PROVE  NumberAt(i)' < 0 /\ (i # w => Live(i) /\ NumberAt(i) < 0)
  <2>1. Distance(i) \in Nat /\ Distance(i)' = Distance(i) /\ (Live(i) \/ i = w)
    BY <1>6, <1>13, DistanceInjective
  <2>2. Distance(i) <= queue.count /\ (i # w => Live(i) /\ Distance(i) < queue.count)
    BY <1>6, <1>7, <2>1 DEF Live
  <2> QED
    BY <1>7, <2>1, <2>2 DEF NumberAt
<1>14. ContentsInvariant'
  <2>1. ASSUME NEW i \in Slots, Live(i)'
        PROVE  NumberAt(i)' < 0 /\ \E r \in Joined : queue'.data[i] = Start(r)
    BY <1>2, <1>6, <1>13, <2>1 DEF ContentsInvariant
  <2> QED
    BY <1>4, <1>5, <1>6, <2>1 DEF ContentsInvariant
<1>15. ReferencesInvariant'
  <2>1. ASSUME NEW i \in Slots, Live(i)', NEW r \in Plugins, queue'.data[i] = Start(r)
        PROVE  queue'.data_references[i] = IF HoldsStart(r) THEN 1 ELSE 0
    <3>1. CASE i = w
      <4>1. r = x
        BY <1>6, <2>1, <3>1, Kinds
      <4>2. HoldsStart(x)
        BY <1>2 DEF StartsInvariant, HoldsStart
      <4> QED
        BY <1>6, <3>1, <4>1, <4>2
    <3>2. CASE i # w
      <4>1. Live(i) /\ NumberAt(i) < 0 /\ queue.data[i] = Start(r)
        BY <1>6, <1>13, <2>1, <3>2
      <4> QED
        BY <1>6, <3>2, <4>1 DEF ReferencesInvariant
    <3> QED
      BY <3>1, <3>2
  <2> QED
    BY <1>5, <1>13, <2>1 DEF ReferencesInvariant
<1>16. PlacesInvariant'
  <2> SUFFICES ASSUME NEW r \in Joined, pc[r] # "created"
               PROVE  \E d \in -1 .. queue'.count : At(r, d)'
    BY <1>1, <1>5 DEF PlacesInvariant, ThreadsUnchanged
  <2>1. PICK e \in -1 .. queue.count : At(r, e)
    BY DEF PlacesInvariant
  <2>2. Start(x) \in QueueMessages
    BY <1>2
  <2>3. Start(x) = Start(r) => ~can_read[r]
    BY <1>2, Kinds DEF StartsInvariant
  <2>4. Base' \in Int /\ Base' <= Base /\ Base + queue.count <= 0
    BY <1>7
  <2>5. At(r, e)' /\ e \in -1 .. queue'.count
    BY <1>1, <1>4, <2>1, <2>2, <2>3, <2>4, AtWritten
  <2> QED
    BY <2>5
<1>17. StoredInvariant'
  <2>1. \A n \in Nat : Data(n) \notin freed
    BY <1>7 DEF StoredInvariant
  <2> QED
    BY <1>1, <2>1 DEF StoredInvariant, ThreadsUnchanged
<1> QED
  BY <1>8, <1>9, <1>10, <1>12, <1>14, <1>15, <1>16, <1>17

\* Nobody is past the last message.
LEMMA EverybodyHoldsNext ==
  ASSUME ManagerInvariant, ~NullWritten
  PROVE  Base + queue.count = data /\ Cardinality(Holders(data)) = Count
<1> USE DEF ManagerInvariant
<1>1. /\ Base = data - queue.count /\ Base \in Int /\ queue.count \in Nat /\ data \in Nat
  BY QueueTypes, Numbers DEF Base, Types
<1>2. ASSUME NEW r \in Joined PROVE Dropped(r) <= data
  <2>1. CASE pc[r] = "created"
    <3>1. stored[r] = <<>>
      BY <2>1 DEF StartsInvariant, Joined
    <3> QED
      BY <1>1, <2>1, <3>1 DEF Dropped
  <2>2. CASE pc[r] # "created"
    <3>1. PICK e \in -1 .. queue.count : At(r, e)
      BY <2>2 DEF PlacesInvariant
    <3>2. Dropped(r) = NotNegative(Base + e)
      BY <3>1 DEF At
    <3> QED
      BY <1>1, <3>2 DEF NotNegative
  <2> QED
    BY <2>1, <2>2
<1>3. Holders(data) = Joined
  BY <1>2 DEF Holders
<1> QED
  BY <1>1, <1>3 DEF PluginsInvariant

\* A message for every plugin: a data message, or NULL.
LEMMA WriteForAll ==
  ASSUME ManagerInvariant, ~NullWritten, ~Full(queue), open, open' = open,
         ThreadsUnchanged, UNCHANGED <<from, starting, plugins_count, storage_plugins, id, config>>,
         NEW m, queue' = Enqueue(queue, m, plugins_count),
         \/ m = Data(data) /\ data' = data + 1 /\ ~NullWritten'
         \/ m = End /\ data' = data /\ NullWritten',
         \A r : ~Pending(r)', Output'.op # "count"
  PROVE  /\ Types' /\ PluginsInvariant' /\ StartsInvariant' /\ ContentsInvariant'
         /\ ReferencesInvariant' /\ PlacesInvariant' /\ StoredInvariant'
<1> USE DEF ManagerInvariant
<1> DEFINE w == queue.write_offset
<1>1. /\ Base = data - queue.count /\ Base \in Int /\ queue.count \in Nat /\ data \in Nat
      /\ plugins_count \in Nat /\ Cardinality(Holders(data)) = plugins_count
  <2>1. Cardinality(Holders(data)) = plugins_count
    BY EverybodyHoldsNext, OpenCounted
  <2> QED
    BY <2>1, HoldersFinite, QueueTypes, Numbers DEF Base, Types
<1>2. \A r : ~Pending(r)
  BY InitialLength DEF Pending, CallsInvariant, Types
<1>3. m \in QueueMessages
      /\ \A r : m # Start(r)
  BY <1>1, Kinds
<1>4. /\ queue' \in StoreQueues
      /\ queue'.count = queue.count + 1 /\ queue'.count < QueueSize
      /\ w \in Slots /\ Distance(w) = queue.count
      /\ Distance(queue.write_offset)' = queue'.count
      /\ \A i \in Slots :
           /\ Distance(i)' = Distance(i)
           /\ Live(i)' <=> Live(i) \/ i = w
           /\ Live(i) => i # w
           /\ queue'.data[i] = IF i = w THEN m ELSE queue.data[i]
           /\ queue'.data_references[i] = IF i = w THEN plugins_count ELSE queue.data_references[i]
  <2>1. Appended(m, plugins_count)
    BY <1>1, <1>3, Written
  <2> QED
    BY <2>1 DEF Appended
<1>5. /\ Joined' = Joined /\ \A n : Holders(n)' = Holders(n)
      /\ \A r : HoldsStart(r)' = HoldsStart(r)
  BY ThreadsFrame
<1>6. Base' = Base
  BY <1>1, <1>4 DEF Base
<1>7. Types'
  <2>1. data' \in Nat
    BY <1>1
  <2> QED
    BY <1>4, <2>1 DEF Types, ThreadsUnchanged
<1>8. PluginsInvariant'
  BY <1>5, OpenCounted DEF PluginsInvariant, Count
<1>9. StartsInvariant'
  <2>1. ASSUME NEW r \in Joined, ~can_read[r]
        PROVE  \E i \in Slots : Live(i)' /\ queue'.data[i] = Start(r)
    BY <1>2, <1>4, <2>1 DEF StartsInvariant
  <2>2. \A i \in Slots : \A r \in Plugins :
          queue'.data[i] = Start(r) => i # w /\ queue.data[i] = Start(r)
    BY <1>3, <1>4
  <2>3. pc' = pc /\ can_read' = can_read /\ stored' = stored
    BY DEF ThreadsUnchanged
  <2>4. /\ \A i \in Slots : \A r \in Plugins : queue'.data[i] = Start(r) => r \in Joined
        /\ \A i, j \in Slots : \A r \in Plugins :
             queue'.data[i] = Start(r) /\ queue'.data[j] = Start(r) => i = j
    BY <2>2 DEF StartsInvariant
  <2> QED
    BY <1>2, <1>5, <2>1, <2>3, <2>4 DEF StartsInvariant
<1>10. ASSUME NEW i \in Slots, Live(i)'
       PROVE  /\ NumberAt(i)' = NumberAt(i) /\ NumberAt(i) \in Int
              /\ i # w => Live(i) /\ Distance(i) < queue.count
              /\ i = w => NumberAt(i) = data
  <2>1. Distance(i) \in Nat /\ Distance(i)' = Distance(i) /\ (Live(i) \/ i = w)
    BY <1>4, <1>10, DistanceInjective
  <2>2. NumberAt(i)' = NumberAt(i) /\ NumberAt(i) = Base + Distance(i)
    BY <1>6, <2>1 DEF NumberAt
  <2> QED
    BY <1>1, <1>4, <2>1, <2>2 DEF Live
<1>11. ContentsInvariant'
  <2>1. ASSUME NEW i \in Slots, Live(i)'
        PROVE  IF NumberAt(i)' < 0 THEN \E r \in Joined : queue'.data[i] = Start(r)
               ELSE IF NullWritten' /\ Distance(i)' = queue'.count - 1 THEN queue'.data[i] = End
               ELSE queue'.data[i] = Data(NumberAt(i)')
    <3>1. CASE i = w
      <4>1. NumberAt(i)' = data /\ Distance(i)' = queue'.count - 1 /\ queue'.data[i] = m
        BY <1>1, <1>4, <1>10, <2>1, <3>1
      <4> QED
        BY <1>1, <4>1
    <3>2. CASE i # w
      <4>1. Live(i) /\ Distance(i)' # queue'.count - 1 /\ queue'.data[i] = queue.data[i]
            /\ NumberAt(i)' = NumberAt(i)
        BY <1>1, <1>4, <1>10, <2>1, <3>2, DistanceInjective
      <4> QED
        BY <4>1 DEF ContentsInvariant
    <3> QED
      BY <3>1, <3>2
  <2>2. queue'.count > 0
    BY <1>1, <1>4
  <2> QED
    BY <1>4, <1>5, <2>1, <2>2 DEF ContentsInvariant
<1>12. ReferencesInvariant'
  <2> SUFFICES ASSUME NEW i \in Slots, Live(i)'
               PROVE  IF NumberAt(i)' < 0
                      THEN \A r \in Plugins : queue'.data[i] = Start(r) =>
                             queue'.data_references[i] = IF HoldsStart(r)' THEN 1 ELSE 0
                      ELSE queue'.data_references[i] = Cardinality(Holders(NumberAt(i))')
    BY DEF ReferencesInvariant
  <2>1. NumberAt(i)' = NumberAt(i) /\ NumberAt(i) \in Int
    BY <1>10
  <2>2. Holders(NumberAt(i))' = Holders(NumberAt(i))
    BY <1>5, <2>1 DEF Holders
  <2>3. CASE i = w
    <3>1. NumberAt(i) = data /\ queue'.data_references[i] = plugins_count
      BY <1>4, <1>10, <2>3
    <3>2. queue'.data_references[i] = Cardinality(Holders(NumberAt(i))')
      BY <1>1, <2>2, <3>1
    <3> QED
      BY <1>1, <2>1, <3>1, <3>2
  <2>4. CASE i # w
    <3>1. /\ Live(i) /\ queue'.data[i] = queue.data[i]
          /\ queue'.data_references[i] = queue.data_references[i]
      BY <1>4, <1>10, <2>4
    <3>2. CASE NumberAt(i) < 0
      BY <1>5, <2>1, <3>1, <3>2 DEF ReferencesInvariant
    <3>3. CASE ~(NumberAt(i) < 0)
      <4>1. queue'.data_references[i] = Cardinality(Holders(NumberAt(i)))
        BY <3>1, <3>3 DEF ReferencesInvariant
      <4>2. queue'.data_references[i] = Cardinality(Holders(NumberAt(i))')
        BY <2>2, <4>1
      <4> QED
        BY <2>1, <3>3, <4>2
    <3> QED
      BY <3>2, <3>3
  <2> QED
    BY <2>3, <2>4
<1>13. PlacesInvariant'
  <2> SUFFICES ASSUME NEW r \in Joined, pc[r] # "created"
               PROVE  \E d \in -1 .. queue'.count : At(r, d)'
    BY <1>5 DEF PlacesInvariant, ThreadsUnchanged
  <2>1. PICK e \in -1 .. queue.count : At(r, e)
    BY DEF PlacesInvariant
  <2>2. Base' \in Int /\ Base' <= Base /\ m # Start(r)
    BY <1>1, <1>3, <1>6
  <2>3. At(r, e)' /\ e \in -1 .. queue'.count
    BY <1>1, <1>3, <1>6, <2>1, <2>2, AtWritten
  <2> QED
    BY <2>3
<1>14. StoredInvariant'
  BY <1>6 DEF StoredInvariant, ThreadsUnchanged
<1> QED
  BY <1>7, <1>8, <1>9, <1>11, <1>12, <1>13, <1>14

\* The reference count of a data message is never 0: a manager has a plugin.
LEMMA WriteDataStep ==
  ASSUME ManagerInvariant, WriteData
  PROVE  ManagerInvariant'
<1> USE DEF ManagerInvariant
<1>1. /\ Output.op = "data" /\ call' = [call EXCEPT !["output_manager"] = Idle]
      /\ UNCHANGED <<from, open, starting, plugins_count, storage_plugins, id, config>>
      /\ ThreadsUnchanged
  BY DEF WriteData, Output, manager_vars, thread_vars, ThreadsUnchanged
<1>2. open /\ Output.ref_count = plugins_count /\ starting > Len(Initial) /\ Joined # {}
  BY <1>1 DEF CallsInvariant
<1>3. plugins_count # 0
  BY <1>2, PluginsCounted, OpenCounted
<1>4. ~Full(queue) /\ queue' = Enqueue(queue, Data(data), plugins_count) /\ data' = data + 1
  BY <1>2, <1>3 DEF WriteData, Output
<1>5. /\ Output' = Idle /\ Output'.op = "idle" /\ call'["main"] = Idle
      /\ call' \in Calls
  BY <1>1 DEF Output, Idle, CallsInvariant, Callers
<1>6. ~NullWritten /\ ~NullWritten' /\ \A r : ~Pending(r)'
  BY <1>1, <1>2, <1>5 DEF NullWritten, Pending
<1>7. /\ Types' /\ PluginsInvariant' /\ StartsInvariant' /\ ContentsInvariant'
      /\ ReferencesInvariant' /\ PlacesInvariant' /\ StoredInvariant'
  BY <1>1, <1>2, <1>5, <1>6, <1>4, WriteForAll
<1>8. CallsInvariant'
  <2>1. Joined' = Joined
    BY <1>1, ThreadsFrame
  <2>2. ~(starting <= Len(Initial))
    BY <1>2, InitialLength DEF Types
  <2> QED
    BY <1>1, <1>2, <1>5, <1>4, <2>1, <2>2 DEF CallsInvariant
<1> QED
  BY <1>7, <1>8

\* Nor is that of NULL.
LEMMA WriteNullStep ==
  ASSUME ManagerInvariant, WriteNull
  PROVE  ManagerInvariant'
<1> USE DEF ManagerInvariant
<1>1. /\ Output.op = "null" /\ data' = data
      /\ call' = [call EXCEPT !["output_manager"] = [op |-> "close"]]
      /\ UNCHANGED <<from, open, starting, plugins_count, storage_plugins, id, config>>
      /\ ThreadsUnchanged
  BY DEF WriteNull, Output, manager_vars, thread_vars, ThreadsUnchanged
<1>2. open /\ Output.ref_count = plugins_count /\ starting > Len(Initial) /\ Joined # {}
  BY <1>1 DEF CallsInvariant
<1>3. plugins_count # 0
  BY <1>2, PluginsCounted, OpenCounted
<1>4. ~Full(queue) /\ queue' = Enqueue(queue, End, plugins_count)
  BY <1>2, <1>3 DEF WriteNull, Output
<1>5. /\ Output' = [op |-> "close"] /\ Output'.op = "close" /\ call'["main"] = Idle
      /\ call' \in Calls
  BY <1>1 DEF Output, CallsInvariant, Callers
<1>6. ~NullWritten /\ NullWritten' /\ \A r : ~Pending(r)'
  BY <1>1, <1>2, <1>5 DEF NullWritten, Pending
<1>7. /\ Types' /\ PluginsInvariant' /\ StartsInvariant' /\ ContentsInvariant'
      /\ ReferencesInvariant' /\ PlacesInvariant' /\ StoredInvariant'
  BY <1>1, <1>2, <1>4, <1>5, <1>6, WriteForAll
<1>8. CallsInvariant'
  <2>1. Joined' = Joined
    BY <1>1, ThreadsFrame
  <2>2. ~(starting <= Len(Initial))
    BY <1>2, InitialLength DEF Types
  <2> QED
    BY <1>1, <1>2, <1>5, <2>1, <2>2 DEF CallsInvariant
<1> QED
  BY <1>7, <1>8

-----------------------------------------------------------------------------
(* The other steps of the Output Manager *)

\* A step that leaves the queue and the threads alone.
LEMMA QueueFrame ==
  ASSUME ManagerInvariant, ThreadsUnchanged, UNCHANGED <<queue, data, from>>,
         NullWritten' = NullWritten, \A r : Pending(r)' = Pending(r)
  PROVE  /\ StartsInvariant' /\ ContentsInvariant'
         /\ ReferencesInvariant' /\ PlacesInvariant' /\ StoredInvariant'
<1> USE DEF ManagerInvariant
<1>1. /\ Joined' = Joined
      /\ \A r : Dropped(r)' = Dropped(r) /\ HoldsStart(r)' = HoldsStart(r) /\ Ahead(r)' = Ahead(r)
      /\ \A n : Holders(n)' = Holders(n)
  BY ThreadsFrame
<1>2. /\ pc' = pc /\ index' = index /\ msg' = msg /\ can_read' = can_read /\ do_free' = do_free
      /\ stored' = stored /\ freed' = freed
  BY DEF ThreadsUnchanged
<1>3. /\ Base' = Base
      /\ \A i : Distance(i)' = Distance(i) /\ Live(i)' = Live(i) /\ NumberAt(i)' = NumberAt(i)
  BY DEF Base, Distance, Live, NumberAt
<1>4. StartsInvariant'
  BY <1>1, <1>2, <1>3 DEF StartsInvariant
<1>5. ContentsInvariant'
  BY <1>1, <1>3 DEF ContentsInvariant
<1>6. ReferencesInvariant'
  BY <1>1, <1>3 DEF ReferencesInvariant
<1>7. PlacesInvariant'
  <2> SUFFICES ASSUME NEW r \in Joined, pc[r] # "created"
               PROVE  \E d \in -1 .. queue.count : At(r, d)'
    BY <1>1, <1>2 DEF PlacesInvariant
  <2>1. PICK e \in -1 .. queue.count : At(r, e)
    BY DEF PlacesInvariant
  <2>2. At(r, e)'
    BY <1>1, <1>2, <1>3, <2>1, AtFrame
  <2> QED
    BY <2>2
<1>8. StoredInvariant'
  BY <1>2, <1>3 DEF StoredInvariant
<1> QED
  BY <1>4, <1>5, <1>6, <1>7, <1>8

LEMMA CreatedStep ==
  ASSUME ManagerInvariant, Created
  PROVE  ManagerInvariant'
<1> USE DEF ManagerInvariant
<1>1. /\ ~open /\ starting = Len(Initial) /\ Output = Idle /\ plugins_count > 0
      /\ open' = TRUE /\ starting' = starting + 1 /\ call' = call
      /\ UNCHANGED <<queue, data, from, plugins_count, storage_plugins, id, config>>
      /\ ThreadsUnchanged
  BY DEF Created, Output, queue_vars, manager_vars, thread_vars, ThreadsUnchanged
<1>2. Joined' = Joined
  BY <1>1, ThreadsFrame
<1>3. Output' = Output /\ Output.op = "idle"
  BY <1>1 DEF Output, Idle
<1>4. starting \in Nat /\ starting' \in Nat /\ starting' > Len(Initial) /\ ~(starting' <= Len(Initial))
      /\ ~(starting > Len(Initial)) /\ starting <= Len(Initial)
  <2>1. starting \in Nat
    BY DEF Types
  <2> QED
    BY <1>1, <2>1, InitialLength
<1>5. NullWritten' = NullWritten
  BY <1>1, <1>3, <1>4 DEF NullWritten
<1>6. Joined # {} /\ Count = plugins_count /\ Count' = plugins_count
  <2>1. Count = plugins_count /\ Count' = plugins_count
    BY <1>1, <1>3 DEF Count
  <2> QED
    BY <1>1, <2>1, PluginsCounted
<1>7. Types'
  BY <1>1, <1>4 DEF Types, ThreadsUnchanged
<1>8. CallsInvariant'
  BY <1>1, <1>2, <1>3, <1>4, <1>6 DEF CallsInvariant
<1>9. PluginsInvariant'
  <2>1. plugins_count <= starting'
    <3>1. plugins_count \in Nat /\ plugins_count <= starting
      BY <1>6, PluginsCounted DEF PluginsInvariant
    <3> QED
      BY <1>1, <1>4, <3>1
  <2>2. \A k \in DOMAIN Initial : (k <= starting => k <= starting') /\ ~(k > starting')
    BY <1>1, <1>4, InitialLength
  <2> QED
    BY <1>1, <1>2, <1>4, <1>6, <2>1, <2>2 DEF PluginsInvariant
<1>10. \A r : Pending(r)' = Pending(r)
  BY <1>3 DEF Pending
<1> QED
  BY <1>1, <1>5, <1>7, <1>8, <1>9, <1>10, QueueFrame

\* The beginning of a call that writes a data message, or NULL.
LEMMA CallStep ==
  ASSUME ManagerInvariant, CallWriteData \/ Close
  PROVE  ManagerInvariant'
<1> USE DEF ManagerInvariant
<1>1. PICK op \in {"data", "null"} :
        call' = [call EXCEPT !["output_manager"] = [op |-> op, ref_count |-> plugins_count]]
  BY DEF CallWriteData, Close
<1>2. /\ open /\ Output = Idle
      /\ UNCHANGED <<queue, data, from, open, starting, plugins_count, storage_plugins, id, config>>
      /\ ThreadsUnchanged
  BY DEF CallWriteData, Close, Output, queue_vars, manager_vars, thread_vars, ThreadsUnchanged
<1>3. plugins_count \in Nat
  BY PluginsCounted
<1>4. /\ Output' = [op |-> op, ref_count |-> plugins_count] /\ Output'.op = op
      /\ Output'.ref_count = plugins_count /\ call'["main"] = Idle
      /\ call' \in Calls
  BY <1>1, <1>3 DEF Output, CallsInvariant, Callers
<1>5. Output.op = "idle"
  BY <1>2 DEF Idle
<1>6. NullWritten' = NullWritten /\ \A r : Pending(r)' = Pending(r)
  BY <1>2, <1>4, <1>5 DEF NullWritten, Pending
<1>7. Joined' = Joined
  BY <1>2, ThreadsFrame
<1>8. Types'
  BY <1>2 DEF Types, ThreadsUnchanged
<1>9. CallsInvariant'
  BY <1>2, <1>4, <1>7 DEF CallsInvariant
<1>10. PluginsInvariant'
  BY <1>2, <1>4, <1>5, <1>7 DEF PluginsInvariant, Count
<1> QED
  BY <1>2, <1>6, <1>8, <1>9, <1>10, QueueFrame

\* data_manager_close waits for the thread of every plugin, because each one's
\* structure is in the array.
LEMMA CloseReturnsStep ==
  ASSUME ManagerInvariant, CloseReturns
  PROVE  ManagerInvariant'
<1> USE DEF ManagerInvariant
<1>1. /\ Output.op = "close" /\ \A s \in Listed : pc[id[s]] = "ended"
      /\ storage_plugins' = [i \in 0 .. 7 |-> IF i < plugins_count THEN NULL ELSE storage_plugins[i]]
      /\ open' = FALSE /\ call' = [call EXCEPT !["output_manager"] = Idle]
      /\ UNCHANGED <<queue, data, from, starting, plugins_count, id, config>>
      /\ ThreadsUnchanged
  BY DEF CloseReturns, Output, queue_vars, thread_vars, ThreadsUnchanged
<1>2. open /\ starting > Len(Initial) /\ Joined' = Joined /\ Count = plugins_count
  BY <1>1, ThreadsFrame DEF CallsInvariant, Count
<1>3. /\ Output' = Idle /\ Output'.op = "idle" /\ call'["main"] = Idle
      /\ call' \in Calls
  BY <1>1 DEF Output, Idle, CallsInvariant, Callers
<1>4. NullWritten' = NullWritten /\ (\A r : Pending(r)' = Pending(r)) /\ Count' = Count
  BY <1>1, <1>2, <1>3 DEF NullWritten, Pending, Count
<1>5. ASSUME NEW p \in Joined PROVE pc[p] = "ended"
  <2>1. PICK i \in 0 .. 7 : i < plugins_count /\ storage_plugins[i] = config[p]
    BY <1>2 DEF PluginsInvariant
  <2>2. config[p] # NULL
    BY PluginsAssumption DEF Types, Joined
  <2>3. i \in 0 .. plugins_count - 1
    BY <2>1, PluginsCounted
  <2>4. config[p] \in Listed
    BY <2>1, <2>2, <2>3 DEF Listed
  <2>5. id[config[p]] = p
    BY DEF PluginsInvariant
  <2> QED
    BY <1>1, <2>4, <2>5
<1>6. Types'
  BY <1>1 DEF Types, ThreadsUnchanged
<1>7. ~(starting <= Len(Initial))
  BY <1>2, InitialLength DEF Types
<1>8. CallsInvariant'
  <2>1. \A p \in Joined : pc'[p] = "ended"
    BY <1>1, <1>5 DEF ThreadsUnchanged
  <2> QED
    BY <1>1, <1>2, <1>3, <1>7, <2>1 DEF CallsInvariant
<1>9. PluginsInvariant'
  <2>1. \A i \in 0 .. 7 : storage_plugins'[i] # NULL => storage_plugins'[i] = storage_plugins[i]
    BY <1>1
  <2>2. ASSUME NEW i \in 0 .. 7, NEW j \in 0 .. 7,
               storage_plugins'[i] = storage_plugins'[j], storage_plugins'[i] # NULL
        PROVE  i = j
    <3>1. storage_plugins[i] = storage_plugins[j] /\ storage_plugins[i] # NULL
      BY <2>1, <2>2
    <3> QED
      BY <3>1 DEF PluginsInvariant
  <2>3. ASSUME NEW i \in 0 .. 7, storage_plugins'[i] # NULL
        PROVE  \E k \in DOMAIN Initial : k <= starting /\ storage_plugins'[i] = Initial[k]
    <3>1. storage_plugins[i] # NULL /\ storage_plugins'[i] = storage_plugins[i]
      BY <2>1, <2>3
    <3>2. PICK k \in DOMAIN Initial : k <= starting /\ storage_plugins[i] = Initial[k]
      BY <3>1 DEF PluginsInvariant
    <3> QED
      BY <3>1, <3>2
  <2> QED
    BY <1>1, <1>2, <1>4, <1>7, <2>2, <2>3 DEF PluginsInvariant
<1> QED
  BY <1>1, <1>4, <1>6, <1>8, <1>9, QueueFrame

\* The plugin whose thread was created is counted.
LEMMA CountPluginStep ==
  ASSUME ManagerInvariant, CountPlugin("output_manager")
  PROVE  ManagerInvariant'
<1> USE DEF ManagerInvariant
<1>1. /\ Output.op = "count" /\ plugins_count' = plugins_count + 1
      /\ call' = [call EXCEPT !["output_manager"] = [op |-> "start", plugin |-> Output.plugin]]
      /\ UNCHANGED <<queue, data, from, open, starting, storage_plugins, id, config>>
      /\ ThreadsUnchanged
  BY DEF CountPlugin, Output, queue_vars, thread_vars, ThreadsUnchanged
<1>2. Joined' = Joined /\ Output.plugin \in Joined /\ Output.plugin \in Plugins
      /\ ~open /\ starting <= Len(Initial)
  BY <1>1, ThreadsFrame DEF CallsInvariant, Joined
<1>3. /\ Output' = [op |-> "start", plugin |-> Output.plugin] /\ call'["main"] = Idle
      /\ Output'.op = "start" /\ Output'.plugin = Output.plugin
      /\ call' \in Calls
  BY <1>1, <1>2 DEF Output, CallsInvariant, Callers
<1>4. NullWritten' = NullWritten /\ \A r : Pending(r)' = Pending(r)
  BY <1>1, <1>3 DEF NullWritten, Pending
<1>5. Count' = Count /\ plugins_count' \in Nat
  BY <1>1, <1>3 DEF Count, PluginsInvariant
<1>6. Types'
  BY <1>1 DEF Types, ThreadsUnchanged
<1>7. CallsInvariant'
  BY <1>1, <1>2, <1>3 DEF CallsInvariant, ThreadsUnchanged
<1>8. PluginsInvariant'
  BY <1>1, <1>2, <1>5 DEF PluginsInvariant
<1> QED
  BY <1>1, <1>4, <1>6, <1>7, <1>8, QueueFrame

\* The next plugin of the list is put at the end of the array, in a structure
\* that no thread has.
LEMMA ArrayStep ==
  ASSUME FixedPlugins, ManagerInvariant, starting < Len(Initial), Output = Idle,
         NEW x, x = Initial[starting + 1],
         \/ UNCHANGED <<storage_plugins, id>>
         \/ /\ storage_plugins' = [storage_plugins EXCEPT ![plugins_count] = Structure(x)]
            /\ id' = [id EXCEPT ![Structure(x)] = x],
         starting' = starting + 1
  PROVE  /\ x \in Plugins /\ x \notin Joined /\ x \in ToSet(Initial) /\ Structure(x) \in Plugins
         /\ plugins_count \in 0 .. 7 /\ plugins_count <= starting /\ starting \in Nat
         /\ storage_plugins' \in [0 .. 7 -> Plugins \cup {NULL}] /\ id' \in [Plugins -> Plugins]
         /\ \A i \in DOMAIN Initial : i > starting' => Initial[i] \notin Joined \cup {x}
         /\ \A i \in 0 .. 7 : storage_plugins'[i] # NULL =>
              \E k \in DOMAIN Initial : k <= starting' /\ storage_plugins'[i] = Initial[k]
         /\ \A i, j \in 0 .. 7 :
              storage_plugins'[i] = storage_plugins'[j] /\ storage_plugins'[i] # NULL => i = j
         /\ \A p \in Joined : id'[config[p]] = p
         /\ \A p \in Joined : \E i \in 0 .. 7 : i < plugins_count /\ storage_plugins'[i] = config[p]
<1> USE DEF ManagerInvariant
<1>1. /\ starting \in Nat /\ Len(Initial) \in Nat /\ Len(Initial) <= 2
      /\ DOMAIN Initial = 1 .. Len(Initial)
      /\ starting + 1 \in DOMAIN Initial /\ starting <= Len(Initial)
  BY InitialLength DEF Types, FixedPlugins
<1>2. plugins_count \in 0 .. 7 /\ plugins_count <= starting /\ Count = plugins_count
  <2>1. Count = plugins_count
    BY DEF Count, Idle
  <2> QED
    BY <1>1, <2>1, PluginsCounted DEF PluginsInvariant
<1>3. /\ x \in Plugins /\ x \notin Joined /\ x \in ToSet(Initial)
      /\ \A i, j \in DOMAIN Initial : Initial[i] = Initial[j] => i = j
  <2>1. x \in Plugins /\ \A i, j \in DOMAIN Initial : Initial[i] = Initial[j] => i = j
    BY <1>1, PluginsAssumption
  <2>2. x \notin Joined
    BY <1>1 DEF PluginsInvariant
  <2>3. x \in ToSet(Initial)
    BY <1>1 DEF ToSet
  <2> QED
    BY <2>1, <2>2, <2>3
<1>4. \A i \in DOMAIN Initial : i > starting' => Initial[i] \notin Joined \cup {x}
  BY <1>1, <1>3 DEF PluginsInvariant
<1>5. ASSUME NEW i \in 0 .. 7, storage_plugins[i] = x PROVE FALSE
  <2>1. storage_plugins[i] # NULL
    BY <1>3, <1>5, PluginsAssumption
  <2>2. PICK k \in DOMAIN Initial : k <= starting /\ storage_plugins[i] = Initial[k]
    BY <2>1 DEF PluginsInvariant
  <2>3. k = starting + 1
    BY <1>1, <1>3, <1>5, <2>2
  <2> QED
    BY <1>1, <2>2, <2>3
<1>6. /\ Structure(x) \in Plugins /\ Structure(x) # NULL
      /\ Structure(x) = x \/ Structure(x) = storage_plugins[plugins_count]
      /\ \A i \in 0 .. 7 : i # plugins_count => storage_plugins[i] # Structure(x)
  <2>1. CASE storage_plugins[plugins_count] = NULL
    BY <1>3, <1>5, <2>1, PluginsAssumption DEF Structure
  <2>2. CASE storage_plugins[plugins_count] # NULL
    <3>1. Structure(x) = storage_plugins[plugins_count]
      BY <2>2 DEF Structure
    <3>2. storage_plugins[plugins_count] \in Plugins
      BY <1>2, <2>2 DEF Types
    <3>3. \A i \in 0 .. 7 : i # plugins_count => storage_plugins[i] # storage_plugins[plugins_count]
      BY <1>2, <2>2 DEF PluginsInvariant
    <3> QED
      BY <2>2, <3>1, <3>2, <3>3
  <2> QED
    BY <2>1, <2>2
<1>7. \A p \in Joined : \E i \in 0 .. 7 : i < plugins_count /\ storage_plugins[i] = config[p]
  BY <1>1, <1>2 DEF PluginsInvariant
<1>8. \A k \in DOMAIN Initial : k <= starting => k <= starting'
  BY <1>1
<1>9. CASE UNCHANGED <<storage_plugins, id>>
  <2>1. storage_plugins' = storage_plugins /\ id' = id
    BY <1>9
  <2>2. storage_plugins' \in [0 .. 7 -> Plugins \cup {NULL}] /\ id' \in [Plugins -> Plugins]
    BY <2>1 DEF Types
  <2>3. \A i \in 0 .. 7 : storage_plugins[i] # NULL =>
          \E k \in DOMAIN Initial : k <= starting' /\ storage_plugins[i] = Initial[k]
    BY <1>8 DEF PluginsInvariant
  <2>4. /\ \A i, j \in 0 .. 7 :
             storage_plugins[i] = storage_plugins[j] /\ storage_plugins[i] # NULL => i = j
        /\ \A p \in Joined : id[config[p]] = p
    BY DEF PluginsInvariant
  <2> QED
    BY <1>1, <1>2, <1>3, <1>4, <1>6, <1>7, <2>1, <2>2, <2>3, <2>4
<1>10. CASE /\ storage_plugins' = [storage_plugins EXCEPT ![plugins_count] = Structure(x)]
            /\ id' = [id EXCEPT ![Structure(x)] = x]
  <2>1. /\ storage_plugins' \in [0 .. 7 -> Plugins \cup {NULL}] /\ id' \in [Plugins -> Plugins]
        /\ \A i \in 0 .. 7 : storage_plugins'[i] =
             IF i = plugins_count THEN Structure(x) ELSE storage_plugins[i]
        /\ \A t \in Plugins : id'[t] = IF t = Structure(x) THEN x ELSE id[t]
    BY <1>2, <1>3, <1>6, <1>10 DEF Types
  <2>2. ASSUME NEW i \in 0 .. 7, storage_plugins'[i] # NULL
        PROVE  \E k \in DOMAIN Initial : k <= starting' /\ storage_plugins'[i] = Initial[k]
    <3>1. CASE storage_plugins'[i] = x
      BY <1>1, <3>1
    <3>2. CASE storage_plugins'[i] = storage_plugins[i]
      BY <1>8, <2>2, <3>2 DEF PluginsInvariant
    <3> QED
      BY <1>6, <2>1, <3>1, <3>2
  <2>3. ASSUME NEW i \in 0 .. 7, NEW j \in 0 .. 7,
               storage_plugins'[i] = storage_plugins'[j], storage_plugins'[i] # NULL
        PROVE  i = j
    <3>1. CASE i # plugins_count /\ j # plugins_count
      <4>1. storage_plugins[i] = storage_plugins[j] /\ storage_plugins[i] # NULL
        BY <2>1, <2>3, <3>1
      <4> QED
        BY <4>1 DEF PluginsInvariant
    <3>2. CASE i = plugins_count \/ j = plugins_count
      BY <1>6, <2>1, <2>3, <3>2
    <3> QED
      BY <3>1, <3>2
  <2>4. ASSUME NEW p \in Joined
        PROVE  /\ id'[config[p]] = p
               /\ \E i \in 0 .. 7 : i < plugins_count /\ storage_plugins'[i] = config[p]
    <3>1. PICK i \in 0 .. 7 : i < plugins_count /\ storage_plugins[i] = config[p]
      BY <1>7
    <3>2. i # plugins_count
      BY <1>2, <3>1
    <3>3. config[p] # Structure(x) /\ storage_plugins'[i] = config[p]
      BY <1>6, <2>1, <3>1, <3>2
    <3>4. config[p] \in Plugins /\ id[config[p]] = p
      BY DEF Types, Joined, PluginsInvariant
    <3> QED
      BY <2>1, <3>1, <3>3, <3>4
  <2> QED
    BY <1>1, <1>2, <1>3, <1>4, <1>6, <2>1, <2>2, <2>3, <2>4
<1> QED
  BY <1>9, <1>10

\* data_manager_create takes the next plugin of the list: its thread is
\* created, or there is none.
LEMMA CreateNextStep ==
  ASSUME FixedPlugins, ManagerInvariant, CreateNext
  PROVE  ManagerInvariant'
<1> USE DEF ManagerInvariant
<1>1. PICK x : x = Initial[starting + 1]
  OBVIOUS
<1>2. /\ ~open /\ starting < Len(Initial) /\ Output = Idle /\ starting' = starting + 1
      /\ UNCHANGED <<queue, data, from, open, stored, freed>>
      /\ UNCHANGED <<index, msg, can_read, stop, starting_msg, do_free>>
      /\ \/ AddPlugin("output_manager", x)
         \/ AddNothing("output_manager", x)
  BY <1>1 DEF CreateNext, Output, AddPlugin, AddNothing, queue_vars
<1>3. /\ x \in Plugins /\ x \notin Joined /\ x \in ToSet(Initial) /\ Structure(x) \in Plugins
      /\ plugins_count \in 0 .. 7 /\ plugins_count <= starting /\ starting \in Nat
      /\ storage_plugins' \in [0 .. 7 -> Plugins \cup {NULL}] /\ id' \in [Plugins -> Plugins]
      /\ \A i \in DOMAIN Initial : i > starting' => Initial[i] \notin Joined \cup {x}
      /\ \A i \in 0 .. 7 : storage_plugins'[i] # NULL =>
           \E k \in DOMAIN Initial : k <= starting' /\ storage_plugins'[i] = Initial[k]
      /\ \A i, j \in 0 .. 7 :
           storage_plugins'[i] = storage_plugins'[j] /\ storage_plugins'[i] # NULL => i = j
      /\ \A p \in Joined : id'[config[p]] = p
      /\ \A p \in Joined : \E i \in 0 .. 7 : i < plugins_count /\ storage_plugins'[i] = config[p]
  <2>1. \/ UNCHANGED <<storage_plugins, id>>
        \/ /\ storage_plugins' = [storage_plugins EXCEPT ![plugins_count] = Structure(x)]
           /\ id' = [id EXCEPT ![Structure(x)] = x]
    BY <1>2 DEF AddPlugin, AddNothing
  <2> QED
    BY <1>1, <1>2, <2>1, ArrayStep
<1>4. PICK label \in {"created", "refused"} : pc' = [pc EXCEPT ![x] = label]
  BY <1>2 DEF AddPlugin, AddNothing
<1>5. /\ pc'[x] = label /\ \A r \in Plugins : r # x => pc'[r] = pc[r]
      /\ pc[x] \in {"none", "refused"}
  BY <1>3, <1>4 DEF Types, Joined
<1>6. /\ Joined' = IF label = "created" THEN Joined \cup {x} ELSE Joined
      /\ Joined \subseteq Joined'
  BY <1>3, <1>5 DEF Joined
<1>7. /\ Output.op = "idle" /\ data = 0 /\ starting' <= Len(Initial) /\ starting' \in Nat
      /\ ~(starting > Len(Initial)) /\ ~(starting' > Len(Initial))
  <2>1. starting' <= Len(Initial) /\ starting' \in Nat /\ ~(starting > Len(Initial))
        /\ ~(starting' > Len(Initial)) /\ starting <= Len(Initial)
    <3>1. starting \in Nat /\ Len(Initial) \in Nat /\ starting < Len(Initial) /\ starting' = starting + 1
      BY <1>2, <1>3, InitialLength
    <3> QED
      BY <3>1
  <2>2. Output.op = "idle"
    BY <1>2 DEF Idle
  <2> QED
    BY <2>1, <2>2 DEF CallsInvariant
<1>8. /\ label = "created" =>
           /\ AddPlugin("output_manager", x) /\ Output' = [op |-> "count", plugin |-> x]
           /\ Output'.op = "count" /\ Output'.plugin = x
           /\ id'[Structure(x)] = x
           /\ config' = [config EXCEPT ![x] = Structure(x)]
           /\ storage_plugins'[plugins_count] = Structure(x)
      /\ label = "refused" => Output' = Idle /\ Output'.op = "idle" /\ config' = config
      /\ plugins_count' = plugins_count /\ Count = plugins_count
      /\ Count' = IF label = "created" THEN plugins_count + 1 ELSE plugins_count
      /\ call'["main"] = Idle
      /\ call' \in Calls
  <2>1. CASE AddPlugin("output_manager", x)
    <3>1. /\ pc' = [pc EXCEPT ![x] = "created"] /\ plugins_count' = plugins_count
          /\ storage_plugins' = [storage_plugins EXCEPT ![plugins_count] = Structure(x)]
          /\ id' = [id EXCEPT ![Structure(x)] = x] /\ config' = [config EXCEPT ![x] = Structure(x)]
          /\ call' = [call EXCEPT !["output_manager"] = [op |-> "count", plugin |-> x]]
      BY <2>1 DEF AddPlugin
    <3>2. label = "created"
      BY <1>3, <1>5, <3>1 DEF Types
    <3>3. id'[Structure(x)] = x /\ storage_plugins'[plugins_count] = Structure(x)
      BY <1>3, <3>1 DEF Types
    <3>4. Output' = [op |-> "count", plugin |-> x] /\ call'["main"] = Idle
          /\ call' \in Calls
      BY <1>3, <3>1 DEF Output, CallsInvariant, Callers
    <3> QED
      BY <1>7, <2>1, <3>1, <3>2, <3>3, <3>4 DEF Count
  <2>2. CASE AddNothing("output_manager", x)
    <3>1. /\ pc' = [pc EXCEPT ![x] = "refused"] /\ plugins_count' = plugins_count
          /\ config' = config /\ call' = call
      BY <2>2 DEF AddNothing
    <3>2. label = "refused"
      BY <1>3, <1>5, <3>1 DEF Types
    <3> QED
      BY <1>2, <1>7, <3>1, <3>2 DEF Output, CallsInvariant, Count
  <2> QED
    BY <1>2, <2>1, <2>2
<1>9. ~NullWritten /\ ~NullWritten' /\ NullWritten' = NullWritten
  BY <1>2, <1>4, <1>7, <1>8 DEF NullWritten
<1>10. \A r : (Pending(r)' <=> r = x /\ label = "created") /\ ~Pending(r)
  BY <1>4, <1>7, <1>8 DEF Pending
<1>11. /\ Base' = Base /\ Base = 0 - queue.count /\ queue.count \in Nat
       /\ \A i : Distance(i)' = Distance(i) /\ Live(i)' = Live(i) /\ NumberAt(i)' = NumberAt(i)
  BY <1>2, <1>7, <1>9, QueueTypes DEF Base, Distance, Live, NumberAt
<1>12. Types'
  <2>1. config' \in [Plugins -> Plugins]
    <3>1. config' = [config EXCEPT ![x] = Structure(x)] \/ config' = config
      BY <1>4, <1>8
    <3>2. config \in [Plugins -> Plugins]
      BY DEF Types
    <3> QED
      BY <1>3, <3>1, <3>2
  <2>2. pc' \in [Plugins -> {"none", "refused", "created", "read", "load", "store",
                            "drop", "release", "next", "exit", "ended"}]
    BY <1>4 DEF Types
  <2> QED
    BY <1>2, <1>3, <1>7, <2>1, <2>2 DEF Types
<1>13. CallsInvariant'
  <2>1. label = "created" => x \in Joined'
    BY <1>6
  <2> QED
    BY <1>2, <1>4, <1>7, <1>8, <2>1 DEF CallsInvariant
<1>14. PluginsInvariant'
  <2>1. Count' = Cardinality(Joined') /\ Count' <= starting'
    <3>1. IsFiniteSet(Joined) /\ Count = Cardinality(Joined)
      BY PluginsCounted DEF PluginsInvariant
    <3>2. Cardinality(Joined \cup {x}) = Cardinality(Joined) + 1
      BY <1>3, <3>1, FS_AddElement
    <3>3. CASE label = "created"
      <4>1. Count' = Cardinality(Joined')
        BY <1>6, <1>8, <3>1, <3>2, <3>3
      <4> QED
        <5>1. Count' = Count + 1 /\ starting' = starting + 1
          BY <1>2, <1>8, <3>3
        <5> QED
          BY <1>3, <1>8, <4>1, <5>1
    <3>4. CASE label = "refused"
      <4>1. Count' = Cardinality(Joined')
        BY <1>6, <1>8, <3>1, <3>4
      <4> QED
        <5>1. Count' = Count /\ starting' = starting + 1
          BY <1>2, <1>8, <3>4
        <5> QED
          BY <1>3, <1>8, <4>1, <5>1
    <3> QED
      BY <1>4, <3>3, <3>4
  <2>2. Joined' \subseteq ToSet(Initial) /\ \A i \in DOMAIN Initial : i > starting' => Initial[i] \notin Joined'
    BY <1>3, <1>6 DEF PluginsInvariant
  <2>3. ASSUME NEW p \in Joined'
        PROVE  /\ id'[config'[p]] = p
               /\ \E i \in 0 .. 7 : i < Count' /\ storage_plugins'[i] = config'[p]
    <3>1. CASE p = x
      <4>1. label = "created"
        BY <1>3, <1>4, <1>6, <2>3, <3>1
      <4>2. config'[x] = Structure(x)
        BY <1>3, <1>8, <4>1 DEF Types
      <4>3. plugins_count < Count'
        BY <1>3, <1>8, <4>1
      <4> QED
        BY <1>3, <1>8, <3>1, <4>1, <4>2, <4>3
    <3>2. CASE p # x
      <4>1. p \in Joined
        BY <1>6, <2>3, <3>2
      <4>2. config'[p] = config[p]
        BY <1>4, <1>8, <3>2, <4>1 DEF Types, Joined
      <4>3. PICK i \in 0 .. 7 : i < plugins_count /\ storage_plugins'[i] = config[p]
        BY <1>3, <4>1
      <4>4. i < Count'
        BY <1>3, <1>4, <1>8, <4>3
      <4> QED
        BY <1>3, <4>1, <4>2, <4>3, <4>4
    <3> QED
      BY <3>1, <3>2
  <2> QED
    BY <1>3, <1>8, <2>1, <2>2, <2>3 DEF PluginsInvariant
<1>15. StartsInvariant'
  <2>1. ~can_read[x] /\ from[x] = NotDue /\ stored[x] = <<>>
    BY <1>3 DEF StartsInvariant
  <2>2. \A r \in Plugins : from[r] = IF r \notin Joined' \/ Pending(r)' THEN NotDue ELSE 0
    BY <1>4, <1>6, <1>10, <2>1 DEF StartsInvariant
  <2>3. \A r \in Joined' : Pending(r)' \/ pc'[r] = "created" => ~can_read[r]
    BY <1>5, <1>6, <1>10, <2>1 DEF StartsInvariant, Joined
  <2>4. \A r \in Joined' : ~can_read[r] =>
          Pending(r)' \/ \E i \in Slots : Live(i) /\ queue.data[i] = Start(r)
    BY <1>4, <1>6, <1>10 DEF StartsInvariant
  <2>5. \A i \in Slots : \A r \in Plugins : queue.data[i] = Start(r) => r \in Joined' /\ ~Pending(r)'
    BY <1>3, <1>6, <1>10 DEF StartsInvariant
  <2>6. \A r \in Plugins : r \notin Joined' => ~can_read[r]
    BY <1>6 DEF StartsInvariant
  <2> QED
    BY <1>2, <1>11, <2>2, <2>3, <2>4, <2>5, <2>6 DEF StartsInvariant
<1>16. ContentsInvariant'
  BY <1>2, <1>6, <1>9, <1>11 DEF ContentsInvariant
<1>17. ReferencesInvariant'
  <2> SUFFICES ASSUME NEW i \in Slots, Live(i)
               PROVE  /\ NumberAt(i) < 0
                      /\ \A r \in Plugins : queue.data[i] = Start(r) =>
                           queue.data_references[i] = IF HoldsStart(r)' THEN 1 ELSE 0
    BY <1>2, <1>11 DEF ReferencesInvariant
  <2>1. NumberAt(i) < 0
    BY <1>11, DistanceInjective DEF Live, NumberAt
  <2>2. ASSUME NEW r \in Plugins, queue.data[i] = Start(r)
        PROVE  HoldsStart(r)' = HoldsStart(r)
    <3>1. r \in Joined /\ r # x
      BY <1>3, <2>2 DEF StartsInvariant
    <3> QED
      BY <1>2, <1>5, <3>1 DEF HoldsStart, Joined
  <2> QED
    BY <2>1, <2>2 DEF ReferencesInvariant
<1>18. PlacesInvariant'
  <2> SUFFICES ASSUME NEW r \in Joined', pc'[r] # "created"
               PROVE  \E d \in -1 .. queue.count : At(r, d)'
    BY <1>2 DEF PlacesInvariant
  <2>1. r \in Joined /\ r # x
    BY <1>3, <1>4, <1>5, <1>6
  <2>2. /\ pc'[r] = pc[r] /\ index'[r] = index[r] /\ msg'[r] = msg[r]
        /\ can_read'[r] = can_read[r] /\ do_free'[r] = do_free[r] /\ stored'[r] = stored[r]
    BY <1>2, <1>5, <2>1 DEF Joined
  <2>3. PICK e \in -1 .. queue.count : At(r, e)
    BY <2>1, <2>2 DEF PlacesInvariant
  <2>4. At(r, e)'
    BY <1>2, <1>6, <1>9, <1>11, <2>2, <2>3, AtFrame
  <2> QED
    BY <2>4
<1>19. StoredInvariant'
  BY <1>2, <1>11 DEF StoredInvariant
<1> QED
  BY <1>12, <1>13, <1>14, <1>15, <1>16, <1>17, <1>18, <1>19

-----------------------------------------------------------------------------
(* The invariant, and what it says *)

LEMMA InitInvariant ==
  ASSUME Init
  PROVE  ManagerInvariant
<1>1. Joined = {} /\ Output = Idle /\ Output.op = "idle" /\ starting = 0 /\ ~open
  BY DEF Init, Joined, Output, Callers, Idle
<1>2. ~NullWritten /\ \A r : ~Pending(r)
  BY <1>1, InitialLength DEF NullWritten, Pending
<1>3. /\ queue.read_offset = 0 /\ queue.write_offset = 0 /\ queue.count = 0
      /\ queue.data = [i \in Slots |-> End] /\ queue.data_references = [i \in Slots |-> 0]
      /\ 0 \in Slots
  BY QueueSizeAssumption DEF Init, rbuffer_init, Slots
<1>4. Types
  <2>1. queue \in StoreQueues
    BY <1>3 DEF Init, rbuffer_init
  <2>2. /\ storage_plugins \in [0 .. 7 -> Plugins \cup {NULL}]
        /\ id \in [Plugins -> Plugins] /\ config \in [Plugins -> Plugins]
        /\ open \in BOOLEAN /\ starting \in Nat /\ data \in Nat
        /\ pc \in [Plugins -> {"none", "refused", "created", "read", "load", "store",
                               "drop", "release", "next", "exit", "ended"}]
        /\ index \in [Plugins -> Slots]
    BY <1>3 DEF Init
  <2>3. /\ can_read \in [Plugins -> BOOLEAN] /\ do_free \in [Plugins -> BOOLEAN]
        /\ msg \in [Plugins -> {Data(n) : n \in Nat} \cup {End}]
        /\ stop = [p \in Plugins |-> FALSE]
        /\ starting_msg \in [Plugins -> {Start(p) : p \in Plugins} \cup {NULL}]
        /\ from \in [Plugins -> {NotDue, 0}]
    BY DEF Init
  <2>4. stored \in [Plugins -> Seq(Nat)]
    BY DEF Init
  <2> QED
    BY <2>1, <2>2, <2>3, <2>4 DEF Types
<1>5. CallsInvariant
  BY <1>1, InitialLength DEF Init, CallsInvariant, Callers
<1>6. PluginsInvariant
  BY <1>1, FS_EmptySet DEF Init, PluginsInvariant, Count
<1>7. \A i \in Slots : ~Live(i) /\ queue.data[i] = End
  BY <1>3, <1>4, DistanceInjective DEF Live
<1>8. StartsInvariant
  BY <1>1, <1>2, <1>7, Kinds DEF Init, StartsInvariant
<1>9. ContentsInvariant
  BY <1>2, <1>3, <1>7, QueueSizeAssumption DEF ContentsInvariant, Distance, DistanceFrom
<1>10. ReferencesInvariant /\ PlacesInvariant
  BY <1>1, <1>7 DEF ReferencesInvariant, PlacesInvariant
<1>11. StoredInvariant
  BY DEF Init, StoredInvariant
<1> QED
  BY <1>4, <1>5, <1>6, <1>8, <1>9, <1>10, <1>11 DEF ManagerInvariant

\* The main thread has nothing to do.
LEMMA NoMainStep ==
  ASSUME FixedPlugins, ManagerInvariant
  PROVE  ~Main /\ \A p \in Plugins : ~AddLater(p) /\ ~RemovePlugin(p)
<1>1. call["main"] = Idle /\ call["main"].op = "idle"
  BY DEF ManagerInvariant, CallsInvariant, Idle
<1> QED
  BY <1>1 DEF Main, CountPlugin, WriteStart, WriteStop, Join, AddLater, RemovePlugin, FixedPlugins

LEMMA NextInvariant ==
  ASSUME FixedPlugins, ManagerInvariant, [Next]_vars
  PROVE  ManagerInvariant'
<1>1. CASE CreateNext
  BY <1>1, CreateNextStep
<1>2. CASE Created
  BY <1>2, CreatedStep
<1>3. CASE WriteStart("output_manager")
  BY <1>3, WriteStartStep
<1>4. CASE WriteData
  BY <1>4, WriteDataStep
<1>5. CASE WriteNull
  BY <1>5, WriteNullStep
<1>6. CASE CloseReturns
  BY <1>6, CloseReturnsStep
<1>7. CASE CallWriteData \/ Close
  BY <1>7, CallStep
<1>8. CASE \E p \in Plugins : Thread(p)
  BY <1>8, ThreadStep
<1>9. CASE UNCHANGED vars
  <2>1. /\ ThreadsUnchanged /\ UNCHANGED <<queue, data, from>>
        /\ UNCHANGED <<call, open, starting, plugins_count, storage_plugins, id, config>>
    BY <1>9 DEF vars, queue_vars, manager_vars, caller_vars, thread_vars, ThreadsUnchanged
  <2>2. Joined' = Joined /\ Output' = Output
    BY <2>1, ThreadsFrame DEF Output
  <2>3. NullWritten' = NullWritten /\ \A r : Pending(r)' = Pending(r)
    BY <2>1, <2>2 DEF NullWritten, Pending
  <2>4. Types'
    BY <2>1 DEF ManagerInvariant, Types, ThreadsUnchanged
  <2>5. CallsInvariant' /\ PluginsInvariant'
    BY <2>1, <2>2 DEF ManagerInvariant, CallsInvariant, PluginsInvariant, Count, ThreadsUnchanged
  <2> QED
    BY <2>1, <2>3, <2>4, <2>5, QueueFrame DEF ManagerInvariant
<1>10. CASE CountPlugin("output_manager")
  BY <1>10, CountPluginStep
<1> QED
  BY <1>1, <1>2, <1>3, <1>4, <1>5, <1>6, <1>7, <1>8, <1>9, <1>10, NoMainStep DEF Next, OutputManager

\* The places of the threads and the references of the slots fit together in
\* every reachable state (storage_plugin_thread, rbuffer_remove_reference).
THEOREM ManagerCorrect ==
  ASSUME FixedPlugins
  PROVE  Spec => []ManagerInvariant
<1>1. Init => ManagerInvariant
  BY InitInvariant
<1>2. ManagerInvariant /\ [Next]_vars => ManagerInvariant'
  BY NextInvariant
<1> QED
  BY <1>1, <1>2, PTL DEF Spec

LEMMA OrderFollows ==
  ASSUME ManagerInvariant
  PROVE  StoresInOrder
<1> USE DEF ManagerInvariant
<1> SUFFICES ASSUME NEW p \in Plugins, NEW i \in 1 .. Len(stored[p])
             PROVE  stored[p][i] = from[p] + i - 1
  BY DEF StoresInOrder
<1>1. Len(stored[p]) \in Nat
  BY Numbers
<1>2. stored[p] # <<>>
  BY <1>1
<1>3. can_read[p] /\ p \in Joined /\ ~Pending(p)
  BY <1>2 DEF StartsInvariant
<1>4. from[p] = 0
  BY <1>3 DEF StartsInvariant
<1> QED
  BY <1>1, <1>4 DEF StoredInvariant

LEMMA ReferencesFollow ==
  ASSUME ManagerInvariant
  PROVE  ReferenceHeld
<1> USE DEF ManagerInvariant
<1> SUFFICES ASSUME NEW p \in Plugins, pc[p] \in {"store", "drop"}
             PROVE  /\ pc[p] = "store" => msg[p] \notin freed
                    /\ queue.data_references[index[p]] > 0
  BY DEF ReferenceHeld
<1>1. p \in Joined
  BY DEF Joined
<1>2. PICK e \in -1 .. queue.count : At(p, e)
  BY <1>1 DEF PlacesInvariant
<1>3. e >= 0 /\ queue.data_references[index[p]] > 0
  BY <1>1, <1>2, DropHasReference
<1>4. ASSUME pc[p] = "store", msg[p] \in freed PROVE FALSE
  <2>1. msg[p] = Data(Base + e) /\ Base + e >= 0
    BY <1>2, <1>4 DEF At
  <2>2. Base \in Int /\ Base + e \in Nat
    BY <2>1, Numbers
  <2>3. Base + e < Base
    BY <1>4, <2>1, <2>2 DEF StoredInvariant
  <2> QED
    BY <1>3, <2>2, <2>3
<1> QED
  BY <1>3, <1>4

LEMMA EndFollows ==
  ASSUME ManagerInvariant
  PROVE  NothingLeftAtClose
<1> USE DEF ManagerInvariant
<1> SUFFICES ASSUME starting > Len(Initial), ~open
             PROVE  /\ Running = {}
                    /\ \A p \in Plugins : from[p] # NotDue => Len(stored[p]) = data - from[p]
  BY DEF NothingLeftAtClose
<1>1. NullWritten /\ \A p \in Joined : pc[p] = "ended"
  BY DEF NullWritten, CallsInvariant
<1>2. Running = {}
  BY <1>1 DEF Running, Joined
<1>3. ASSUME NEW p \in Plugins, from[p] # NotDue
      PROVE  Len(stored[p]) = data - from[p]
  <2>1. p \in Joined /\ from[p] = 0
    BY <1>3 DEF StartsInvariant
  <2>2. PICK e \in -1 .. queue.count : At(p, e)
    BY <1>1, <2>1 DEF PlacesInvariant
  <2>3. e = queue.count - 1 /\ Dropped(p) = NotNegative(Base + e)
    BY <1>1, <2>1, <2>2 DEF At
  <2>4. Dropped(p) = Len(stored[p])
    BY <1>1, <2>1 DEF Dropped
  <2>5. Base = data - (queue.count - 1) /\ data \in Nat /\ queue.count \in Nat
    BY <1>1, QueueTypes DEF Base, Types
  <2>6. Base + e = data
    BY <2>3, <2>5
  <2>7. Dropped(p) = NotNegative(data)
    BY <2>3, <2>6
  <2>8. NotNegative(data) = data
    BY <2>5 DEF NotNegative
  <2>9. Len(stored[p]) = data
    BY <2>4, <2>7, <2>8
  <2> QED
    BY <2>1, <2>5, <2>9
<1> QED
  BY <1>2, <1>3

\* storage_plugin_thread stores every message once and in the order of writing,
\* with a queue of any length and any number of messages.
THEOREM InOrder ==
  ASSUME FixedPlugins
  PROVE  Spec => []StoresInOrder
<1>1. ManagerInvariant => StoresInOrder
  BY OrderFollows
<1> QED
  BY <1>1, ManagerCorrect, PTL

\* store_packet gets no message that was freed, and rbuffer_remove_reference
\* always finds a reference to remove.
THEOREM References ==
  ASSUME FixedPlugins
  PROVE  Spec => []ReferenceHeld
<1>1. ManagerInvariant => ReferenceHeld
  BY ReferencesFollow
<1> QED
  BY <1>1, ManagerCorrect, PTL

\* When data_manager_close returns, every thread has ended and every plugin has
\* stored every message.
THEOREM Complete ==
  ASSUME FixedPlugins
  PROVE  Spec => []NothingLeftAtClose
<1>1. ManagerInvariant => NothingLeftAtClose
  BY EndFollows
<1> QED
  BY <1>1, ManagerCorrect, PTL

=============================================================================
