----------------------------- MODULE DataManager -----------------------------
(***************************************************************************)
(* One Data Manager (base/src/data_manager.c): the queue of one            *)
(* observation domain, the storage plugins that read it, each in a thread  *)
(* of its own, and the two threads that operate on it: the Output Manager  *)
(* creates it, writes the data messages and closes it; the main thread     *)
(* adds and removes plugins when the configuration changes.  Nothing       *)
(* orders the two.                                                         *)
(*                                                                         *)
(* A plugin is switched on by a START message and off by a STOP message in *)
(* the same queue.  Only the plugin that a START is for drops a reference  *)
(* on it, every thread that meets a STOP drops one, and a plugin that has  *)
(* not met its START passes the data by.                                   *)
(*                                                                         *)
(* Blocking in rbuffer_read and rbuffer_write is a guard here; the wake-   *)
(* ups that end it are the subject of RingBuffer.                          *)
(***************************************************************************)
EXTENDS Queues, Sequences, SequencesExt, FiniteSets

CONSTANTS
  Plugins,        \* storage plugins, by the id the configurator gave them
  Initial,        \* sequence of the plugins data_manager_create starts
  Added,          \* plugins the main thread may add later
  Removed,        \* plugins the main thread may remove
  Failing,        \* plugins whose storage_init fails
  ThisOdid,       \* plugins configured for this observation domain
  OtherOdid,      \* plugins configured for another one
  MaxData,        \* bound: data messages in a behaviour
  NULL            \* the null pointer

ASSUME PluginsAssumption ==
  /\ IsFiniteSet(Plugins) /\ Cardinality(Plugins) <= 8   \* storage_plugins[8]
  /\ Initial \in Seq(Plugins)
  /\ \A i, j \in DOMAIN Initial : Initial[i] = Initial[j] => i = j   \* ids are unique
  /\ Added \subseteq Plugins \ ToSet(Initial)
  /\ Removed \subseteq Plugins /\ Failing \subseteq Plugins
  /\ ThisOdid \cap OtherOdid = {}
  /\ MaxData \in Nat /\ NULL \notin Plugins

Start(p) == [type |-> "start", plugin |-> p]
Stop(p)  == [type |-> "stop", plugin |-> p]
Data(n)  == [type |-> "data", number |-> n]
End      == [type |-> "null"]         \* the NULL pointer data_manager_close writes

\* The two threads that operate on the Data Manager.
Callers == {"output_manager", "main"}

VARIABLES
  queue,              \* store_queue
  storage_plugins,    \* the array: slot -> structure, named after its first plugin
  plugins_count,
  oid_specific,       \* oid_specific_plugins > 0
  id,                 \* structure -> plugin whose data it holds
  freed_structs,      \* structures given back by free()
  call,               \* what each caller is doing
  starting,           \* how many of Initial were started; then the manager is open
  open,               \* data_manager_create returned, data_manager_close did not
  pc, config, index, msg, can_read, stop, starting_msg, do_free,   \* the threads
  data,               \* history: data messages written
  stored,             \* history: numbers each plugin stored
  from,               \* history: number of the first message due to each plugin
  freed               \* history: messages whose memory was freed

queue_vars   == <<queue, data, from>>
manager_vars == <<storage_plugins, plugins_count, oid_specific, id, freed_structs>>
caller_vars  == <<call, starting, open>>
thread_vars  == <<pc, config, index, msg, can_read, stop, starting_msg, do_free>>
vars == <<queue_vars, manager_vars, caller_vars, thread_vars, stored, freed>>

Idle == [op |-> "idle"]

\* No message is due to a plugin before its START.
NotDue == -1

Init ==
  /\ queue = rbuffer_init(End)
  /\ storage_plugins = [i \in 0 .. 7 |-> NULL]
  /\ plugins_count = 0
  /\ oid_specific = \E i \in DOMAIN Initial : Initial[i] \in ThisOdid
  /\ id = [s \in Plugins |-> s]
  /\ freed_structs = {}
  /\ call = [c \in Callers |-> Idle]
  /\ starting = 0
  /\ open = FALSE
  /\ pc = [p \in Plugins |-> "none"]
  /\ config = [p \in Plugins |-> p]
  /\ index = [p \in Plugins |-> 0]
  /\ msg = [p \in Plugins |-> End]
  /\ can_read = [p \in Plugins |-> FALSE]
  /\ stop = [p \in Plugins |-> FALSE]
  /\ starting_msg = [p \in Plugins |-> NULL]
  /\ do_free = [p \in Plugins |-> FALSE]
  /\ data = 0
  /\ stored = [p \in Plugins |-> <<>>]
  /\ from = [p \in Plugins |-> NotDue]
  /\ freed = {}

-----------------------------------------------------------------------------
(* data_manager_add_plugin, called by either caller *)

SkippedByOdid(p) == p \in OtherOdid \/ (p \notin ThisOdid /\ oid_specific)

\* The structure the plugin is copied into: a new one, or whatever the array
\* slot already points to.
Structure(p) == IF storage_plugins[plugins_count] = NULL
                THEN p ELSE storage_plugins[plugins_count]

\* Copy, init and thread creation: the thread may run before it is counted.
AddPlugin(c, p) ==
  /\ ~SkippedByOdid(p) /\ p \notin Failing
  /\ storage_plugins' = [storage_plugins EXCEPT ![plugins_count] = Structure(p)]
  /\ id' = [id EXCEPT ![Structure(p)] = p]
  /\ config' = [config EXCEPT ![p] = Structure(p)]
  /\ pc' = [pc EXCEPT ![p] = "created"]
  /\ call' = [call EXCEPT ![c] = [op |-> "count", plugin |-> p]]
  /\ UNCHANGED <<plugins_count, oid_specific, freed_structs, index, msg, can_read,
                 stop, starting_msg, do_free>>

\* Not for this domain: nothing happens.  storage_init fails: the structure is
\* freed, the array keeps pointing to it.
AddNothing(c, p) ==
  /\ \/ SkippedByOdid(p) /\ UNCHANGED <<storage_plugins, id, freed_structs>>
     \/ /\ ~SkippedByOdid(p) /\ p \in Failing
        /\ storage_plugins' = [storage_plugins EXCEPT ![plugins_count] = Structure(p)]
        /\ id' = [id EXCEPT ![Structure(p)] = p]
        /\ freed_structs' = freed_structs \cup {Structure(p)}
  /\ pc' = [pc EXCEPT ![p] = "refused"]
  /\ UNCHANGED <<call, plugins_count, oid_specific, config, index, msg, can_read,
                 stop, starting_msg, do_free>>

CountPlugin(c) ==
  /\ call[c].op = "count"
  /\ plugins_count' = plugins_count + 1
  /\ call' = [call EXCEPT ![c] = [op |-> "start", plugin |-> call[c].plugin]]
  /\ UNCHANGED <<queue_vars, storage_plugins, oid_specific, id, freed_structs,
                 starting, open, thread_vars, stored, freed>>

WriteStart(c) ==
  /\ call[c].op = "start"
  /\ ~Full(queue)
  /\ queue' = Enqueue(queue, Start(call[c].plugin), 1)
  /\ from' = [from EXCEPT ![call[c].plugin] = data]
  /\ call' = [call EXCEPT ![c] = Idle]
  /\ UNCHANGED <<data, manager_vars, starting, open, thread_vars, stored, freed>>

-----------------------------------------------------------------------------
(* The Output Manager *)

\* data_manager_create: the next plugin of the list.
CreateNext ==
  /\ ~open /\ starting < Len(Initial)
  /\ call["output_manager"] = Idle
  /\ \/ AddPlugin("output_manager", Initial[starting + 1])
     \/ AddNothing("output_manager", Initial[starting + 1])
  /\ starting' = starting + 1
  /\ UNCHANGED <<queue_vars, open, stored, freed>>

\* data_manager_create returns; without a plugin there is no manager.
Created ==
  /\ ~open /\ starting = Len(Initial)
  /\ call["output_manager"] = Idle
  /\ plugins_count > 0
  /\ open' = TRUE
  /\ starting' = starting + 1
  /\ UNCHANGED <<queue_vars, manager_vars, call, thread_vars, stored, freed>>

\* output_manager_plugin_thread passes a message on; the number of plugins is
\* read before rbuffer_write waits for room.
CallWriteData ==
  /\ open /\ call["output_manager"] = Idle
  /\ data < MaxData
  /\ call' = [call EXCEPT !["output_manager"] =
                [op |-> "data", ref_count |-> plugins_count]]
  /\ UNCHANGED <<queue_vars, manager_vars, starting, open, thread_vars, stored, freed>>

\* rbuffer_write refuses a reference count of 0, and the message is skipped.
WriteData ==
  /\ call["output_manager"].op = "data"
  /\ \/ /\ call["output_manager"].ref_count = 0
        /\ UNCHANGED <<queue, data>>
     \/ /\ call["output_manager"].ref_count > 0
        /\ ~Full(queue)
        /\ queue' = Enqueue(queue, Data(data), call["output_manager"].ref_count)
        /\ data' = data + 1
  /\ call' = [call EXCEPT !["output_manager"] = Idle]
  /\ UNCHANGED <<from, manager_vars, starting, open, thread_vars, stored, freed>>

\* data_manager_close, when the last source of the domain is gone.
Close ==
  /\ open /\ call["output_manager"] = Idle
  /\ call' = [call EXCEPT !["output_manager"] =
                [op |-> "null", ref_count |-> plugins_count]]
  /\ UNCHANGED <<queue_vars, manager_vars, starting, open, thread_vars, stored, freed>>

\* Mutant: the NULL is not written.
WriteNull_Nothing ==
  /\ call["output_manager"].op = "null"
  /\ \/ /\ call["output_manager"].ref_count = 0
        /\ UNCHANGED queue
     \/ /\ call["output_manager"].ref_count > 0
        /\ ~Full(queue)
        /\ UNCHANGED queue
  /\ call' = [call EXCEPT !["output_manager"] = [op |-> "close"]]
  /\ UNCHANGED <<data, from, manager_vars, starting, open, thread_vars, stored, freed>>

\* The write of NULL; rbuffer_write refuses a reference count of 0.
WriteNull ==
  /\ call["output_manager"].op = "null"
  /\ \/ /\ call["output_manager"].ref_count = 0
        /\ UNCHANGED queue
     \/ /\ call["output_manager"].ref_count > 0
        /\ ~Full(queue)
        /\ queue' = Enqueue(queue, End, call["output_manager"].ref_count)
  /\ call' = [call EXCEPT !["output_manager"] = [op |-> "close"]]
  /\ UNCHANGED <<data, from, manager_vars, starting, open, thread_vars, stored, freed>>

\* The structures the loops over storage_plugins reach.
Listed == {storage_plugins[i] : i \in 0 .. plugins_count - 1} \ {NULL}

\* Mutant: the threads are not joined.
CloseReturns_NoJoin ==
  /\ call["output_manager"].op = "close"
  /\ freed_structs' = freed_structs \cup Listed
  /\ storage_plugins' = [i \in 0 .. 7 |-> IF i < plugins_count
                                          THEN NULL ELSE storage_plugins[i]]
  /\ open' = FALSE
  /\ call' = [call EXCEPT !["output_manager"] = Idle]
  /\ UNCHANGED <<queue_vars, plugins_count, oid_specific, id, starting,
                 thread_vars, stored, freed>>

\* Every listed thread was joined; its structure and the queue are freed.
CloseReturns ==
  /\ call["output_manager"].op = "close"
  /\ \A s \in Listed : pc[id[s]] = "ended"
  /\ freed_structs' = freed_structs \cup Listed
  /\ storage_plugins' = [i \in 0 .. 7 |-> IF i < plugins_count
                                          THEN NULL ELSE storage_plugins[i]]
  /\ open' = FALSE
  /\ call' = [call EXCEPT !["output_manager"] = Idle]
  /\ UNCHANGED <<queue_vars, plugins_count, oid_specific, id, starting,
                 thread_vars, stored, freed>>

-----------------------------------------------------------------------------
(* The main thread *)

\* While data_manager_close runs the Output Manager has taken the manager off
\* its list.
Reachable == open /\ call["output_manager"].op \notin {"null", "close"}

AddLater(p) ==
  /\ Reachable /\ call["main"] = Idle
  /\ p \in Added /\ pc[p] = "none"
  /\ AddPlugin("main", p) \/ AddNothing("main", p)
  /\ UNCHANGED <<queue_vars, starting, open, stored, freed>>

\* Mutant: STOP is counted without the plugin it stops.
RemovePlugin_CountOthers(p) ==
  /\ Reachable /\ call["main"] = Idle
  /\ p \in Removed
  /\ \E i \in 0 .. plugins_count - 1 :
       /\ storage_plugins[i] # NULL /\ id[storage_plugins[i]] = p
       /\ storage_plugins' = [storage_plugins EXCEPT ![i] = NULL]
       /\ call' = [call EXCEPT !["main"] =
                     [op |-> "stop", plugin |-> p, ref_count |-> plugins_count - 1]]
  /\ UNCHANGED <<queue_vars, plugins_count, oid_specific, id, freed_structs,
                 starting, open, thread_vars, stored, freed>>

\* data_manager_remove_plugin finds the plugin below plugins_count.
RemovePlugin(p) ==
  /\ Reachable /\ call["main"] = Idle
  /\ p \in Removed
  /\ \E i \in 0 .. plugins_count - 1 :
       /\ storage_plugins[i] # NULL /\ id[storage_plugins[i]] = p
       /\ storage_plugins' = [storage_plugins EXCEPT ![i] = NULL]
       /\ call' = [call EXCEPT !["main"] =
                     [op |-> "stop", plugin |-> p, ref_count |-> plugins_count]]
  /\ UNCHANGED <<queue_vars, plugins_count, oid_specific, id, freed_structs,
                 starting, open, thread_vars, stored, freed>>

WriteStop ==
  /\ call["main"].op = "stop"
  /\ ~Full(queue)
  /\ queue' = Enqueue(queue, Stop(call["main"].plugin), call["main"].ref_count)
  /\ call' = [call EXCEPT !["main"] = [op |-> "join", plugin |-> call["main"].plugin]]
  /\ UNCHANGED <<data, from, manager_vars, starting, open, thread_vars, stored, freed>>

Join ==
  /\ call["main"].op = "join"
  /\ pc[call["main"].plugin] = "ended"
  /\ plugins_count' = plugins_count - 1
  /\ call' = [call EXCEPT !["main"] = Idle]
  /\ UNCHANGED <<queue_vars, storage_plugins, oid_specific, id, freed_structs,
                 starting, open, thread_vars, stored, freed>>

-----------------------------------------------------------------------------
(* storage_plugin_thread *)

Goto(p, label) == pc' = [pc EXCEPT ![p] = label]

\* Mutant: the thread begins where the next message will be written.
Begin_AtWriteOffset(p) ==
  /\ pc[p] = "created"
  /\ index' = [index EXCEPT ![p] = queue.write_offset]
  /\ Goto(p, "read")
  /\ UNCHANGED <<config, msg, can_read, stop, starting_msg, do_free,
                 queue_vars, manager_vars, caller_vars, stored, freed>>

\* The first index is the read offset at the time the thread begins to run.
Begin(p) ==
  /\ pc[p] = "created"
  /\ index' = [index EXCEPT ![p] = queue.read_offset]
  /\ Goto(p, "read")
  /\ UNCHANGED <<config, msg, can_read, stop, starting_msg, do_free,
                 queue_vars, manager_vars, caller_vars, stored, freed>>

\* rbuffer_read waits while the slot is the one written next.
SeeMessage(p) ==
  /\ pc[p] = "read"
  /\ ~NoDataAt(queue, index[p])
  /\ Goto(p, "load")
  /\ UNCHANGED <<config, index, msg, can_read, stop, starting_msg, do_free,
                 queue_vars, manager_vars, caller_vars, stored, freed>>

\* The pointer is loaded without the mutex, then the message is decoded.
Message(p) == queue.data[index[p]]
ForMe(p)   == Message(p).plugin = id[config[p]]

LoadEnd(p) ==
  /\ pc[p] = "load" /\ Message(p).type = "null"
  /\ Goto(p, "exit")
  /\ UNCHANGED <<config, index, msg, can_read, stop, starting_msg, do_free,
                 queue_vars, manager_vars, caller_vars, stored, freed>>

LoadStop(p) ==
  /\ pc[p] = "load" /\ Message(p).type = "stop"
  /\ stop' = [stop EXCEPT ![p] = ForMe(p)]
  /\ do_free' = [do_free EXCEPT ![p] = TRUE]
  /\ Goto(p, "drop")
  /\ UNCHANGED <<config, index, msg, can_read, starting_msg,
                 queue_vars, manager_vars, caller_vars, stored, freed>>

\* A second START for the same plugin frees the first one.
LoadStart(p) ==
  /\ pc[p] = "load" /\ Message(p).type = "start"
  /\ IF ForMe(p)
     THEN /\ can_read' = [can_read EXCEPT ![p] = TRUE]
          /\ starting_msg' = [starting_msg EXCEPT ![p] = Message(p)]
          /\ freed' = IF starting_msg[p] # NULL THEN freed \cup {starting_msg[p]} ELSE freed
          /\ do_free' = [do_free EXCEPT ![p] = FALSE]
          /\ Goto(p, "drop")
     ELSE /\ Goto(p, "next")
          /\ UNCHANGED <<can_read, starting_msg, do_free, freed>>
  /\ UNCHANGED <<config, index, msg, stop, queue_vars, manager_vars, caller_vars, stored>>

\* Mutant: data is stored before START.
LoadData_BeforeStart(p) ==
  /\ pc[p] = "load" /\ Message(p).type = "data"
  /\ IF TRUE
     THEN /\ msg' = [msg EXCEPT ![p] = Message(p)]
          /\ Goto(p, "store")
     ELSE Goto(p, "next") /\ UNCHANGED msg
  /\ UNCHANGED <<config, index, can_read, stop, starting_msg, do_free,
                 queue_vars, manager_vars, caller_vars, stored, freed>>

LoadData(p) ==
  /\ pc[p] = "load" /\ Message(p).type = "data"
  /\ IF can_read[p]
     THEN /\ msg' = [msg EXCEPT ![p] = Message(p)]
          /\ Goto(p, "store")
     ELSE Goto(p, "next") /\ UNCHANGED msg
  /\ UNCHANGED <<config, index, can_read, stop, starting_msg, do_free,
                 queue_vars, manager_vars, caller_vars, stored, freed>>

\* The plugin's store_packet returns.
Store(p) ==
  /\ pc[p] = "store"
  /\ stored' = [stored EXCEPT ![p] = Append(@, msg[p].number)]
  /\ msg' = [msg EXCEPT ![p] = End]
  /\ do_free' = [do_free EXCEPT ![p] = TRUE]
  /\ Goto(p, "drop")
  /\ UNCHANGED <<config, index, can_read, stop, starting_msg,
                 queue_vars, manager_vars, caller_vars, freed>>

\* rbuffer_remove_reference: the decrement, then the critical section.
Drop(p) ==
  /\ pc[p] = "drop"
  /\ queue' = Unreference(queue, index[p])
  /\ Goto(p, IF queue.data_references[index[p]] = 0 THEN "next" ELSE "release")
  /\ UNCHANGED <<data, from, config, index, msg, can_read, stop, starting_msg,
                 do_free, manager_vars, caller_vars, stored, freed>>

ReleaseOldest(p) ==
  /\ pc[p] = "release"
  /\ \E n \in 0 .. queue.count :
       /\ Releasable(queue, n)
       /\ queue' = Release(queue, n)
       /\ freed' = IF do_free[p] THEN freed \cup (Oldest(queue, n) \ {End}) ELSE freed
  /\ Goto(p, "next")
  /\ UNCHANGED <<data, from, config, index, msg, can_read, stop, starting_msg,
                 do_free, manager_vars, caller_vars, stored>>

NextMessage(p) ==
  /\ pc[p] = "next"
  /\ index' = [index EXCEPT ![p] = (@ + 1) % QueueSize]
  /\ do_free' = [do_free EXCEPT ![p] = FALSE]
  /\ Goto(p, IF stop[p] THEN "exit" ELSE "read")
  /\ UNCHANGED <<config, msg, can_read, stop, starting_msg,
                 queue_vars, manager_vars, caller_vars, stored, freed>>

\* The thread ends and frees its START message.
Exit(p) ==
  /\ pc[p] = "exit"
  /\ freed' = IF starting_msg[p] # NULL THEN freed \cup {starting_msg[p]} ELSE freed
  /\ starting_msg' = [starting_msg EXCEPT ![p] = NULL]
  /\ Goto(p, "ended")
  /\ UNCHANGED <<config, index, msg, can_read, stop, do_free,
                 queue_vars, manager_vars, caller_vars, stored>>

Thread(p) ==
  \/ Begin(p) \/ SeeMessage(p)
  \/ LoadEnd(p) \/ LoadStop(p) \/ LoadStart(p) \/ LoadData(p)
  \/ Store(p) \/ Drop(p) \/ ReleaseOldest(p) \/ NextMessage(p) \/ Exit(p)

\* What a caller inside a function of the Data Manager does next.
OutputManager ==
  \/ CreateNext \/ CountPlugin("output_manager") \/ WriteStart("output_manager")
  \/ Created \/ WriteData \/ WriteNull \/ CloseReturns

\* Nothing keeps the manager alive while the main thread is in one of its
\* functions; what the thread then does in freed memory is not modelled.
Main == open /\ (CountPlugin("main") \/ WriteStart("main") \/ WriteStop \/ Join)

Next ==
  \/ OutputManager \/ CallWriteData \/ Close
  \/ Main \/ (\E p \in Plugins : AddLater(p) \/ RemovePlugin(p))
  \/ \E p \in Plugins : Thread(p)

Spec == Init /\ [][Next]_vars

\* Threads run and callers finish what they began; nobody has to begin.
FairSpec ==
  /\ Spec
  /\ \A p \in Plugins : WF_vars(Thread(p))
  /\ WF_vars(OutputManager)
  /\ WF_vars(Main)

-----------------------------------------------------------------------------
Messages == {Start(p) : p \in Plugins} \cup {Stop(p) : p \in Plugins}
            \cup {Data(n) : n \in 0 .. MaxData - 1} \cup {End}

TypeOK ==
  /\ queue \in RingBuffers(Messages)
  /\ storage_plugins \in [0 .. 7 -> Plugins \cup {NULL}]
  /\ plugins_count \in 0 .. 8
  /\ id \in [Plugins -> Plugins] /\ config \in [Plugins -> Plugins]
  /\ freed_structs \subseteq Plugins
  /\ starting \in 0 .. Len(Initial) + 1
  /\ open \in BOOLEAN
  /\ pc \in [Plugins -> {"none", "refused", "created", "read", "load", "store", 
                         "drop", "release", "next", "exit", "ended"}]
  /\ index \in [Plugins -> Slots]
  /\ msg \in [Plugins -> Messages]
  /\ starting_msg \in [Plugins -> Messages \cup {NULL}]
  /\ data \in 0 .. MaxData
  /\ from \in [Plugins -> {NotDue} \cup 0 .. MaxData]
  /\ freed \subseteq Messages

Running == {p \in Plugins : pc[p] \notin {"none", "refused", "ended"}}

\* A plugin stores every data message from its START on, once and in the
\* order of writing, wherever the queue stood when its thread began to run:
\* its own START, which nobody else can drop, keeps the read offset from
\* passing the place where it has to begin.
StoresInOrder ==
  \A p \in Plugins : \A i \in 1 .. Len(stored[p]) : stored[p][i] = from[p] + i - 1

\* From the moment a plugin's thread has read a message until it drops its
\* reference to it, it has one: store_packet never works on a message that was
\* freed, and rbuffer_remove_reference always finds a reference to remove.
ReferenceHeld ==
  \A p \in Plugins :
    /\ pc[p] = "store" => msg[p] \notin freed
    /\ pc[p] \in {"store", "drop"} => queue.data_references[index[p]] > 0

\* After data_manager_close, which frees the queue and the structures, no
\* plugin thread is left, and every plugin stored everything that was due;
\* a plugin the main thread is just adding or removing is its own affair.
NothingLeftAtClose ==
  starting > Len(Initial) /\ ~open /\ call["main"] = Idle =>
    /\ Running = {}
    /\ \A p \in Plugins : from[p] # NotDue /\ ~stop[p] =>
         Len(stored[p]) = data - from[p]

\* The START message a thread keeps, and frees when it ends, was not freed by
\* the queue.
StartingMessageOwned ==
  \A p \in Plugins : starting_msg[p] \notin freed

\* A thread waits for data only when nothing that is due to it is in the queue.
WaitsOnlyWithoutData ==
  \A p \in Plugins : pc[p] = "read" /\ NoDataAt(queue, index[p]) =>
    \A j \in 0 .. queue.count - 1 :
      LET m == queue.data[SlotAt(queue, j)]
      IN  /\ m = Start(p) => can_read[p]
          /\ m.type = "data" /\ from[p] # NotDue => m.number < from[p] + Len(stored[p])

\* When every plugin waits for data and no call is under way, nothing is left
\* in the queue: each message was counted with exactly the plugins that drop it.
QueueDrains ==
  /\ open
  /\ \A c \in Callers : call[c] = Idle
  /\ \A p \in Running : pc[p] = "read" /\ NoDataAt(queue, index[p])
  => queue.count = 0

\* storage_plugins[0 .. plugins_count - 1] are the running plugins.
RunningPluginsListed ==
  \A p \in Running :
    call["main"] = Idle => config[p] \in Listed /\ id[config[p]] = p

\* No plugin thread works on a structure that was freed.
NoFreedStructure ==
  \A p \in Running : config[p] \notin freed_structs

\* data_manager_close returns: each thread gets its NULL and ends.
CloseCompletes == (call["output_manager"].op = "null") ~> (starting > 0 /\ ~open)

\* Every data message reaches every plugin it is due to.
EverythingStored ==
  \A p \in Plugins : \A n \in 0 .. MaxData - 1 :
    (data > n /\ from[p] \in 0 .. n) ~> (n - from[p] < Len(stored[p]))

=============================================================================
