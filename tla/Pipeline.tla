------------------------------ MODULE Pipeline ------------------------------
(***************************************************************************)
(* The chain of intermediate plugins between the Preprocessor and the      *)
(* Output Manager, and its reconfiguration while data flows.               *)
(*                                                                         *)
(* Every plugin runs ip_loop (base/src/intermediate_process.c) in a thread *)
(* of its own: it reads its input queue and gives the message to the       *)
(* plugin, which passes it or messages made of it on, drops it, or both.   *)
(* The Output Manager's thread is the last reader.  The main thread writes *)
(* the messages of the Preprocessor, and between two of them it may change *)
(* the chain (config_process_changes in base/src/configurator.c): a        *)
(* plugin is taken out or put in by handing the next stage another input   *)
(* queue, announced by a NULL message in the old one.                      *)
(*                                                                         *)
(* A queue is a bounded sequence: RingBufferProofs shows that this is what *)
(* a ring buffer with one reader is, and SingleReader that there is one.   *)
(* Taking a plugin out frees the queue that the next stage was just given. *)
(* What using it does from then on is undefined: the model lets it go on   *)
(* working, until at any point its messages are lost, writing to it has no *)
(* effect and reading from it may return NULL (Damage).                    *)
(***************************************************************************)
EXTENDS Integers, Sequences, SequencesExt, FiniteSets

CONSTANTS
  Plugins,       \* intermediate plugins: a name with a configuration
  OM,            \* the Output Manager's thread
  NULL,          \* the null pointer, also as a message
  Initial,       \* the chain after the start: plugins by position
  Configurations,\* chains the user may ask for
  Calls,         \* what a plugin may do with a message: "pass" and "drop" calls
  Missing,       \* plugins that cannot be loaded
  Failing,       \* plugins that ip_init cannot start
  Capacity,      \* messages a queue holds
  MaxMessages,   \* bound: messages in a behaviour
  MaxReconf      \* bound: reconfigurations in a behaviour

Stages == Plugins \cup {OM}

\* Positions of the array startup->inter that are used, and one behind them.
Places == 0 .. Cardinality(Plugins)

\* A configuration as an array: NULL behind its last plugin.
Array(chain) == [i \in Places |-> IF i < Len(chain) THEN chain[i + 1] ELSE NULL]

ASSUME PipelineAssumption ==
  /\ OM \notin Plugins /\ NULL \notin Stages
  /\ Initial \in Seq(Plugins) /\ Configurations \subseteq Seq(Plugins)
  /\ \A chain \in Configurations \cup {Initial} :
       IsInjective(chain) /\ Len(chain) <= Cardinality(Plugins)
  /\ Calls \in [Plugins -> SUBSET Seq({"pass", "drop"})]
  /\ Missing \cup Failing \subseteq Plugins
  /\ Capacity \in Nat \ {0} /\ MaxMessages \in Nat /\ MaxReconf \in Nat

VARIABLES
  inter,         \* startup->inter
  queue,         \* queue -> content; the Preprocessor writes the first one
  in_queue, out_queue, new_in, pc,    \* the stages
  dropped,       \* conf->dropped of the plugins
  work,          \* the message a plugin has, the calls it makes and the next one
  freed_queues,
  damaged,       \* freed queues that no longer work
  main,          \* what the main thread is doing
  wanted,        \* the configurations still to be added, by position
  at,            \* the position config_process_changes is at
  reconfs,       \* reconfigurations so far
  sent,          \* history: number of messages written by the Preprocessor
  due,           \* history: messages that are to reach the Output Manager
  delivered,     \* history: messages the Output Manager got, in order
  lost,          \* history: messages lost in damaged queues
  misled         \* history: a stage took the failure of a damaged queue for a NULL

plugin_vars  == <<dropped, work>>
stage_vars   == <<in_queue, out_queue, new_in, pc, plugin_vars>>
queue_vars   == <<queue, lost>>
free_vars    == <<freed_queues, damaged>>
history_vars == <<sent, due, delivered, misled>>
main_vars    == <<main, wanted, at, reconfs>>
vars == <<inter, queue_vars, stage_vars, free_vars, main_vars, history_vars>>

\* The queue the Preprocessor writes.
PreprocessorQueue == 1

Idle == [pc |-> "idle"]
Nobody == [i \in Places |-> NULL]

\* The chain as the first configuration left it: the i-th plugin writes queue
\* i + 1 and the next stage reads it.
Init ==
  /\ inter = Array(Initial)
  /\ queue = [q \in 1 .. Len(Initial) + 1 |-> <<>>]
  /\ in_queue = [s \in Stages |->
       IF s = OM THEN Len(Initial) + 1
       ELSE IF \E i \in DOMAIN Initial : Initial[i] = s
       THEN SelectInSeq(Initial, LAMBDA p : p = s) ELSE NULL]
  /\ out_queue = [p \in Plugins |->
       IF in_queue[p] = NULL THEN NULL ELSE in_queue[p] + 1]
  /\ new_in = [s \in Stages |-> NULL]
  /\ pc = [s \in Stages |-> IF in_queue[s] = NULL THEN "none" ELSE "read"]
  /\ dropped = [p \in Plugins |-> FALSE]
  /\ work = [p \in Plugins |-> NULL]
  /\ freed_queues = {} /\ damaged = {}
  /\ main = Idle /\ wanted = Nobody /\ at = 0 /\ reconfs = 0
  /\ sent = 0 /\ due = {} /\ delivered = <<>> /\ lost = {} /\ misled = FALSE

HasRoom(q) == Len(queue[q]) < Capacity

Write(q, m) ==
  IF q \in damaged
  THEN lost' = lost \cup {m} /\ UNCHANGED queue
  ELSE queue' = [queue EXCEPT ![q] = Append(@, m)] /\ UNCHANGED lost

RemoveHead(q) ==
  /\ queue' = [queue EXCEPT ![q] = IF q \in damaged THEN @ ELSE Tail(@)]
  /\ UNCHANGED lost

Goto(s, label) == pc' = [pc EXCEPT ![s] = label]

-----------------------------------------------------------------------------
(* The stages *)

Running(s) == pc[s] \notin {"none", "ended"}

Head1(s) == Head(queue[in_queue[s]])
CanRead(s) == pc[s] = "read" /\ queue[in_queue[s]] # <<>>

\* A message is its number, followed by the call of each plugin behind it that
\* wrote it.
Passes(m, calls) == {Append(m, k) : k \in {i \in DOMAIN calls : calls[i] = "pass"}}

\* Mutant: conf->dropped is still set from an earlier message.
Process_StaleDropped(p) ==
  /\ CanRead(p) /\ Head1(p) # NULL
  /\ \E calls \in Calls[p] :
       /\ work' = [work EXCEPT ![p] = [msg |-> Head1(p), calls |-> calls, next |-> 1]]
       /\ due' = (due \ {Head1(p)}) \cup Passes(Head1(p), calls)
  /\ Goto(p, "process")
  /\ UNCHANGED <<inter, queue_vars, in_queue, out_queue, new_in, dropped, free_vars,
                 main_vars, sent, delivered, misled>>

\* ip_loop hands the message to the plugin.
Process(p) ==
  /\ CanRead(p) /\ Head1(p) # NULL
  /\ dropped' = [dropped EXCEPT ![p] = FALSE]
  /\ \E calls \in Calls[p] :
       /\ work' = [work EXCEPT ![p] = [msg |-> Head1(p), calls |-> calls, next |-> 1]]
       /\ due' = (due \ {Head1(p)}) \cup Passes(Head1(p), calls)
  /\ Goto(p, "process")
  /\ UNCHANGED <<inter, queue_vars, in_queue, out_queue, new_in, free_vars,
                 main_vars, sent, delivered, misled>>

\* The plugin is at a call of this kind, and goes on behind it.
Calling(p, call) ==
  /\ pc[p] = "process"
  /\ work[p].next <= Len(work[p].calls) /\ work[p].calls[work[p].next] = call
  /\ work' = [work EXCEPT ![p].next = @ + 1]

\* pass_message waits for room in the output queue.
pass_message(p) ==
  /\ Calling(p, "pass")
  /\ HasRoom(out_queue[p])
  /\ Write(out_queue[p], Append(work[p].msg, work[p].next))
  /\ UNCHANGED <<inter, in_queue, out_queue, new_in, pc, dropped, free_vars,
                 main_vars, history_vars>>

\* The message leaves the input queue and is freed.
drop_message(p) ==
  /\ Calling(p, "drop")
  /\ RemoveHead(in_queue[p])
  /\ dropped' = [dropped EXCEPT ![p] = TRUE]
  /\ UNCHANGED <<inter, in_queue, out_queue, new_in, pc, free_vars,
                 main_vars, history_vars>>

\* Back in ip_loop: a message that was not dropped leaves the input queue and
\* is not freed.
Processed(p) ==
  /\ pc[p] = "process" /\ work[p].next > Len(work[p].calls)
  /\ IF dropped[p] THEN UNCHANGED queue_vars ELSE RemoveHead(in_queue[p])
  /\ work' = [work EXCEPT ![p] = NULL]
  /\ Goto(p, "read")
  /\ UNCHANGED <<inter, in_queue, out_queue, new_in, dropped, free_vars,
                 main_vars, history_vars>>

\* output_manager_plugin_thread passes the message to a Data Manager.
Deliver ==
  /\ CanRead(OM) /\ Head1(OM) # NULL
  /\ delivered' = Append(delivered, Head1(OM))
  /\ RemoveHead(in_queue[OM])
  /\ UNCHANGED <<inter, stage_vars, free_vars, main_vars, sent, due, misled>>

\* A NULL message, which is also what rbuffer_read returns when it fails: the
\* thread changes its input queue or ends.
ReadNull(s) ==
  /\ \/ CanRead(s) /\ Head1(s) = NULL /\ UNCHANGED misled
     \/ pc[s] = "read" /\ in_queue[s] \in damaged /\ misled' = TRUE
  /\ RemoveHead(in_queue[s])
  /\ Goto(s, IF new_in[s] # NULL THEN "switch" ELSE "ended")
  /\ UNCHANGED <<inter, in_queue, out_queue, new_in, plugin_vars, free_vars,
                 main_vars, sent, due, delivered>>

Switch(s) ==
  /\ pc[s] = "switch"
  /\ in_queue' = [in_queue EXCEPT ![s] = new_in[s]]
  /\ Goto(s, "switched")
  /\ UNCHANGED <<inter, queue_vars, out_queue, new_in, plugin_vars, free_vars,
                 main_vars, history_vars>>

\* The main thread may have seen the new in_queue already.
Switched(s) ==
  /\ pc[s] = "switched"
  /\ new_in' = [new_in EXCEPT ![s] = NULL]
  /\ Goto(s, "signal")
  /\ UNCHANGED <<inter, queue_vars, in_queue, out_queue, plugin_vars, free_vars,
                 main_vars, history_vars>>

\* pthread_cond_signal wakes the main thread if it waits by now.
Signal(s) ==
  /\ pc[s] = "signal"
  /\ main' = IF main.pc = "waiting" /\ main.target = s
             THEN [main EXCEPT !.pc = "check"] ELSE main
  /\ Goto(s, "read")
  /\ UNCHANGED <<inter, queue_vars, in_queue, out_queue, new_in, plugin_vars, free_vars,
                 wanted, at, reconfs, history_vars>>

Stage(s) ==
  \/ s # OM /\ (Process(s) \/ pass_message(s) \/ drop_message(s) \/ Processed(s))
  \/ s = OM /\ Deliver
  \/ ReadNull(s) \/ Switch(s) \/ Switched(s) \/ Signal(s)

\* The memory of a freed queue that a stage still reads is put to another use:
\* rbuffer_write and rbuffer_read fail from now on.
Damage(q) ==
  /\ main.pc # "end"
  /\ q \in freed_queues \ damaged /\ \E s \in Stages : Running(s) /\ in_queue[s] = q
  /\ damaged' = damaged \cup {q}
  /\ lost' = lost \cup ToSet(queue[q])
  /\ queue' = [queue EXCEPT ![q] = <<>>]
  /\ UNCHANGED <<inter, stage_vars, freed_queues, main_vars, history_vars>>

-----------------------------------------------------------------------------
(* The main thread: ip_change_in_queue and output_manager_set_in_queue *)

\* The stage behind position i in the array.
NextStage(i) == IF inter[i + 1] # NULL THEN inter[i + 1] ELSE OM

\* Hand stage s the queue q, then go on with what is in then.  The Output
\* Manager is not asked to change to the queue it reads already.
ChangeQueue(s, q, then) ==
  IF s = OM /\ in_queue[OM] = q
  THEN main' = then /\ UNCHANGED new_in
  ELSE /\ main' = [pc |-> "announce", target |-> s, then |-> then, q |-> q]
       /\ new_in' = [new_in EXCEPT ![s] = q]

\* The NULL message.
Announce ==
  /\ main.pc = "announce"
  /\ HasRoom(in_queue[main.target])
  /\ Write(in_queue[main.target], NULL)
  /\ main' = [main EXCEPT !.pc = "check"]
  /\ UNCHANGED <<inter, stage_vars, free_vars, wanted, at, reconfs, history_vars>>

\* Mutant: the main thread goes on before the stage reads the new queue.
Check_NoWait ==
  /\ main.pc = "check"
  /\ main' = main.then
  /\ UNCHANGED <<inter, queue_vars, stage_vars, free_vars, wanted, at, reconfs, history_vars>>

Check ==
  /\ main.pc = "check"
  /\ main' = IF in_queue[main.target] = main.q THEN main.then
             ELSE [main EXCEPT !.pc = "wait"]
  /\ UNCHANGED <<inter, queue_vars, stage_vars, free_vars, wanted, at, reconfs, history_vars>>

\* pthread_cond_wait; the stage that signals does not hold the mutex.
Wait ==
  /\ main.pc = "wait"
  /\ main' = [main EXCEPT !.pc = "waiting"]
  /\ UNCHANGED <<inter, queue_vars, stage_vars, free_vars, wanted, at, reconfs, history_vars>>

-----------------------------------------------------------------------------
(* The main thread: config_process_changes *)

\* preprocessor_parse_msg
Send ==
  /\ main = Idle /\ sent < MaxMessages
  /\ HasRoom(PreprocessorQueue)
  /\ Write(PreprocessorQueue, <<sent + 1>>)
  /\ sent' = sent + 1 /\ due' = due \cup {<<sent + 1>>}
  /\ UNCHANGED <<inter, stage_vars, free_vars, main_vars, delivered, misled>>

Reconfigure(chain) ==
  /\ main = Idle /\ reconfs < MaxReconf
  /\ main' = [pc |-> "compare"] /\ wanted' = Array(chain) /\ at' = 0
  /\ reconfs' = reconfs + 1
  /\ UNCHANGED <<inter, queue_vars, stage_vars, free_vars, history_vars>>

\* The plugin is wanted where it is: it stays and need not be added.
KeepPlugin ==
  /\ main.pc = "compare"
  /\ inter[at] # NULL /\ wanted[at] = inter[at]
  /\ wanted' = [wanted EXCEPT ![at] = NULL]
  /\ at' = at + 1
  /\ UNCHANGED <<inter, queue_vars, stage_vars, free_vars, main, reconfs, history_vars>>

\* config_remove_inter: the plugin leaves the array and is told to stop.
RemovePlugin ==
  /\ main.pc = "compare"
  /\ inter[at] # NULL /\ wanted[at] # inter[at]
  /\ HasRoom(in_queue[inter[at]])
  /\ Write(in_queue[inter[at]], NULL)
  /\ main' = [pc |-> "join", plugin |-> inter[at]]
  /\ inter' = [inter EXCEPT ![at] = NULL]
  /\ UNCHANGED <<stage_vars, free_vars, wanted, at, reconfs, history_vars>>

\* The thread ended and its output queue is empty: the next stage gets its
\* input queue.
Bypass ==
  /\ main.pc = "join"
  /\ pc[main.plugin] = "ended"
  /\ queue[out_queue[main.plugin]] = <<>>
  /\ ChangeQueue(NextStage(at), in_queue[main.plugin],
                 [pc |-> "free", plugin |-> main.plugin])
  /\ UNCHANGED <<inter, queue_vars, in_queue, out_queue, pc, plugin_vars, free_vars, wanted, at,
                 reconfs, history_vars>>

\* The output queue is freed, then the plugin with its input queue, which the
\* next stage reads by now.
FreePlugin ==
  /\ main.pc = "free"
  /\ freed_queues' = freed_queues \cup {out_queue[main.plugin], in_queue[main.plugin]}
  /\ pc' = [pc EXCEPT ![main.plugin] = "none"]
  /\ in_queue' = [in_queue EXCEPT ![main.plugin] = NULL]
  /\ out_queue' = [out_queue EXCEPT ![main.plugin] = NULL]
  /\ main' = [pc |-> "compare"] /\ at' = at + 1
  /\ dropped' = [dropped EXCEPT ![main.plugin] = FALSE]
  /\ UNCHANGED <<inter, queue_vars, new_in, work, damaged, wanted, reconfs, history_vars>>

\* The end of the old plugins was reached (counted before the loop, so a
\* place emptied by the loop is not the end).
CompareDone ==
  /\ main.pc = "compare" /\ inter[at] = NULL
  /\ main' = [pc |-> "add"] /\ at' = 0
  /\ UNCHANGED <<inter, queue_vars, stage_vars, free_vars, wanted, reconfs, history_vars>>

\* The queue of the nearest plugin before position i.
InputAt(i) ==
  LET before == {j \in 0 .. i - 1 : inter[j] # NULL}
  IN  IF before = {} THEN PreprocessorQueue
      ELSE out_queue[inter[CHOOSE j \in before : \A k \in before : k <= j]]

\* config_add_inter: the plugin cannot be loaded and the reconfiguration
\* ends, with what was removed gone.
LoadFails ==
  /\ main.pc = "add" /\ at + 1 \in Places /\ wanted[at] \in Missing
  /\ main' = Idle /\ wanted' = Nobody
  /\ UNCHANGED <<inter, queue_vars, stage_vars, free_vars, at, reconfs, history_vars>>

\* config_add_inter: a new output queue, handed to the next stage.
AddPlugin ==
  /\ main.pc = "add" /\ at + 1 \in Places /\ wanted[at] \in Plugins \ Missing
  /\ LET p == wanted[at]  new == Len(queue) + 1
     IN  /\ queue' = Append(queue, <<>>) /\ UNCHANGED lost
         /\ in_queue' = [in_queue EXCEPT ![p] = InputAt(at)]
         /\ out_queue' = [out_queue EXCEPT ![p] = new]
         /\ ChangeQueue(NextStage(at), new,
              [pc |-> "start", plugin |-> p, backup |-> in_queue[NextStage(at)]])
  /\ UNCHANGED <<inter, pc, plugin_vars, free_vars, wanted, at, reconfs, history_vars>>

\* ip_init starts the thread.
StartPlugin ==
  /\ main.pc = "start" /\ main.plugin \notin Failing
  /\ Goto(main.plugin, "read")
  /\ inter' = [inter EXCEPT ![at] = main.plugin]
  /\ wanted' = [wanted EXCEPT ![at] = NULL]
  /\ main' = [pc |-> "add"] /\ at' = at + 1
  /\ UNCHANGED <<queue_vars, in_queue, out_queue, new_in, plugin_vars, free_vars, reconfs,
                 history_vars>>

\* Mutant: the next stage keeps the queue of the plugin that did not start.
RestoreQueues_NotRestored ==
  /\ main.pc = "start" /\ main.plugin \in Failing
  /\ in_queue' = [in_queue EXCEPT ![main.plugin] = NULL]
  /\ out_queue' = [out_queue EXCEPT ![main.plugin] = NULL]
  /\ main' = Idle /\ wanted' = Nobody
  /\ UNCHANGED <<inter, queue_vars, new_in, pc, plugin_vars, free_vars, at, reconfs, history_vars>>

\* ip_init failed: the next stage gets its queue back and the
\* reconfiguration ends.
RestoreQueues ==
  /\ main.pc = "start" /\ main.plugin \in Failing
  /\ in_queue' = [in_queue EXCEPT ![main.plugin] = NULL]
  /\ out_queue' = [out_queue EXCEPT ![main.plugin] = NULL]
  /\ ChangeQueue(NextStage(at), main.backup, Idle)
  /\ wanted' = Nobody
  /\ UNCHANGED <<inter, queue_vars, pc, plugin_vars, free_vars, at, reconfs, history_vars>>

\* Nothing to add at this position.
SkipPlace ==
  /\ main.pc = "add" /\ at + 1 \in Places /\ wanted[at] = NULL
  /\ at' = at + 1
  /\ UNCHANGED <<inter, queue_vars, stage_vars, free_vars, main, wanted, reconfs, history_vars>>

\* The queue behind the last plugin before the first empty place.
OutputQueue ==
  LET end == CHOOSE i \in Places : inter[i] = NULL /\ \A j \in 0 .. i - 1 : inter[j] # NULL
  IN  IF end = 0 THEN PreprocessorQueue ELSE out_queue[inter[end - 1]]

\* All were added: config_reconf hands the Output Manager the last queue.
AddDone ==
  /\ main.pc = "add" /\ at + 1 \notin Places
  /\ ChangeQueue(OM, OutputQueue, Idle)
  /\ UNCHANGED <<inter, queue_vars, in_queue, out_queue, pc, plugin_vars, free_vars, wanted,
                 at, reconfs, history_vars>>

-----------------------------------------------------------------------------
(* The main thread: the end of the collector *)

Terminate ==
  /\ main = Idle
  /\ main' = [pc |-> "flush"] /\ at' = 0
  /\ UNCHANGED <<inter, queue_vars, stage_vars, free_vars, wanted, reconfs, history_vars>>

\* Mutant: ip_stop without its NULL message.
StopPlugin_NoMessage ==
  /\ main.pc = "flush" /\ inter[at] # NULL
  /\ main' = [pc |-> "flushing"]
  /\ UNCHANGED <<inter, queue_vars, stage_vars, free_vars, wanted, at, reconfs, history_vars>>

\* config_stop_inter stops the plugins in order, up to the first empty place ...
StopPlugin ==
  /\ main.pc = "flush" /\ inter[at] # NULL
  /\ HasRoom(in_queue[inter[at]])
  /\ Write(in_queue[inter[at]], NULL)
  /\ main' = [pc |-> "flushing"]
  /\ UNCHANGED <<inter, stage_vars, free_vars, wanted, at, reconfs, history_vars>>

\* Mutant: ip_stop without pthread_join.
PluginStopped_NoJoin ==
  /\ main.pc = "flushing"
  /\ main' = [pc |-> "flush"] /\ at' = at + 1
  /\ UNCHANGED <<inter, queue_vars, stage_vars, free_vars, wanted, reconfs, history_vars>>

PluginStopped ==
  /\ main.pc = "flushing" /\ pc[inter[at]] = "ended"
  /\ main' = [pc |-> "flush"] /\ at' = at + 1
  /\ UNCHANGED <<inter, queue_vars, stage_vars, free_vars, wanted, reconfs, history_vars>>

\* ... then output_manager_close stops the Output Manager.
StopOutputManager ==
  /\ main.pc = "flush" /\ inter[at] = NULL
  /\ HasRoom(in_queue[OM])
  /\ Write(in_queue[OM], NULL)
  /\ main' = [pc |-> "closing"]
  /\ UNCHANGED <<inter, stage_vars, free_vars, wanted, at, reconfs, history_vars>>

Terminated ==
  /\ main.pc = "closing" /\ pc[OM] = "ended"
  /\ freed_queues' = freed_queues \cup {in_queue[OM]}
  /\ main' = [pc |-> "end"]
  /\ UNCHANGED <<inter, queue_vars, stage_vars, damaged, wanted, at, reconfs, history_vars>>

Main ==
  \/ Announce \/ Check \/ Wait
  \/ KeepPlugin \/ RemovePlugin \/ Bypass \/ FreePlugin \/ CompareDone
  \/ LoadFails \/ AddPlugin \/ StartPlugin \/ RestoreQueues \/ SkipPlace \/ AddDone
  \/ StopPlugin \/ PluginStopped \/ StopOutputManager \/ Terminated

Next ==
  \/ Send \/ Terminate \/ (\E chain \in Configurations : Reconfigure(chain))
  \/ Main
  \/ \E s \in Stages : Stage(s)
  \/ \E q \in DOMAIN queue : Damage(q)

Spec == Init /\ [][Next]_vars

\* Every thread runs; the plugins neither pass nor drop only if they hang.
FairSpec ==
  /\ Spec
  /\ WF_vars(Main)
  /\ \A s \in Stages : WF_vars(Stage(s))

-----------------------------------------------------------------------------
Queues == DOMAIN queue

TypeOK ==
  /\ inter \in [Places -> Plugins \cup {NULL}]
  /\ \A q \in Queues : \A m \in ToSet(queue[q]) : m = NULL \/ Head(m) \in 1 .. MaxMessages
  /\ \A q \in Queues : Len(queue[q]) <= Capacity
  /\ \A s \in Stages : in_queue[s] \in Queues \cup {NULL} /\ new_in[s] \in Queues \cup {NULL}
  /\ \A p \in Plugins : out_queue[p] \in Queues \cup {NULL}
  /\ pc \in [Stages -> {"none", "read", "process", "switch", "switched", "signal", "ended"}]
  /\ \A p \in Plugins : pc[p] = "process" <=> work[p] # NULL
  /\ dropped \in [Plugins -> BOOLEAN]
  /\ at \in Places
  /\ damaged \subseteq freed_queues /\ freed_queues \subseteq Queues

\* Message m was sent before n: its number is lower, or an earlier call of the
\* same plugin wrote it.
Before(m, n) ==
  \E k \in DOMAIN m \cap DOMAIN n : m[k] < n[k] /\ \A j \in 1 .. k - 1 : m[j] = n[j]

\* The Output Manager gets the messages in the order in which the Preprocessor
\* and the plugins wrote them, each at most once and none that a plugin
\* dropped, whatever plugins come and go meanwhile.
DeliveredInOrder ==
  /\ \A i, j \in DOMAIN delivered : i < j => Before(delivered[i], delivered[j])
  /\ ToSet(delivered) \subseteq due

\* Messages that a plugin is about to pass on.
InHand(p) ==
  IF pc[p] = "process"
  THEN {Append(work[p].msg, k) : k \in work[p].next .. Len(work[p].calls)} ELSE {}

\* No message disappears, apart from those that are in a queue that was freed in
\* use: between reconfigurations, a message the Preprocessor sent or a plugin
\* passed on was delivered, a running plugin is about to write it, or it is in
\* a queue that a running stage reads.  This is so until a stage takes the
\* failure of such a queue for the NULL message that ends it.
NothingLost ==
  main = Idle /\ ~misled =>
    \A m \in due \ lost :
      \/ m \in ToSet(delivered)
      \/ \E p \in Plugins : m \in InHand(p)
      \/ \E s \in Stages : Running(s) /\ m \in ToSet(queue[in_queue[s]])

\* A queue has one reading thread, as the one reference pass_message and the
\* Preprocessor write with a message says, also while the chain changes.
SingleReader ==
  \A s, t \in Stages : s # t /\ Running(s) /\ Running(t) => in_queue[s] # in_queue[t]

\* No running stage reads a queue that was freed.
QueuesAlive ==
  main.pc # "end" => \A s \in Stages : Running(s) => in_queue[s] \notin freed_queues

\* When the collector has ended, every message that was not dropped was
\* delivered or was in a queue that was freed in use, with the same condition.
FlushedAtEnd ==
  main.pc = "end" /\ ~misled => due \subseteq ToSet(delivered) \cup lost

\* A reconfiguration ends: the stage that got a new queue wakes the main thread,
\* unless a queue that was freed in use stops working.
ReconfigurationEnds == (main.pc = "compare") ~> (main = Idle \/ damaged # {})

\* The collector ends when it is told to, unless a queue that was freed in use
\* stops working.
TerminationEnds == (main.pc = "flush") ~> (main.pc = "end" \/ damaged # {})

=============================================================================
