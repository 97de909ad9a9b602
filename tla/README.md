# A TLA+ model of the core of IPFIXcol

IPFIXcol (`src/base`) receives IPFIX messages from exporters, runs them through a
chain of plugins and stores them. This directory holds TLA+ modules for the parts
of the collector that carry its concurrency and its memory management, for the
forwarding storage plugin, which sends the data on to other collectors, and for
fbitexpire, the daemon that deletes old data; TLC configurations that check them on
small instances; and TLAPS proofs about the ring buffer that everything else in the
collector is connected by, the Data Manager, the Template Manager, the sequence
numbers, and the template mapper, the packet builder and the destinations of the forwarding storage.

`PROJECT.json` lists components, runs, the source lines of every definition
(`map`), the mutants each property was tested against, findings, hazards and
theorems.

    tlc -workers 2 -config RingBufferShared.cfg RingBuffer     # one run
    tlapm RingBufferProofs.tla                                   # the proofs

## 1. The system

```
 exporters
    |                     main thread                         one thread per plugin
 [input plugin] --> receive loop --> [Preprocessor] =queue=> [inter. plugin] =queue=> ...
                        |                  |                                           |
                  between messages:        | registers sources,                      queue
                  [Configurator]           | adds / updates / withdraws                |
                        |                  v                                           v
                        |          [Template Manager] <--- unregisters, removes --- [Output Manager]
                        |                  ^                                      one thread
                        | adds and         | references                               |
                        | removes plugins  | dropped                     one per observation domain
                        +-----------------------------------------------> [Data Manager]
                                           |                                          |
                                           |                                    store queue
                                           |                                          |
                                           +--------------------- [storage plugin], one thread each
```

* The **main thread** (`ipfixcol.c`) gets a message from the input plugin, lets the
  Preprocessor work on it and write it to the first queue. Between two messages it
  runs the Configurator when a reconfiguration was asked for, and it stops
  everything at the end.
* Each **intermediate plugin** reads one queue and passes or drops each message
  (`intermediate_process.c`); the **Output Manager** thread reads the last queue,
  keeps one **Data Manager** per observation domain (or one for all) and writes to
  its store queue, which all its **storage plugins** read, each in a thread.
* The **Template Manager** is called from the main thread, from the Output Manager's
  thread and, for dropping references, from whoever frees a message.

All queues are the same ring buffer (`queues.c`). Threads share memory; what is
locked and what is not is part of every module below.

The **forwarding storage** (`storage/forwarding`) is a storage plugin with a thread
of its own, the connector. A message goes through the **template mapper**, which
gives the templates of all exporters of a domain common IDs, then to the **packet
builder**, which cuts it into packets, and then to the **destinations**, all of them
or one in turn.

**fbitexpire** (`tools/fbitexpire`) is a process of its own beside the collector.
Its Watcher hears of new directories from inotify, its Scanner keeps a tree of
sizes and ages and chooses what to delete, its Cleaner deletes, and a PipeListener
takes commands.

### Inventory

| Component | State | Operations | What is hard | What makes it correct |
|---|---|---|---|---|
| Ring buffer | slots with a pointer and a reference count, two offsets, a count, a mutex, two condition variables | write, read, remove a reference, wait until empty | two kinds of waiters on one condition variable; decrement and read outside the mutex; wrap-around | every reader gets every message once, in order; freed once and only after the last reader; calls return |
| Data Manager | array and number of plugins, store queue, per-plugin thread | create, add, remove, write, close | changed by the main thread while the Output Manager writes and closes; switching on and off by messages in the data queue | every plugin stores what is due to it, in order, never freed memory; references balance; nothing is left at close |
| Template Manager | list of records per source, arrays of templates with older versions, reference counts, registrations | register, unregister, add, update, withdraw, look up, count references, remove all | records used by two threads, partly without the lock; old versions needed by queued messages; short disconnections | data is decoded by the template it was described by; it lives as long as the message; nothing leaks |
| Intermediate processes, Configurator | array of plugins, their queues, flags and condition variables | pass, drop, change the input queue; compare, remove, add, stop | the chain is rebuilt while messages are in it; failures half way | one complete chain, one reader per queue, nothing lost, duplicated or reordered; the end is reached with empty queues |
| Output Manager | list of Data Managers, array of storage plugins, statistics | route, create and close managers, add and remove plugins, change mode | list shared by two or three threads; references to managers of closed sources | its part in the modules above; the lists are not modelled |
| Preprocessor | sources and domains with sequence numbers | process NEW, OPENED, CLOSED, templates, data | arithmetic modulo 2^32; several channels numbered as one; loss, reordering, restarts | a domain's number follows its channels and counts its records; no false errors |
| Configurator: the rest | configuration, manager mode, profiles ring | start-up, reconfiguration | values not remembered, freed after a fixed number of reconfigurations | not modelled |
| IPFIX message | pointers into a packet | cut into sets, count, copy, free | lengths and boundaries | not modelled |
| Input plugins (TCP, UDP, SCTP) | lists of sources and sockets | listen, receive, close | a second thread accepts connections | the structures of sources as far as numbers go |
| Template mapper | templates of a domain with reference counts, maps of each exporter | add, redefine, withdraw, collect what to withdraw and what to resend | counters that decide about withdrawals; IDs that collide; messages that fail half way | receivers decode data as the exporter meant it; each has exactly the templates in use |
| Packet builder | array of parts, packets as ranges of it | start, add, end, ask for a packet | packets share parts and overwrite each other's | every packet whole, intact and within the limit, however often it is asked for |
| Destinations and senders | three groups, a flag, whose turn it is, unsent data | connect, move, send to all or in turn, resend templates, close | a connector thread, partial sends, arrays walked while they shrink | no destination lost, no broken packet, no data before its template |
| fbitexpire | tree of directories, queues between threads, watches | watch, add, remove, rescan, new limits, stop | directories change under it; flags without locks; everything is rebuilt at a start | what is being written stays; the oldest goes; the size it acts on is true |
| The others | see `components` in PROJECT.json | | | not modelled, with the reason |

## 2. Modules

| Module | Models | Notes |
|---|---|---|
| `Queues` | the ring buffer as a value: fields and the sequential pieces of `queues.c` | shared by `RingBuffer` and `DataManager` |
| `RingBuffer` | the same with its mutex, both condition variables and the threads in the calls | one step per critical section and per access outside it |
| `BroadcastQueue` | abstract specification: bounded queue, every message to every reader | refined by `RingBuffer` |
| `RingBufferProofs` | inductive invariant and theorems | |
| `DataManager`, `DataManagerProofs` | `data_manager.c`, and the lines of `output_manager.c` that call it | uses `Queues` |
| `TemplateManager` | `template_manager.c` composed with the Preprocessor's and the Output Manager's use of it, the queues between them and the exporters | |
| `TemplateManagerProofs`, `TemplateLifetimeProofs` | proofs in layers: records and arrays; sessions, registrations, owners, references and versions | the second extends the first |
| `Pipeline` | `intermediate_process.c`, the parts of `configurator.c` about intermediate plugins, the main loop's order, the Output Manager as last reader | queues as bounded sequences |
| `SequenceNumbers`, `SequenceNumbersProofs` | the numbering in `preprocessor.c`, with sources as `tcp_input.c` and `udp_input.c` make and close them, exporters and network | |
| `TemplateMapper`, `TemplateMapperProofs` | `template_mapper.c` as `forwarding.c` uses it, and what a receiver learns | one message set per step |
| `PacketBuilder`, `PacketBuilderProofs` | `packet.c` | lengths in units, no threads |
| `Forwarding`, `ForwardingProofs` | `destination.c`, `sender.c` and the order of calls in `forwarding.c`, with the connector thread and sockets that fail | templates only grow, packets as made by `PacketBuilder` |
| `Expiration` | the threads of `tools/fbitexpire`, with the writers of data and inotify | |
| `MC*` | instances for TLC: model values and small sets | |

Operators named `X_Something` before `X` are faulty variants of `X` (a dropped
guard, a missing reset); no specification uses them, they show that the properties
notice such faults.

### RingBuffer

`queue` is the structure (`data`, `data_references`, `count`, `read_offset`,
`write_offset`). A thread's program counter names the place in the call:
`CallWrite`, `WaitForRoom`, `Write` are `rbuffer_write`; `ChooseIndex`,
`WaitForData`, `SeeData`, `WakeReader`, `Fetch` are `rbuffer_read`;
`DropReference`, `KeepOldest`, `ReleaseOldest`, `NotifyRoom` are
`rbuffer_remove_reference`; `CallWaitEmpty`, `WaitForEmpty`, `ReturnWaitEmpty` are
`rbuffer_wait_empty`; `Advance` is the caller's index. A critical section is one
step: nothing outside it reads what it changes except the places that are steps of
their own (the fetch of `read_offset`, the load of the data pointer, the atomic
decrement). `cond` and `cond_empty` are the sets of threads blocked; `Signal`
wakes any one of them, and `SpuriousWakeup` may wake one at any time. `ByOffset`
are the readers that pass index -1 and so read at `read_offset`, as the stages of
the pipeline do; that is correct only with one reader (`ByOffsetAssumption`).
`written`, `taken`, `released`, `freed` are history: messages are numbered by the
order of writing.

### DataManager

The plugin array, its count, `oid_specific`, and the structures the array points
to (which may be freed) are state of their own, because the code confuses them.
The Output Manager's thread creates the manager (`AddPlugin`/`AddNothing`,
`CountPlugin`, `WriteStart`, `CreateNext`, `Created`; the thread of a plugin may run
before the plugin is counted), writes data in two steps (it reads `plugins_count`,
then waits in `rbuffer_write`, which refuses a count of 0, so that the message is
skipped) and closes (`Close`, one `WriteNull`, `CloseReturns` joins and frees). The main thread adds (`AddLater`)
and removes (`RemovePlugin`, `WriteStop`, `Join`). Storage threads run `Begin`,
`SeeMessage`, the four `Load...`, `Store`, `Drop`, `ReleaseOldest`, `NextMessage`,
`Exit`. Waiting for room or data is a guard; the wake-ups behind it are
RingBuffer's subject. The main thread's actions require the manager to be open:
using a manager after the Output Manager freed it belongs to the Output Manager's
list, which is not modelled (section 5).

### TemplateManager

A record is keyed by source; a slot of its array is a sequence of versions, the
newest first. Records go to the end of the list and leave it without changing the
order of the others, so the list is `Linked`, the records that are not freed, in the
order of allocation; only a freed record, over which an unlocked walk may still go,
has a next pointer of its own (`NextOf`). The Preprocessor's lookup is a walk of one step per record
(`Walk`, `WalkEnds`) because it does not take the lock; registration is two steps
(`Register`, `CountRegistration`) because the lock is given back in between.
Data gets the pointer of the current version (`GetTemplate`, `CoupleData`) and
travels through `pipe` and the store queue of its Data Manager until
`TestReferences` and `ReleaseMessage`, which are the test and the decrement of
`tm_template_reference_dec`. `SourceClosed` unregisters and drops the manager's reference;
`RemoveManager` waits for the store queue to drain, as `data_manager_close` does by
joining the plugins, and then removes the templates of all sources that are not
registered. Template contents are told apart by `Versions`, which is all that
`tm_compare_templates` says about them. `Init` and `ReceiveNew` follow the order the input
plugins produce: NEW comes with the first packet, CLOSED last.

Nothing keeps the Output Manager from removing a record between the two critical
sections of a registration, which then fails, with no more than a warning, and nothing
keeps a withdrawal from freeing a template in use. Both are steps of `Spec`. Two
history variables record them, `refused` (the sources that had a registration fail) and
`withdrawn` (the templates freed by a withdrawal), and the properties say exactly what
they cost: `SourceTemplatesKept` and `DecodedAsDescribed` are about the sources that are
not in `refused`, whatever happens to the others; in `MessageTemplateAlive` a freed
template has one of the two reasons; `NothingLeaks` lets only records of `refused`
sources keep a template; `ReferencesCounted` and `LookupFindsAll` have no exception.
`TemplateManagerReconnect.cfg` and `TemplateManagerWithdrawal.cfg` show the two costs.

### Pipeline

`inter` is the array of `startup`, `at` the place a loop of the Configurator has
reached, `main` where the main thread is. `ChangeQueue`, `Announce`, `Check`,
`Wait` are `ip_change_in_queue` and its counterpart in the Output Manager: the
stage switches (`Switch`, `Switched`) and signals (`Signal`) without the mutex, so the test and
the wait of the main thread are separate steps. `KeepPlugin`, `RemovePlugin`,
`Bypass`, `FreePlugin`, `CompareDone` compare and remove; `LoadFails`, `AddPlugin`,
`StartPlugin`, `RestoreQueues`, `SkipPlace`, `AddDone` add, with both ways to fail;
`Terminate`, `StopPlugin`, `PluginStopped`, `StopOutputManager`, `Terminated` are
the end. Plugins in a chain are distinct.

With each message it gets (`Process`) a plugin makes a sequence of calls, one of
`Calls`: it passes the message on, drops it, drops it and passes one of its own, passes
one and then drops the original, or passes two. `pass_message` and `drop_message` are
steps, `dropped` is the flag `conf->dropped` by which `ip_loop` knows at the end
(`Processed`) whether the slot is still to be given up. Messages are told apart by their
number and the calls they come from, which gives the order they have to arrive in
(`Before`); `due` are the ones that have to arrive.

`FreePlugin` frees the input queue of the plugin taken out, which is the queue that the
next stage was just given (`configurator.c:281`). What the use of a freed queue does is
undefined. In the model it goes on working until, at any point, it may be `damaged`
(`Damage`): its messages are lost, writes to it are lost, and reading from it may return
NULL, which a stage takes for its end (`misled`). `NothingLost` and `FlushedAtEnd` say
that this is the only way for messages to be lost (`lost`), and nothing about the
behaviours in which a stage was misled; `SingleReader` and `DeliveredInOrder` hold in all.

A queue is a bounded sequence here. Two results justify that: the theorem
`Refinement` (a ring buffer is a bounded broadcast queue, with one reader a plain
queue) and the invariant `SingleReader` (a queue has one reader, also during a
change; `pipeline_reconf`).

### SequenceNumbers

A channel is one domain in one transport session. `Send` is the exporter, which
numbers data records; `Lose` and `Arrives` are the network, which reorders and
duplicates only over UDP. `Receive` is the input plugin creating its structure for
the first packet (`create_input_info`) and `preprocessor_parse_msg` comparing the
number, correcting the domain's by the difference and counting the records whose
template is known; `Close` is the CLOSED message and, in the input plugin, the end
of the structure. `Info` says which channels share an `input_info`.

### TemplateMapper

`maintainers[o]` is the `fwd_odid_t` of domain o (templates with their reference
counts, `to_remove`, and the two counters by type), `sources[s]` the map from an
exporter's IDs to the domain's. A message is `StartMessage`, any number of
`RepeatTemplate`, `ShareTemplate`, `NewTemplate`, `RefuseTemplate` (no ID is left),
`WithdrawTemplate`, `WithdrawAll`, `DataSet`, and one of `EndWithTemplates` (with
the withdrawals of both types), `EndWithoutTemplates`, `EndFails`. `known` is what a
receiver has learnt that got everything that was sent; `decoded` collects how it
reads the data.

### PacketBuilder

`rec_flds` are the vectors for sendmsg, here with the place each points to, so that
overwriting shows. `bldr_add_dataset`, `bldr_add_template`,
`bldr_add_template_withdrawal` add parts; `bldr_end`, `NextSet`, `NextPacket`,
`LastPacket` are the loop of `parts_packets_prepare`; `bldr_pkts_iovec` asks for a
packet, any one and any number of times, as the walks over destinations do. What is
added came in a message: a data set is at most as long as fits into one, a template
(`TemplateBodies`) as fits into one in a Set of its own.

### Forwarding

`conn`, `disconn`, `ready` are the groups. The plugin's thread runs `StoreMessage`,
`NoneReconnected` / `ReconnectedWithoutTemplates` / `PrepareTemplates`,
`ResendTemplates`, `ResendDone`, then `NextPacket`, `NextDone`, `NextGivesUp` (in
turn) and `OthersSkip`, `OthersPacket`, `OthersDone`, `OthersEnd` (to all, or the
templates to those whose turn it is not), and `storage_close`. `Connector` is the
other thread. `sender_send_parts` and `sender_send_buffer` have every outcome of
sendmsg: all, a part, nothing for now, an error. `stream` is what went out on the
present connection.

### Expiration

A directory is named by its path, a sequence of numbers. `Rotate`, `Mkdir` and `Write`
are the writer, `Tick` is the clock, which counts whole seconds as `st_mtime` does. `GetEvent`, `addDir`, `watch` are the Watcher on one event; between them
the other threads run. `Top`, `removeDirs`, `Wait`, `Block`, `addNewDirs`,
`rescanDirs` are the Scanner's loop, one round of each inner loop at a time;
`RemovePath`, `CleanerBlock` the Cleaner. `Wait` and `Block` are two steps because
the mutex given to `wait()` is local to the sleeper, so nothing keeps a notification
from falling between the test and the sleep. `setMaxSize`, `setWatermark`, `rescan`,
`stopAll` are commands. `stopAll` ends the process: `Watcher::stop` restores the
default action of SIGINT and sends that signal to its thread. `Start` builds the
tree from what is then on the disk. Directories of equal age, which
`std::sort` leaves in any order, are taken in every order (`Orders`).

Counting a directory (`countSize`, `rescan`, and at the start the directories at the
maximal depth) writes the size into a file `stats.txt` in it (`Note`): a later count
takes the size from there, and making the file changes the time of the directory,
which is its age at the next start. A start takes the newest directory for the one
being written. The history variable `unclear` records that at some start another
directory was as new; `WrittenDirsKept` and `DiskAccounted` are about the behaviours in
which that has not happened, and `ExpirationRestart.cfg` shows what follows when it has.

## 3. Runs

Passing:

| Run | Instance | States | Shows |
|---|---|---|---|
| `rbuffer_shared` | 3 slots, 2 readers, 2 writers, 5 messages | 50 689 | safety and refinement of the shared store queue |
| `dm_change` | 4 slots, plugins a and b, b removed at any point, c for another domain, 4 data messages | 134 099 | no use after free, balanced references, clean close |
| `dm_add` | 9 slots (no wrap-around), a running, b and c added, c fails to initialise, 2 data messages, fair | 88 754 | an added plugin stores from its START on, in order; everything is stored; close returns |
| `tm_sources` | 2 sources of one manager, 2 versions, withdrawals, 3 connections each, 4 packets | 1 832 629 | lifetime and choice of templates, connections, leaks |
| `tm_holes` | 1 source, 3 template IDs, withdrawals, array of one slot at first, 6 packets | 1 457 071 | lookup over growing arrays with holes |
| `pipeline_reconf` | chain a b, two changes, each to b a or to one of the two and a plugin that fails to load or to start, stop at any point, 2 messages and what the plugins make of them, queues of 2, freed queues that may fail, fair | 1 225 199 | one reader per queue, nothing reordered, nothing lost but in a queue freed in use, flushed at the end, the end is reached |
| `sequence_numbers` | a TCP and a UDP channel of one domain, numbers modulo 3, up to 2 messages of up to 2 records each | 97 290 | the domain's number |
| `mapper_shared` | 2 exporters of one domain, 2 private and 3 common IDs, 3 templates and an options template, 3 messages of up to 3 records | 131 503 | shared templates |
| `packet_builder` | up to 6 parts of a message, bodies of 1, 5 and 6 units (the longest a data set of a message of 11 can have), limits of 7 and 10 | 1 138 142 | cutting and repeated use of packets |
| `forwarding_all` | 2 TCP destinations and a UDP one, both distributions, 1 template, 2 messages, 3 connections, fair | 898 932 | groups, senders, templates, numbers |
| `expiration` | 1 writer, up to 4 directories of size 1 or 2, 2 commands, stop and restart | 6 733 190 | what is deleted, and the size it is decided by |

Why these bounds are enough for the questions asked: with 3 or 4 slots and more
messages than slots, every queue fills, blocks its writer and wraps around; two readers are
what it takes for one to release what the other still needs; two sources, two
versions, a withdrawal and three connections let an update, a close and two reconnections overlap
with queued data, and a registration fail; a record that starts with one slot grows twice for three templates
(the code starts with 32 and doubles the same way); two plugins and two changes
reach removing and adding in front of, behind and in place of a
running plugin. Numbers modulo 3 wrap within two messages. Three common IDs run out
with four templates, two exporters can both collide and share, and a message of
three records can withdraw, redefine and use a template. Six parts make
three packets of small sets, so that a packet has a neighbour on each side, and the
longer bodies exceed the smaller limit by themselves. With three destinations one can fail, one
be due for templates and one go on, in each position of the array that is walked.
Four directories are enough to delete one, be restarted, and delete again. The ring
buffer, the Data Manager (up to two plugins that stay), the Template Manager, the sequence numbers and the three parts of the
forwarding storage have no such bounds in the proofs.

Two more configurations hold and are kept beside the runs. `RingBufferSingle.cfg` (2 278
states) has one writer and one reader at the read offset, as between two stages of the
pipeline: under fair threads every call of `rbuffer_write` and `rbuffer_wait_empty`
returns and every message is consumed. `PipelineStop.cfg` (195 853 states) changes the
chain once, to any order and choice of the two plugins and the two that fail.
In `dm_change` and `dm_add` the number of plugins is never 0; `DataManagerChange.cfg` with
`Initial <- StartA` and `Removed = {a}` holds too and reaches the writes that are refused.

### Where the code disagrees with what it says

One run is one that TLC must find violated: in `rbuffer_lost_wakeup` (`WriteCompletes`)
`pthread_cond_signal` after making room wakes the other waiting reader, and the writer
sleeps for ever (`queues.c:313`). It needs two readers, so the store queue is exposed and
the pipeline's queues are not (`RingBufferSingle.cfg`).

The passing runs are arranged around this and the following behaviours, found the
same way and each reproduced by the configuration named (all are violations, with
counterexamples of 3 to 56 states; `tlc -continue` where a configuration has several
properties):

| Configuration | Property | What happens |
|---|---|---|
| `DataManagerRemoveFirst` | `RunningPluginsListed` | Removing the first of two plugins leaves a hole and a count of one: the second is out of reach of `data_manager_close`, commented "close all storage plugins" (`data_manager.c:261`, `:276`), which then frees the queue it reads. |
| `DataManagerSharedFree` | `StartingMessageOwned` | `rbuffer_remove_reference` applies the caller's `do_free` to all slots it releases, so a START that its plugin keeps is freed with another plugin's data (`data_manager.c:131`). |
| `DataManagerAddRunning` | `QueueDrains` | Data written between `plugins_count++` and the START counts a plugin that passes it by; the slot is never released (`data_manager.c:228`). |
| `DataManagerAddRunning` | `ReferenceHeld` | The number of references is read before waiting for room; a plugin added meanwhile reads the message uncounted (`output_manager.c:433`). |
| `DataManagerStaleStop` | `ReferenceHeld` | A plugin added after a removal begins at the old STOP and drops a reference it does not have; the counter wraps (`queues.c:248`). |
| `DataManagerFullQueue` | `WaitsOnlyWithoutData` | A thread still at another plugin's START, already released, takes the full queue for an empty one (`queues.c:199`). Two plugins suffice (`Initial <- StartAB`, `QueueSize = 3`). |
| `DataManagerFullQueue` | `StoresInOrder` | With three plugins, two STARTs can be released ahead of a thread that is still at the first of them; when it goes on, to the second, that slot has been written again, one lap later: the plugin stores a later message before the earlier ones (`data_manager.c:143`). |
| `DataManagerFullQueue` | `NothingLeftAtClose` | In the same way the thread can meet the NULL of `data_manager_close` there, and end without having stored what is in the queue (`data_manager.c:110`). |
| `DataManagerFailedInit` | `NoFreedStructure` | A failed plugin's freed structure stays in the array and the next plugin is copied into it (`data_manager.c:192`). |
| `TemplateManagerReconnect` | `ReconnectedTemplatesKept` | A registration that meets the removal of its record fails, and the source's templates go with the next Data Manager that is closed, although the registration "protects ODID templates in case of short disconnection" (`template_manager.c:304`, `templates.h:178`). |
| `TemplateManagerWithdrawal` | `UsedTemplatesNotWithdrawn` | A withdrawal frees a template that queued messages point to; the check its comment refers to, "checked in data_manager_withdraw_templates()" (`preprocessor.c:307`), does not exist (`template_manager.c:459`). |
| `TemplateManagerReconnect`, with this property | `WalksLiveRecords` | The Preprocessor walks the list unlocked over a record being freed (`template_manager.c:92`). |
| `PipelineSwap` | `QueuesAlive` | Removing a plugin frees the queue that was just handed to the next stage (`configurator.c:281`). |
| `PipelineHole` | `FlushedAtEnd` | A plugin that could not be added in front of one that stays leaves an empty place at which the final loop, "Stop all intermediate plugins and flush buffers" (`configurator.c:1271`), stops (`configurator.c:1279`). |
| `PipelineLostWakeup` | `ReconfigurationEnds` | The stage switches and signals between the main thread's test and its wait, and the collector stops receiving (`intermediate_process.c:83`). |
| `PipelineSwap`, with this property | `SingleReader` | When two plugins in front of one that stays are exchanged, the first one added starts on a queue that still has a reader (`configurator.c:474`). |
| `SequenceNumbersAssociation` | `RecordsNumbered` | Over SCTP, and from a file, one `input_info` serves all domains of the session, so that their numbers are compared with each other's (`preprocessor.c:602`). |
| `TemplateMapperEmptyDomain` | `ReceiverHasTemplatesOfAll` | The call for one type removes a domain without templates, the call for the other type then fails, and the message with the withdrawals is not sent; `template_mapper.h:69` asks for both calls (`template_mapper.c:1332`). |
| `TemplateMapperEmptyDomain` | `SourcesHaveDomain` | The same removal leaves sources with a pointer to the freed domain. |
| `TemplateMapperLastId` | `ResentTemplatesCompleteToLast` | The loops over IDs end before 65535, which exporters may use: it is neither withdrawn nor resent (`template_mapper.c:1308`). |
| `ExpirationNested` | `OldestRemovedFirst` | With several writers a new subtree has age 0 until something below it is deleted, so its data go before older ones; fbitexpire's README says that it "removes the oldest folder(s) from tree" (`Scanner.cpp:246`). |
| `ExpirationNested` | `DiskAccounted` | A directory made before its new parent is watched is never heard of, nor counted (`Watcher.cpp:321`). |
| `ExpirationParent` | `ParentsAlive` | A directory without children in the tree is removed, and its object deleted, while its last child waits to be added below it (`Scanner.cpp:207`). |
| `ExpirationParent`, with this property, `MaxSize = 2`, `Rescans <- RootAndChild`, `MaxCommands = 1` | `SizesAddUp` | The new size of a rescanned subdirectory does not reach the directories above it; deleting it later makes their sizes wrap around (`Scanner.cpp:239`). |
| `ExpirationParent`, with this property and `MaxDepth = 2` | `InTreeOnce` | When the daemon starts on directories at the maximal depth, the newest branch stays in the tree although it is watched, and is added again (`Watcher.cpp:199`). |
| `ExpirationRestart` | `ActiveWhileWritten` | A rescan makes the finished directory the newest, by the file `stats.txt` it writes into it, and the next start takes it for the one being written (`Directory.cpp:212`, `Scanner.cpp:533`). |
| `ExpirationWakeup` | `RequestsHandled` | The notification falls between the Scanner's test and its sleep; the request waits for the next one (`Scanner.cpp:113`). |

Hence the limits of the passing runs: `dm_change` has two plugins, removes only the last and
adds none that runs; `dm_add` has a queue that does not wrap; `pipeline_reconf` has chains of two, with a plugin that fails only at the end of
one; `sequence_numbers` has an `input_info` per channel; the properties of
`mapper_shared` leave out the last ID, and domains that lost all templates;
`expiration` has one writer and directories directly below the base directory, as
all the defects above about sizes need nested ones, and two of its properties are about
the behaviours in which every start could tell the directory being written.

Behaviour that is modelled as it is and that a reader may not expect: a refresh of
the templates of a UDP destination starts its sequence numbers again at zero, and
does not set the flag that says there is something to look at, so it waits for the
connector's next round; the connector holds the mutex of the groups while it
connects; messages left in the buffer of a UDP sender go out as one datagram; when
the processing of a message to forward fails half way, the templates in it are lost
to the receivers although the mapper knows them; with the default depth of 1
fbitexpire takes every new directory for too deep.

### Fairness

Each thread's steps are weakly fair: a thread that can run does, and is not starved
at a mutex (POSIX threads under a fair scheduler). Nothing forces a thread to begin
a call, an exporter to send, a signal to choose a particular thread, or a spurious
wake-up to happen. A plugin returns from its callback: a storage plugin that hangs
stops its collector too. In `Forwarding` the connector thread keeps running, because it sleeps for a
bounded time between two rounds, and the plugin's thread finishes the message it has
begun; nothing makes a connection succeed or a message come. In
`Expiration` (`ExpirationWakeup.cfg`) the threads of fbitexpire run when they can.

### Conventions

* Memory that was freed keeps its content in the models, except for the queues of the
  pipeline, which may fail from then on (`Damage`). Where the code relies on
  freed memory, the behaviour is undefined, and a property says so (`ReferenceHeld`,
  `NoFreedStructure`, `MessageTemplateAlive`, `WalksLiveRecords`, `QueuesAlive`).
* `CHECK_DEADLOCK FALSE`: behaviours are bounded and the collector ends. That calls
  return is stated as liveness instead.
  `PacketBuilderAll.cfg` checks deadlock: packets can be asked for again for ever.
* Calls that fail only for lack of memory or on errors of pthreads are assumed to succeed.

## 4. Proofs

Each proof module has an invariant `IInv`, a lemma per operation that the operation
keeps it, `InitIInv`, `NextIInv`, and the theorems that follow; for the Template
Manager the invariant comes in layers, with an `Init...` and a `Next...` lemma for
each, and for the Data Manager it is called `ManagerInvariant`. TLC checked every invariant on small instances first. The clauses named below
are what the properties rest on and do not say themselves.

| Module | Theorem | States |
|---|---|---|
| `RingBufferProofs` | `TypeCorrect`, `InOrder`, `FreedLate`, `AlwaysCounted`, `NoLeftovers` | the invariants `TypeOK`, `ReadsInOrder`, `FreedAfterLastReader`, `ReferenceCounted`, `NothingLeftBehind` |
| | `Drained`, `NoDoubleFree` | the action properties `DrainedWhenWaitEmptyReturns`, `FreedOnce` |
| | `Refinement` | `Spec => ImplementsBroadcastQueue` |
| `DataManagerProofs` | `InOrder`, `References`, `Complete` | `StoresInOrder`, `ReferenceHeld`, `NothingLeftAtClose`, with up to two plugins that stay |
| | `ManagerCorrect` | the invariant these three follow from |
| `TemplateManagerProofs` | `LookupCorrect` | `LookupFindsAll` |
| | `BaseCorrect` | types, records, arrays and pointers |
| `TemplateLifetimeProofs` | `SessionsCounted` | order of messages and references of Data Managers |
| | `RegistrationsCounted`, `TemplatesOwned` | registrations, owners of templates |
| | `NothingLeaksCorrect` | `NothingLeaks` |
| | `MessageTemplateAliveCorrect`, `ReferencesCountedCorrect`, `DecodedAsDescribedCorrect`, `SourceTemplatesKeptCorrect` | `MessageTemplateAlive`, `ReferencesCounted`, `DecodedAsDescribed`, `SourceTemplatesKept` |
| | `TemplatesHeld` | the invariant these four follow from |
| `TemplateMapperProofs` | `CountersCorrect`, `Decoding`, `ReceiverSynchronized`, `ResendingComplete` | `CountersAgree`, `DecodedAsMeant`, `ReceiverHasTemplates`, `ResentTemplatesComplete` |
| `SequenceNumbersProofs` | `NumbersFollowChannels`, `NumbersCountRecords`, `AlarmsJustified` | `DomainFollowsChannels`, `RecordsNumbered`, `NoFalseAlarm`, with an `input_info` per channel |
| `PacketBuilderProofs` | `PacketsIntact`, `PacketsComplete`, `PacketsBounded`, `SetHeadersTrue` | `PacketAsBuilt`, `NothingLeftOut`, `PacketsLimited`, `SetLengthsTrue` |
| `ForwardingProofs` | `DestinationsInOneGroup`, `PacketsStayWhole`, `TemplatesComeFirst`, `SequenceNumbersRight`, `AllTriedBeforeDropped` | `OneGroup`, `WholePackets`, `TemplatesBeforeData`, `SequenceNumbersCount`, `DroppedOnlyWhenRefused` |
| | `TypesKept` | `TypeOK` |

### RingBufferProofs

For every `QueueSize` of at least 2, every finite non-empty set of readers whose
number fits the counter, any writers and any number of messages.

Assumptions: `QueueSizeAssumption` (with one slot no write can ever complete),
`MaxReferencesAssumption`, `ReadersAssumption`, `ByOffsetAssumption` (a reader that
reads at the read offset is alone).

None of the properties is inductive. The invariant `IInv` adds what they rest on:
`CountsInv` (the counters agree with the history: `count = written - released`, the
write offset is `count` places after the read offset, every reader is between
`released` and `written`), `SlotsInv` (the slot at distance d from the read offset
holds message `released + d`, with one reference for each reader that is not done
with it), `IndexInv` (a reader's index is at distance `taken - released`, or one
before that between its decrement and its next read), `ReaderInv`, `FreedInv` and
`NothingLeftBehind` itself. The hardest step is `ReleaseOldest`, which moves the
read offset by several slots and so changes all distances at once; the hardest part
of the argument is that a reader between decrement and release still keeps
`NothingLeftBehind` from failing. Offsets are handled by five lemmas on distances,
counts by three on the set of holders; then there is one lemma for each group of
actions, `NextIInv` combines them, and the theorems follow.

### DataManagerProofs

For a queue of any length of at least 2, any number of messages, and up to two plugins
that are there from the start and stay (`FixedPlugins`); either may fail to initialise
or be for another domain. Assumptions besides: `QueueSizeAssumption` and
`PluginsAssumption`, which says that plugins are finitely many, have unique IDs and fit
the array.

`FixedPlugins` excludes no more than the defects of section 3: plugins that are added
or removed break `ReferenceHeld`, and with three plugins `StoresInOrder` and
`NothingLeftAtClose` are false.

The difference to the ring buffer alone is that threads pass over messages without
holding them. A START has one reference, that of its plugin; the other thread goes by.
So a slot can be released while a thread is still at it, and its index is then no
longer in the queue. `ManagerInvariant` says:

* `ContentsInvariant`: from the oldest slot on there are STARTs, then the data in
  order, then the NULL; `Base` is the number that the message in the oldest slot has.
* `ReferencesInvariant`: a START has a reference until its plugin drops it, data and
  NULL one for each plugin that has not dropped it (`Holders`).
* `PlacesInvariant`: a thread is `e` places after the oldest slot, and has dropped all
  data before that place, or it is just before the oldest slot (`e = -1`), at the START
  of the other plugin. With two plugins it can be left behind by one slot only,
  because only one START is not its own (`OneOther`); the next slot holds its own
  START, or data it has a reference on. One place behind is harmless: the queue keeps one slot free, so
  that one is not written before the thread has left it.
* `StoredInvariant`: what was stored, and that no data in the queue was freed; and
  `CallsInvariant`, `PluginsInvariant`, `StartsInvariant` about the Output Manager's
  call, the array and the plugins before their START. `Count` is `plugins_count` with
  the plugin whose thread runs and which is not yet counted.

The hardest step is `ReleaseOldest`, which moves the read offset past everybody:
`ReleasedUpTo` says that it stops at the first slot another thread has a reference on,
`ReleasedAhead` and `AtReleased` that each thread is then still at one of the places
above.

That a thread one place behind also waits while the queue is full
(`WaitsOnlyWithoutData`) is not excluded by this: it delays what the theorems say,
and does not falsify it.

### TemplateManagerProofs, TemplateLifetimeProofs

For any finite set of sources, any assignment of them to Data Managers, any template
IDs and versions, any initial length of arrays and any numbers of connections and
packets (`TemplateAssumption`), for every behaviour of `Spec`. The invariant has layers,
each proved from the ones before:

1. `BaseInvariant`. A source has one record in the list. The
   unlocked walk is the hard part: `Way` is a set of records, freed ones among them,
   that is closed under `NextOf` up to the record looked for and has no other record
   with its key; `WayKept` shows that a removal by the Output Manager's thread keeps
   it, because a freed record keeps the pointer it had. So a walk finds the record of
   its source although it goes over freed memory (that it does is the defect
   `WalksLiveRecords` shows). `SlotsInvariant` says that `counter` counts the used
   slots and an ID has one slot, which gives `LookupFindsAll`; the array that grows,
   gets holes and is filled again is described by `Placed` (one hole becomes a
   chain), `Cleared` and `UpdatedIs`.
2. `SessionInvariant`. `OrderInvariant` says what may follow what
   among the messages of one source, `ManagersInvariant` that a Data Manager's
   references are the sources in session (`InSession`), counted as a set. It follows that
   the CLOSED of the last source, and no other, closes a manager.
3. `RegistrationInvariant`. The registrations of a record
   are the CLOSED messages of its source under way, and one more while the source is
   connected and counted (`Outstanding`); for a source in `refused` they are at most
   these, which is what remains true when a CLOSED takes back a registration that was
   not counted. A message that is not a CLOSED has its CLOSED
   behind it or the connection still there; a record is in the list only as long as
   somebody will remove it.
4. `OwnedInvariant`. A template is
   freed, or in one place of one record in the list, and never both; only a source in
   `refused` may also leave one in a record that was removed while the Preprocessor was
   about to add to it (`Excused`). `NothingLeaks`
   follows: at the end layer 2 says that no Data Manager is open, layer 3 that then
   no record is in the list, layer 4 what then became of every template.
5. `TemplateInvariant`. `HeldInvariant`: what a message holds is in the
   record of its source, or was withdrawn, or the source is in `refused`. `HeldStays` is the core of the argument: an update frees
   only templates without references, and by `ReferencesCounted`, which is part of
   the same induction and speaks of all templates, this one has some; a removal takes only records without
   registrations, and a message in the pipe stands for one (layer 3), while a
   message in a store queue keeps that manager's removal waiting, and removals of other
   managers are about other sources. `ReferencesCounted` counts holders as places in
   the queues, of which each step changes one (`HoldingTaken`, `QueuedAppended`,
   `QueuedTaken`). `DescribedInvariant`: a source that is connected and counted has as
   newest version of each ID the one it sent last, unless that one is at hand
   (`Pending`); then the pointer data gets is the right one, and templates do not
   change.

The proof found an error in this project: the run used to have two connections of each source,
which is too few for a lost registration to let a template die under a message; the
attempt to prove `MessageTemplateAlive` for any number showed it. The run has three now, and
the properties name the sources in `refused`.

### TemplateMapperProofs

For any finite set of exporters, any domains, IDs, definitions and any number of
messages. Assumptions: `MapperAssumption` (the IDs are numbers above
0, the private ones are among them, the exporters are finitely many) and `NullAssumption` (a null
pointer is none of the structures).

`CountersAgree` counts the mappings of all exporters that lead to a template; it is
inductive with `MappedStored`: a mapping leads to a stored template with the
definition its exporter gave, also for the exporter whose domain was freed, which
therefore has no mapping left. `Announced` ties the receiver to the domain (it knows
every stored template, and no other unless the domain was freed, which is the defect
`TemplateMapperEmptyDomain.cfg` shows), `UnusedWithdrawn` says that outside a message
with templates nothing waits for its withdrawal, except at the last ID, which the
code's loop misses (`TemplateMapperLastId.cfg`), and `DataAsMeant` carries the data of
the message under construction. Counters change by one at a time; the lemmas
`DecrementAgrees` and its companions show each operation of the mapper to keep
`Agrees` for a domain and the set of its users, and the steps of a message are put
together from them. Withdrawing all templates at once goes by the set of mappings
given up (`GivesUp`), as one union of disjoint sets.

### SequenceNumbersProofs

For any channels, domains and modulus, over networks that lose, reorder and
duplicate. The theorems assume `SeparateInfos`: each channel has its own
`input_info`. That is so over TCP and UDP; channels that share one, as the streams of
an SCTP association do, refute the property (`SequenceNumbersAssociation.cfg`).

`InfoAtPosition` ties the expected number of each `input_info` to the position of its
channel, and `WireInOrder` the messages under way on a channel that nothing disturbed
to each other: each starts where the one before it ends, the first where the
preprocessor expects it. The sum over the channels of a domain is the number of pairs
of a channel and a record that it has passed (`Passed`), so that one channel's step
changes the sum by the difference of two intervals; six lemmas on remainders make the
correction of the domain's number, a subtraction modulo `Wrap`, come out even when it
goes back.

### PacketBuilderProofs

For messages of any number of parts, any lengths and any sizes of packets.
Assumptions, with the code's values: the headers are not empty (4 and 16), a template
Set of the greatest length (512) and any data set or template with its headers fit into the longest
message (65535), and the packet sizes are between 1 and that. `NullAssumption` as
above.

Sums of lengths and records are cardinalities (`Total`), which makes splitting
(`SumSplit`), extending (`OneMore`) and moving (`TotalShift`) a range facts about
finite sets. The parts of a Set are shown to be a range by the least number argument
(`SetRange`). The invariant follows the phases: while parts are added, `SetsFit` and
`LastSet` (the header that grows is that of the last Set); while packets are cut,
`LoopInv` (the loop stands between two Sets, behind the parts it has summed up);
always, `PacketsInv` (packets are adjacent ranges that begin with a Set, and each has
a copy of its last part). Once packets are handed out, `FieldsInv` says that a place
that differs from what was inserted is the start of a packet and has a header;
`InnerPlaces` concludes that only the last part of a packet can have been
overwritten, and that is what `bldr_pkts_iovec` recovers.

### ForwardingProofs

For any number of destinations, over TCP and UDP in any mixture, both modes of
distribution, any templates, senders' buffers of any size (0 included) and any number
of messages and connections. `ForwardingAssumption`: a destination is configured
once, the UDP ones are among them, the modes are the two that the configuration
knows, and the bounds are numbers. A message is, as in the run, what `fwd_parse_msg`
can make of one new or known template (`MessagesOf`).

The proof has two layers. The first is about one sender. `Out` is what was sent on the
connection followed by what waits in the buffer, and the sender does only two things
to it while the connection lasts: append a whole packet (`AppendPiece`), and replace
a packet by its first part and its rest in the same place, when sendmsg takes a part
of it (`IsSplit`; from the buffer too). `SplitWhole`, `SplitExplained`,
`SplitRecords` and `SplitNumbered` show that splitting keeps what the properties say
about `Out`; `PacketFacts` sums up what one call can do to a destination.

The second is about the walks over the groups. `OneGroup` follows from the lengths
and members of the groups (`PartitionFacts`), which also says that none has a member
twice; that in turn is what makes `group_remove` take away the right place.
`TemplatesBeforeData` is not inductive: `ConnKnows` says which templates the
destination at each place of `conn` was given while a message is on its way (all of
them before the place the loop has reached, the old ones behind it, the packets before
the current one at it, and all for the destination that is left out), and
`MessageClear` that each packet can be understood with these. It holds when the socket
is busy only because then the message has no new templates (`required`), and when
`dest_send_next` gives up with new templates only because nobody is connected any
more. `DroppedOnlyWhenRefused` needs `NextInv`: the destinations that were connected
at the start are those that were tried and those in the `attempts` places from `Turn`
on, counted in a circle (`Within`); `WalkGoesOn` and `WalkCloses` show that going to
the next place, and taking the member out of the present one, keep it. `Numbers`
says that outside `conn` nothing is sent, which is why the number starts at zero
there. (A UDP destination whose templates are refreshed is in `ready` with what it
was sent, which is why its numbers are left out.)

`ReadyNoticed` is liveness and only model-checked.

### What is only model-checked

* Liveness, all of it: the prover does not do fairness and `ENABLED`.
* The pipeline and fbitexpire, and the Data Manager while plugins come and go. Several of
  their properties hold only for the constants of their runs, because the code has the
  defects that section 3 lists; a theorem would need hypotheses that exclude all of
  those, and would say little about the code as it is. The lists that the first two
  keep are walked, which the proofs would have to do by induction over data.


## 5. Not modelled

Parsing and conversion of packets (NetFlow, sFlow), the storage formats, the command line tools
and separately built plugins are I/O or sequential programs around libraries;
`pugixml`, `nffile` and `sflow` are vendored and make up much of the repository's
lines. Of the collector's core:

* the Output Manager's list of Data Managers, which the main thread walks while the
  Output Manager's thread changes it (`output_manager.c:284`), the statistics thread
  that walks the list of sources (`:791`), the array of storage plugins and its holes
  (`:303`), and changing the mode, after which managers have no references while
  sources stay connected (`:409`);
* the Configurator's other state: the mode of the first configuration is set but not
  remembered (`configurator.c:1043`), profiles are freed a fixed number of
  reconfigurations after they were replaced (`:1137`); the signal handler, whose flag
  is cleared after the reconfiguration (`ipfixcol.c:457`);
* the listening threads of the input plugins (`tcp_input.c:541`), and a read that a
  signal interrupts within a message (`:1222`);
* the size of queues, an int on the command line and 16 bits in `queues.c:55`:
  `QueueSizeAssumption` takes it to be at least 2;
* in the forwarding storage, removing a source (its call is commented out), several
  domains per destination, and the configuration;
* in fbitexpire, the size of the file `stats.txt`, option `-f`, deletes that fail half way,
  paths that are a prefix of another, and what happens while the daemon starts.

65536 simultaneous registrations of one source (a 16-bit counter) are out of a small
instance's reach.

## 6. Plan

Done: the ring buffer with its abstract specification and proofs, the Data Manager
and proofs for plugins that stay, the Template Manager with its two users and proofs, the pipeline and its reconfiguration,
sequence numbers with proofs, the forwarding storage (mapper, packet builder and
destinations) with proofs, fbitexpire.

Next: the Output Manager's list of Data Managers (section 5), and for the pipeline a proof of
`SingleReader` for the changes that keep it (taking plugins out, putting them in behind
those that stay), with chains of any length.
