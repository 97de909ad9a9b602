--------------------------- MODULE TemplateManager ---------------------------
(***************************************************************************)
(* The Template Manager (base/src/template_manager.c) between the two      *)
(* threads that use it.  The input thread runs the Preprocessor: it        *)
(* registers new sources, stores, updates and withdraws templates, and     *)
(* couples every data set with the template it was described by.  The      *)
(* Output Manager thread unregisters sources that closed and, when the     *)
(* last source of a Data Manager is gone, closes it and removes the        *)
(* templates.  In between, messages that hold template pointers wait in    *)
(* queues; the storage plugins release them.                               *)
(*                                                                         *)
(* tmr_lock protects the list of records in some functions and not in      *)
(* others, so a lookup without it walks the list step by step.  Memory     *)
(* that was freed keeps its content here; the properties say where the     *)
(* code relies on that.                                                    *)
(***************************************************************************)
EXTENDS Integers, Sequences, SequencesExt, FiniteSets

CONSTANTS
  Sources,        \* exporters: the pair of ODID and CRC that is the record key
  Ids,            \* template IDs
  Versions,       \* contents of a template, told apart by tm_compare_templates
  OdidOf,         \* source -> the Data Manager that serves it (0 for all in
                  \* single mode and with ODIDs merged)
  Withdrawals,    \* template IDs that exporters may withdraw
  InitialLength,  \* slots of a new record (32 in the code)
  MaxSessions,    \* bound: connections of a source
  MaxPackets      \* bound: packets in a behaviour

\* No version of a template: what an exporter has described before it sends one.
Unsent == 0

ASSUME TemplateAssumption ==
  /\ IsFiniteSet(Sources)
  /\ OdidOf \in [Sources -> Nat]
  /\ Unsent \notin Versions
  /\ Withdrawals \subseteq Ids
  /\ InitialLength \in Nat \ {0}
  /\ MaxSessions \in Nat /\ MaxPackets \in Nat

Odids == {OdidOf[s] : s \in Sources}

\* Records and templates are numbered in the order of allocation; 0 is NULL.
NULL == 0

\* A slot of the array of templates is a list, newest first; <<>> is NULL.
Hole == <<>>

VARIABLES
  record,         \* record -> key, templates, counter, registrations, next
  template,       \* template -> id, version, references
  freed_records, freed_templates,
  pre,            \* the Preprocessor: what it does with the packet at hand
  pipe,           \* messages between the Preprocessor and the Output Manager
  data_managers,  \* ODID -> references, or Closed
  store_queue,    \* ODID -> messages the storage plugins hold
  closing,        \* ODIDs in output_manager_remove
  releasing,      \* ODIDs whose storage plugins are about to count down the
                  \* references of the template of their first message
  session,        \* exporter: connections so far
  connected,      \* exporter: connected now
  sent,           \* exporter: version of each template sent on this connection
  packets,        \* packets so far
  refused,        \* history: sources with a registration that failed
  withdrawn       \* history: templates freed by a withdrawal

history       == <<refused, withdrawn>>
manager_vars  == <<record, template, freed_records, freed_templates, history>>
output_vars   == <<data_managers, store_queue, closing, releasing>>
exporter_vars == <<session, connected, sent, packets>>
vars == <<manager_vars, pre, pipe, output_vars, exporter_vars>>

Closed == -1
Idle == [pc |-> "idle"]

Init ==
  /\ record = <<>> /\ template = <<>>
  /\ freed_records = {} /\ freed_templates = {}
  /\ pre = Idle
  /\ pipe = <<>>
  /\ data_managers = [o \in Odids |-> Closed]
  /\ store_queue = [o \in Odids |-> <<>>]
  /\ closing = {} /\ releasing = {}
  /\ session = [s \in Sources |-> 0]
  /\ connected = [s \in Sources |-> FALSE]
  /\ sent = [s \in Sources |-> [i \in Ids |-> Unsent]]
  /\ packets = 0
  /\ refused = {} /\ withdrawn = {}

-----------------------------------------------------------------------------
(* The list of records, under tmr_lock *)

\* The records in the list.  A new one goes to the end and removal keeps the
\* order, so the list is in the order of allocation.
Linked == DOMAIN record \ freed_records

\* The first of some records in the list.
FirstOf(rs) == IF rs = {} THEN NULL ELSE Min(rs)

\* tm->first
first == FirstOf(Linked)

\* The next pointer; a record that was freed keeps the one it had.
NextOf(r) == IF r \in freed_records THEN record[r].next
             ELSE FirstOf({q \in Linked : q > r})

\* tm_record_lookup: the first record with the key of the source.
tm_record_lookup(s) == FirstOf({r \in Linked : record[r].key = s})

NewRecord(s) == [ key |-> s, templates |-> [i \in 1 .. InitialLength |-> Hole],
                  counter |-> 0, registrations |-> 0, next |-> NULL ]

\* The record tm_record_lookup_insert returns, and the list it leaves.
LookupInserted(s) ==
  IF tm_record_lookup(s) = NULL THEN Len(record) + 1 ELSE tm_record_lookup(s)

tm_record_lookup_insert(s) ==
  record' = IF tm_record_lookup(s) # NULL THEN record ELSE Append(record, NewRecord(s))

\* All templates of a record, the old ones included.
TemplatesOf(r) == UNION {ToSet(record[r].templates[i]) : i \in DOMAIN record[r].templates}

\* tm_record_destroy for the records in gone, from the first to the last, so
\* that each still points to the one that was behind it.
Destroyed(gone) ==
  /\ record' = [r \in DOMAIN record |->
       IF r \in gone THEN [record[r] EXCEPT !.next = NextOf(r)] ELSE record[r]]
  /\ freed_records' = freed_records \cup gone
  /\ freed_templates' = freed_templates \cup UNION {TemplatesOf(r) : r \in gone}

\* Mutant: registered records are destroyed too.
tm_remove_all_templates_Registered(o) ==
  Destroyed({r \in Linked : OdidOf[record[r].key] = o})

\* tm_remove_all_odid_templates and, for merged ODIDs, tm_remove_all_templates:
\* records that nobody registered are destroyed with their templates.
tm_remove_all_templates(o) ==
  Destroyed({r \in Linked : OdidOf[record[r].key] = o /\ record[r].registrations = 0})

-----------------------------------------------------------------------------
(* One record; only the Preprocessor's thread changes its templates *)

Used(r) == {i \in DOMAIN record[r].templates : record[r].templates[i] # Hole}

\* The slot tm_record_get_template and tm_record_template_index find: they
\* give up after counter templates.
Found(r, id) ==
  {i \in Used(r) : /\ template[record[r].templates[i][1]].id = id
                   /\ Cardinality({j \in Used(r) : j < i}) < record[r].counter}

SlotOf(r, id) == CHOOSE i \in Found(r, id) : \A j \in Found(r, id) : i <= j

tm_record_get_template(r, id) ==
  IF r = NULL \/ Found(r, id) = {} THEN NULL ELSE record[r].templates[SlotOf(r, id)][1]

\* tm_record_insert_template: the first hole of rec; a full array is doubled.
Insert(rec, t) ==
  LET grown == IF rec.counter = Len(rec.templates)
               THEN rec.templates \o [i \in 1 .. Len(rec.templates) |-> Hole]
               ELSE rec.templates
      hole  == Min({i \in DOMAIN grown : grown[i] = Hole})
  IN  [rec EXCEPT !.templates = [grown EXCEPT ![hole] = <<t>>],
                  !.counter = @ + 1]

\* Mutant: counter is not decremented.
Emptied_KeepCounter(rec, slot) ==
  [rec EXCEPT !.templates[slot] = Hole]

\* tm_record_remove_template: the slot becomes a hole.
Emptied(rec, slot) ==
  [rec EXCEPT !.templates[slot] = Hole, !.counter = @ - 1]

\* Mutant: the new template goes behind the old ones.
Update_BehindOld(r, slot, t) ==
  LET chain == record[r].templates[slot]
      unused == template[chain[1]].references = 0
  IN  /\ record' = [record EXCEPT ![r] =
           IF unused /\ Len(chain) = 1 THEN Insert(Emptied(@, slot), t)
           ELSE [@ EXCEPT !.templates[slot] =
                   (IF unused THEN Tail(chain) ELSE chain) \o <<t>>]]
      /\ freed_templates' = IF unused THEN freed_templates \cup {chain[1]}
                            ELSE freed_templates

\* tm_record_update_template: an equal template is kept; one nobody refers to
\* is replaced, one in use stays behind the new one.
Update(r, slot, t) ==
  LET chain == record[r].templates[slot]
      unused == template[chain[1]].references = 0
  IN  /\ record' = [record EXCEPT ![r] =
           IF unused /\ Len(chain) = 1 THEN Insert(Emptied(@, slot), t)
           ELSE [@ EXCEPT !.templates[slot] =
                   <<t>> \o (IF unused THEN Tail(chain) ELSE chain)]]
      /\ freed_templates' = IF unused THEN freed_templates \cup {chain[1]}
                            ELSE freed_templates

-----------------------------------------------------------------------------
(* The exporters and the Preprocessor *)

Items ==
  [type : {"template"}, id : Ids, version : Versions]
  \cup [type : {"withdrawal"}, id : Withdrawals, version : {Unsent}]
  \cup [type : {"data"}, id : Ids, version : {Unsent}]

\* An exporter describes its data before it sends any.
MaySend(known, item) ==
  item.type \in {"data", "withdrawal"} => known[item.id] # Unsent

\* What the exporter has described after the item.
Described(known, item) ==
  CASE item.type = "template"   -> [known EXCEPT ![item.id] = item.version]
    [] item.type = "withdrawal" -> [known EXCEPT ![item.id] = Unsent]
    [] item.type = "data"       -> known

\* preprocessor_parse_msg gets the first packet of a connection.
ReceiveNew(s, item) ==
  /\ pre = Idle
  /\ ~connected[s] /\ session[s] < MaxSessions /\ packets < MaxPackets
  /\ item.type = "template"
  /\ connected' = [connected EXCEPT ![s] = TRUE]
  /\ session' = [session EXCEPT ![s] = @ + 1]
  /\ packets' = packets + 1
  /\ sent' = [sent EXCEPT ![s] = Described([i \in Ids |-> Unsent], item)]
  /\ pre' = [pc |-> "register", status |-> "new", source |-> s, item |-> item,
             cur |-> NULL]
  /\ UNCHANGED <<manager_vars, pipe, output_vars>>

ReceivePacket(s, item) ==
  /\ pre = Idle
  /\ connected[s] /\ packets < MaxPackets
  /\ MaySend(sent[s], item)
  /\ packets' = packets + 1
  /\ sent' = [sent EXCEPT ![s] = Described(@, item)]
  /\ pre' = [pc |-> "lookup", status |-> "opened", source |-> s, item |-> item,
             cur |-> first]
  /\ UNCHANGED <<manager_vars, pipe, output_vars, session, connected>>

\* The connection is closed: a message without content follows the others.
ReceiveClosed(s) ==
  /\ pre = Idle
  /\ connected[s]
  /\ connected' = [connected EXCEPT ![s] = FALSE]
  /\ pipe' = Append(pipe, [status |-> "closed", source |-> s, type |-> "none",
                           template |-> NULL, described |-> Unsent])
  /\ UNCHANGED <<manager_vars, pre, output_vars, session, sent, packets>>

\* tm_source_register finds or creates the record ...
Register ==
  /\ pre.pc = "register"
  /\ tm_record_lookup_insert(pre.source)
  /\ pre' = [pre EXCEPT !.pc = "count"]
  /\ UNCHANGED <<template, freed_records, freed_templates, history, pipe, output_vars,
                 exporter_vars>>

\* ... and, having taken the lock again, counts the registration; it fails if
\* the record was removed meanwhile, and the packet is processed all the same.
CountRegistration ==
  /\ pre.pc = "count"
  /\ LET r == tm_record_lookup(pre.source)
     IN  IF r = NULL THEN /\ refused' = refused \cup {pre.source}
                          /\ UNCHANGED record
         ELSE /\ record' = [record EXCEPT ![r].registrations = @ + 1]
              /\ UNCHANGED refused
  /\ pre' = [pre EXCEPT !.pc = "lookup", !.cur = first]
  /\ UNCHANGED <<template, freed_records, freed_templates, withdrawn, pipe, output_vars,
                 exporter_vars>>

\* tm_record_lookup without the lock: one step per record.
Walk ==
  /\ pre.pc = "lookup"
  /\ pre.cur # NULL /\ record[pre.cur].key # pre.source
  /\ pre' = [pre EXCEPT !.cur = NextOf(pre.cur)]
  /\ UNCHANGED <<manager_vars, pipe, output_vars, exporter_vars>>

WalkEnds == pre.pc = "lookup" /\ (pre.cur # NULL => record[pre.cur].key = pre.source)

\* What the Preprocessor found for the item's template ID.
Current == tm_record_get_template(pre.cur, pre.item.id)

\* The packet's processing goes on with the record or template it found.
Go(pc, pointer) == pre' = [pre EXCEPT !.pc = pc, !.cur = pointer]

\* tm_add_template or tm_update_template take the lock to get the record.
FindRecord ==
  /\ WalkEnds /\ pre.item.type = "template"
  /\ Go(IF Current = NULL THEN "add" ELSE "update", LookupInserted(pre.source))
  /\ tm_record_lookup_insert(pre.source)
  /\ UNCHANGED <<template, freed_records, freed_templates, history, pipe, output_vars,
                 exporter_vars>>

NewTemplate == [id |-> pre.item.id, version |-> pre.item.version, references |-> 0]

\* The template goes into a free slot; without one to update, also here.
AddTemplate ==
  /\ pre.pc \in {"add", "update"}
  /\ pre.pc = "update" => Current = NULL
  /\ template' = Append(template, NewTemplate)
  /\ record' = [record EXCEPT ![pre.cur] = Insert(@, Len(template) + 1)]
  /\ Go("send", NULL)
  /\ UNCHANGED <<freed_records, freed_templates, history, pipe, output_vars, exporter_vars>>

UpdateTemplate ==
  /\ pre.pc = "update" /\ Current # NULL
  /\ IF template[Current].version = pre.item.version
     THEN UNCHANGED <<template, record, freed_templates>>
     ELSE /\ template' = Append(template, NewTemplate)
          /\ Update(pre.cur, SlotOf(pre.cur, pre.item.id), Len(template) + 1)
  /\ Go("send", NULL)
  /\ UNCHANGED <<freed_records, history, pipe, output_vars, exporter_vars>>

\* tm_remove_template: the template and the older ones behind it are freed.
WithdrawTemplate ==
  /\ WalkEnds /\ pre.item.type = "withdrawal"
  /\ IF Current = NULL THEN UNCHANGED <<record, freed_templates, withdrawn>>
     ELSE LET slot == SlotOf(pre.cur, pre.item.id)
              gone == ToSet(record[pre.cur].templates[slot])
          IN  /\ freed_templates' = freed_templates \cup gone
              /\ withdrawn' = withdrawn \cup gone
              /\ record' = [record EXCEPT ![pre.cur] = Emptied(@, slot)]
  /\ Go("send", NULL)
  /\ UNCHANGED <<template, freed_records, refused, pipe, output_vars, exporter_vars>>

GetTemplate ==
  /\ WalkEnds /\ pre.item.type = "data"
  /\ Go("couple", Current)
  /\ UNCHANGED <<manager_vars, pipe, output_vars, exporter_vars>>

\* Mutant: the reference is not counted.
CoupleData_NoReference ==
  /\ pre.pc = "couple"
  /\ UNCHANGED template
  /\ Go("send", pre.cur)
  /\ UNCHANGED <<record, freed_records, freed_templates, history, pipe, output_vars,
                 exporter_vars>>

\* tm_template_reference_inc
CoupleData ==
  /\ pre.pc = "couple"
  /\ template' = IF pre.cur = NULL THEN template
                 ELSE [template EXCEPT ![pre.cur].references = @ + 1]
  /\ Go("send", pre.cur)
  /\ UNCHANGED <<record, freed_records, freed_templates, history, pipe, output_vars,
                 exporter_vars>>

\* The message joins the queue of the pipeline, with the template it holds.
Send ==
  /\ pre.pc = "send"
  /\ pipe' = Append(pipe, [status |-> pre.status, source |-> pre.source,
                           type |-> pre.item.type, template |-> pre.cur,
                           described |-> sent[pre.source][pre.item.id]])
  /\ pre' = Idle
  /\ UNCHANGED <<manager_vars, output_vars, exporter_vars>>

-----------------------------------------------------------------------------
(* The Output Manager and the storage plugins *)

OutputIdle == closing = {} /\ pipe # <<>>

Opened(o) == IF data_managers[o] = Closed THEN 0 ELSE data_managers[o]

\* A message goes to the Data Manager of its ODID, which is created on demand;
\* the first one of a source counts a reference.
Forward ==
  /\ OutputIdle /\ Head(pipe).status # "closed"
  /\ LET o == OdidOf[Head(pipe).source]
     IN  /\ data_managers' = [data_managers EXCEPT ![o] =
              IF Head(pipe).status = "new" THEN Opened(o) + 1 ELSE Opened(o)]
         /\ store_queue' = [store_queue EXCEPT ![o] = Append(@, Head(pipe))]
  /\ pipe' = Tail(pipe)
  /\ UNCHANGED <<manager_vars, pre, closing, releasing, exporter_vars>>

\* Mutant: the registration stays.
Unregistered_Kept(s) == record

\* tm_source_unregister
Unregistered(s) ==
  LET r == tm_record_lookup(s)
  IN  IF r = NULL \/ record[r].registrations = 0 THEN record
      ELSE [record EXCEPT ![r].registrations = @ - 1]

\* The source closed: its reference and its registration are given back; the
\* Data Manager of the last source is closed.
SourceClosed ==
  /\ OutputIdle /\ Head(pipe).status = "closed"
  /\ LET o == OdidOf[Head(pipe).source]
     IN  /\ data_managers' = [data_managers EXCEPT ![o] = Opened(o) - 1]
         /\ closing' = IF Opened(o) - 1 = 0 THEN {o} ELSE {}
  /\ record' = Unregistered(Head(pipe).source)
  /\ pipe' = Tail(pipe)
  /\ UNCHANGED <<template, freed_records, freed_templates, history, pre, store_queue,
                 releasing, exporter_vars>>

\* Mutant: the storage plugins are not waited for.
RemoveManager_NoWait(o) ==
  /\ o \in closing
  /\ tm_remove_all_templates(o)
  /\ data_managers' = [data_managers EXCEPT ![o] = Closed]
  /\ closing' = {}
  /\ UNCHANGED <<template, history, pre, pipe, store_queue, releasing, exporter_vars>>

\* output_manager_remove: data_manager_close waits for the storage plugins,
\* then the templates are removed.
RemoveManager(o) ==
  /\ o \in closing /\ store_queue[o] = <<>>
  /\ tm_remove_all_templates(o)
  /\ data_managers' = [data_managers EXCEPT ![o] = Closed]
  /\ closing' = {}
  /\ UNCHANGED <<template, history, pre, pipe, store_queue, releasing, exporter_vars>>

\* The template of the message that the storage plugins of o release next.
Oldest(o) == Head(store_queue[o]).template

\* The queue frees the message.  tm_template_reference_dec tests the count ...
TestReferences(o) ==
  /\ store_queue[o] # <<>> /\ o \notin releasing
  /\ Oldest(o) # NULL /\ template[Oldest(o)].references # 0
  /\ releasing' = releasing \cup {o}
  /\ UNCHANGED <<manager_vars, pre, pipe, data_managers, store_queue, closing,
                 exporter_vars>>

\* ... and decrements it, unless it was zero.
ReleaseMessage(o) ==
  /\ store_queue[o] # <<>>
  /\ IF o \in releasing
     THEN template' = [template EXCEPT ![Oldest(o)].references = @ - 1]
     ELSE /\ Oldest(o) # NULL => template[Oldest(o)].references = 0
          /\ UNCHANGED template
  /\ releasing' = releasing \ {o}
  /\ store_queue' = [store_queue EXCEPT ![o] = Tail(@)]
  /\ UNCHANGED <<record, freed_records, freed_templates, history, pre, pipe,
                 data_managers, closing, exporter_vars>>

Exporter(s) ==
  \/ \E item \in Items : ReceiveNew(s, item) \/ ReceivePacket(s, item)
  \/ ReceiveClosed(s)

Preprocessor ==
  \/ Register \/ CountRegistration \/ Walk \/ FindRecord \/ AddTemplate
  \/ UpdateTemplate \/ WithdrawTemplate \/ GetTemplate \/ CoupleData \/ Send

OutputManager == Forward \/ SourceClosed \/ \E o \in Odids : RemoveManager(o)

Next ==
  \/ \E s \in Sources : Exporter(s)
  \/ Preprocessor
  \/ OutputManager
  \/ \E o \in Odids : TestReferences(o) \/ ReleaseMessage(o)

Spec == Init /\ [][Next]_vars

-----------------------------------------------------------------------------
\* What the Preprocessor may be doing, and the messages it sends.
Tasks ==
  [ pc : {"register", "count", "lookup", "add", "update", "couple", "send"},
    status : {"new", "opened"}, source : Sources, item : Items, cur : Nat ]

Message ==
  [ status : {"new", "opened", "closed"}, source : Sources,
    type : {"template", "withdrawal", "data", "none"}, template : Nat,
    described : Versions \cup {Unsent} ]

Record == [ key : Sources, templates : Seq(Seq(Nat)), counter : Nat,
            registrations : Nat, next : Nat ]

\* A negative count of references stands for one that wrapped around.
Template == [id : Ids, version : Versions, references : Int]

TypeOK ==
  /\ record \in Seq(Record)
  /\ template \in Seq(Template)
  /\ freed_records \subseteq DOMAIN record
  /\ freed_templates \subseteq DOMAIN template
  /\ pre \in {Idle} \cup Tasks
  /\ pipe \in Seq(Message)
  /\ data_managers \in [Odids -> {Closed} \cup Nat]
  /\ store_queue \in [Odids -> Seq(Message)]
  /\ closing \subseteq Odids
  /\ releasing \subseteq Odids
  /\ session \in [Sources -> 0 .. MaxSessions]
  /\ connected \in [Sources -> BOOLEAN]
  /\ sent \in [Sources -> [Ids -> Versions \cup {Unsent}]]
  /\ packets \in 0 .. MaxPackets
  /\ refused \subseteq Sources
  /\ withdrawn \subseteq DOMAIN template

\* The places of a queue with a message that holds template t.
Holding(queue, t) == {i \in DOMAIN queue : queue[i].template = t}

\* References that messages hold on a template.
Holders(t) ==
  Cardinality(Holding(pipe, t))
  + (IF pre.pc = "send" /\ pre.cur = t THEN 1 ELSE 0)
  + Cardinality(UNION {{o} \X Holding(store_queue[o], t) : o \in Odids})

\* Messages between the Preprocessor and the release by the storage plugins.
Messages == ToSet(pipe) \cup UNION {ToSet(store_queue[o]) : o \in Odids}

\* The template of a message stays allocated until the storage plugins have
\* released the message, through any updates, closing and reconnecting
\* (template_manager.c:553-596, output_manager.c:192-225), unless it was
\* withdrawn or a registration of its source has failed.
MessageTemplateAlive ==
  \A m \in Messages :
    m.template \in freed_templates => m.source \in refused \/ m.template \in withdrawn

\* A template that is withdrawn has no message left: "these templates are no
\* longer used (checked in data_manager_withdraw_templates())" (preprocessor.c:307).
UsedTemplatesNotWithdrawn ==
  \A m \in Messages : m.template \notin withdrawn

\* The reference count of a template is the number of messages that hold it.
ReferencesCounted ==
  \A t \in DOMAIN template \ freed_templates : template[t].references = Holders(t)

\* Data is coupled with the template its exporter had described it by when it
\* sent it, whatever the exporter has sent since, unless a registration of the
\* exporter has failed.
DecodedAsDescribed ==
  \A m \in Messages : m.type = "data" /\ m.source \notin refused =>
    /\ m.template # NULL
    /\ template[m.template].version = m.described

\* A lookup of a template ID finds what is in the record: counter, which ends
\* the search early, counts the slots in use, and no ID is in two slots.
LookupFindsAll ==
  \A r \in Linked :
    /\ record[r].counter = Cardinality(Used(r))
    /\ \A i, j \in Used(r) :
         template[record[r].templates[i][1]].id = template[record[r].templates[j][1]].id
         => i = j

\* What source s has sent on its connection is in the manager, in the version
\* sent last.
TemplatesFound(s) ==
  \A i \in Ids : sent[s][i] # Unsent =>
    LET t == tm_record_get_template(tm_record_lookup(s), i)
    IN  t # NULL /\ template[t].version = sent[s][i]

\* The templates of a connected source, once received, are in the manager,
\* whatever other sources and its own earlier connections do, unless one of
\* its registrations has failed (template_manager.c:304-309).
SourceTemplatesKept ==
  \A s \in Sources \ refused : pre = Idle /\ connected[s] => TemplatesFound(s)

\* The same for all sources: registering "protects ODID templates in case of
\* short disconnection of an IPFIX exporter" (templates.h:178).
ReconnectedTemplatesKept ==
  \A s \in Sources : pre = Idle /\ connected[s] => TemplatesFound(s)

\* When every source is gone and its messages are processed, the manager is
\* empty and every template was freed, except what a source whose registration
\* failed put into a record that was removed under its hands.
NothingLeaks ==
  (\A s \in Sources : ~connected[s]) /\ pipe = <<>> /\ closing = {} =>
    /\ Linked = {}
    /\ \A t \in DOMAIN template \ freed_templates :
         \E r \in freed_records : record[r].key \in refused /\ t \in TemplatesOf(r)

\* A lookup never stands on a record that was freed.
WalksLiveRecords ==
  pre.pc = "lookup" /\ pre.cur # NULL => pre.cur \notin freed_records

=============================================================================
