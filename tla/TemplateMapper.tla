---------------------------- MODULE TemplateMapper ----------------------------
(***************************************************************************)
(* The template mapper (base/src/utils/template_mapper/template_mapper.c)  *)
(* as the forwarding storage uses it: the exporters of one Observation     *)
(* Domain share the domain's templates, so the private template IDs of     *)
(* each exporter are mapped to IDs of the domain.  A template that several *)
(* exporters define is sent on once and is withdrawn when the last mapping *)
(* to it is gone.                                                          *)
(*                                                                         *)
(* fwd_parse_msg (storage/forwarding/forwarding.c) takes the sets of a     *)
(* message in order and builds the message to send; the withdrawals come   *)
(* at its end.  A message whose processing fails is not sent, although the *)
(* mapper has changed.  All of this is one thread: the steps below are the *)
(* sets of a message.  known is what a receiver has learnt that got every  *)
(* message sent.                                                           *)
(***************************************************************************)
EXTENDS Integers, FiniteSets

CONSTANTS
  Sources,        \* exporters (the input_info structures)
  OdidOf,         \* exporter -> its Observation Domain ID
  MinId,          \* IPFIX_MIN_RECORD_FLOWSET_ID (256)
  MaxId,          \* FWD_MAX_RECORD_FLOWSET_ID (65535)
  PrivateIds,     \* template IDs the exporters use
  Definitions,    \* template records without the ID, as fwd_tmplt_cmp sees them
  Options,        \* those that are options templates
  NULL,
  MaxMessages,    \* bound: messages in a behaviour
  MaxRecords      \* bound: records in a message

Ids == MinId..MaxId

ASSUME MapperAssumption ==
  /\ MinId \in Nat \ {0} /\ MaxId \in Nat
  /\ IsFiniteSet(Sources)
  /\ PrivateIds \subseteq Ids
  /\ Options \subseteq Definitions
  /\ MaxMessages \in Nat /\ MaxRecords \in Nat

ASSUME DomainAssumption == OdidOf \in [Sources -> Nat]

Odids == {OdidOf[s] : s \in Sources}

Types == {"template", "options"}

TypeOf(d) == IF d \in Options THEN "options" ELSE "template"

(***************************************************************************)
(* The structures: tmapper_tmplt_t, fwd_odid_t, the map of a fwd_source_t, *)
(* what a receiver has learnt, and the message being processed.            *)
(***************************************************************************)

Templates == [rec : Definitions, ref_cnt : Nat]

Maintainers ==
  [tmplts : [Ids -> Templates \cup {NULL}],
   to_remove : Nat, templates_normal : Nat, templates_options : Nat]

Mappings == [PrivateIds -> Ids \cup {0}]

Views == [Ids -> Definitions \cup {NULL}]

Decodings == Definitions \X (Definitions \cup {NULL})

Messages ==
  [src : Sources, records : 0..MaxRecords, any_templates : BOOLEAN,
   view : Views, data : SUBSET Decodings]

\* A null pointer points to none of them.
ASSUME NullAssumption ==
  /\ NULL \notin Definitions /\ NULL \notin Templates
  /\ NULL \notin Maintainers /\ NULL \notin Mappings
  /\ NULL \notin Messages

VARIABLES
  maintainers,    \* ODID -> fwd_odid_t, or NULL
  sources,        \* exporter -> map of its fwd_source_t, or NULL
  dangling,       \* exporters whose fwd_source_t points to a freed fwd_odid_t
  msg,            \* the message being processed, or NULL
  known,          \* ODID -> ID -> definition the receiver has
  defined,        \* exporter -> ID -> definition the exporter gave it
  decoded,        \* <<meant, read>>: definitions of the data in the message
                  \* just sent, for the exporter and for the receiver
  messages        \* messages so far

mapper_vars == <<maintainers, sources, dangling>>
vars == <<mapper_vars, msg, known, defined, decoded, messages>>

NoTemplates == [i \in Ids |-> NULL]

NoMapping == [p \in PrivateIds |-> 0]

fwd_odid_create ==
  [tmplts |-> NoTemplates, to_remove |-> 0,
   templates_normal |-> 0, templates_options |-> 0]

Init ==
  /\ maintainers = [o \in Odids |-> NULL]
  /\ sources = [s \in Sources |-> NULL]
  /\ dangling = {}
  /\ msg = NULL
  /\ known = [o \in Odids |-> NoTemplates]
  /\ defined = [s \in Sources |-> [p \in PrivateIds |-> NULL]]
  /\ decoded = {}
  /\ messages = 0

-----------------------------------------------------------------------------
(***************************************************************************)
(* The templates of a domain: odid is a fwd_odid_t.                        *)
(***************************************************************************)

Lowest(S) == CHOOSE i \in S : \A j \in S : i <= j

Stored(odid) == {i \in Ids : odid.tmplts[i] # NULL}

fwd_odid_template_unused_id_Hint(odid, hint) == hint

fwd_odid_template_unused_id(odid, hint) ==
  LET free == Ids \ Stored(odid) IN
  IF hint \in free THEN hint
  ELSE IF free # {} THEN Lowest(free) ELSE 0

fwd_odid_template_find(odid, d) ==
  LET same == {i \in Stored(odid) : odid.tmplts[i].rec = d} IN
  IF same = {} THEN 0 ELSE Lowest(same)

\* A new template has no references yet, so it counts as one to remove.
fwd_odid_template_insert(odid, id, d) ==
  [odid EXCEPT
     !.tmplts[id] = [rec |-> d, ref_cnt |-> 0],
     !.to_remove = @ + 1,
     !.templates_normal = @ + (IF d \in Options THEN 0 ELSE 1),
     !.templates_options = @ + (IF d \in Options THEN 1 ELSE 0)]

fwd_odid_template_increment_NoRescue(odid, id) ==
  [odid EXCEPT !.tmplts[id].ref_cnt = @ + 1]

fwd_odid_template_increment(odid, id) ==
  [odid EXCEPT
     !.to_remove = @ - (IF odid.tmplts[id].ref_cnt = 0 THEN 1 ELSE 0),
     !.tmplts[id].ref_cnt = @ + 1]

fwd_odid_template_decrement(odid, id) ==
  [odid EXCEPT
     !.to_remove = @ + (IF odid.tmplts[id].ref_cnt = 1 THEN 1 ELSE 0),
     !.tmplts[id].ref_cnt = @ - 1]

\* fwd_odid_template_remove for each of ids.
Removed(odid, ids) ==
  LET options == {i \in ids : odid.tmplts[i].rec \in Options} IN
  [odid EXCEPT
     !.tmplts = [i \in Ids |-> IF i \in ids THEN NULL ELSE odid.tmplts[i]],
     !.to_remove = @ - Cardinality(ids),
     !.templates_normal = @ - Cardinality(ids \ options),
     !.templates_options = @ - Cardinality(options)]

\* The loops of tmapper_withdraw_ids and tmapper_get_templates end before the
\* last ID and after a number of hits.
FirstOf(S, n) == {i \in S : Cardinality({j \in S : j < i}) < n}

Scanned(odid, type) ==
  {i \in Stored(odid) : i < MaxId /\ TypeOf(odid.tmplts[i].rec) = type}

\* The IDs that tmapper_withdraw_ids returns, and removes.
WithdrawnIds(odid, type) ==
  FirstOf({i \in Scanned(odid, type) : odid.tmplts[i].ref_cnt = 0},
          odid.to_remove)

\* With nothing to remove tmapper_withdraw_ids returns early; otherwise it
\* removes a domain that is left without templates.
Emptied(odid, removed) ==
  /\ odid.to_remove # 0
  /\ removed.templates_normal = 0 /\ removed.templates_options = 0

tmapper_get_templates_NormalOnly(odid, type) ==
  FirstOf(Scanned(odid, type), odid.templates_normal)

tmapper_get_templates(odid, type) ==
  FirstOf(Scanned(odid, type),
          IF type = "template" THEN odid.templates_normal
                               ELSE odid.templates_options)

-----------------------------------------------------------------------------
(***************************************************************************)
(* An exporter's source structure is created, with the domain's if it is   *)
(* missing, by the first template record it sends (tmplts_src_get).        *)
(***************************************************************************)

Mapping(s) == IF sources[s] = NULL THEN NoMapping ELSE sources[s]

Maintainer(s) ==
  LET odid == maintainers[OdidOf[s]] IN
  IF odid = NULL THEN fwd_odid_create ELSE odid

Store(s, odid, map) ==
  /\ maintainers' = [maintainers EXCEPT ![OdidOf[s]] = odid]
  /\ sources' = [sources EXCEPT ![s] = map]
  /\ UNCHANGED dangling

\* fwd_src_mapping_remove and fwd_src_mapping_set.
Unmapped(odid, map, p) ==
  IF map[p] = 0 THEN odid ELSE fwd_odid_template_decrement(odid, map[p])

Mapped(odid, id) == fwd_odid_template_increment(odid, id)

\* A record of a template set of the message; what it adds to the message.
Record(any, view) ==
  /\ msg.records < MaxRecords
  /\ msg' = [msg EXCEPT !.records = @ + 1, !.any_templates = @ \/ any,
                        !.view = view]
  /\ UNCHANGED <<known, messages>>

Defines(s, p, d) ==
  /\ defined' = [defined EXCEPT ![s][p] = d]
  /\ UNCHANGED decoded

-----------------------------------------------------------------------------
(***************************************************************************)
(* fwd_parse_msg: the message of exporter s, set by set.                   *)
(***************************************************************************)

\* The exporter's template records go through its fwd_source_t.
Reachable(s) == msg # NULL /\ msg.src = s /\ s \notin dangling

StartMessage(s) ==
  /\ msg = NULL
  /\ messages < MaxMessages
  /\ msg' = [src |-> s, records |-> 0, any_templates |-> FALSE,
             view |-> known[OdidOf[s]], data |-> {}]
  /\ messages' = messages + 1
  /\ decoded' = {}
  /\ UNCHANGED <<mapper_vars, known, defined>>

\* The exporter repeats a definition.
RepeatTemplate(s, p, d) ==
  /\ Reachable(s)
  /\ Mapping(s)[p] # 0
  /\ Maintainer(s).tmplts[Mapping(s)[p]].rec = d
  /\ Store(s, Maintainer(s), Mapping(s))
  /\ Record(TRUE, msg.view)
  /\ Defines(s, p, d)

\* A first definition of p, or another one: the old mapping is removed, if
\* there is one, and another exporter's template of the domain may be shared.
ChangesTemplate(s, p, d) ==
  /\ Reachable(s)
  /\ Mapping(s)[p] # 0 => Maintainer(s).tmplts[Mapping(s)[p]].rec # d

ShareTemplate(s, p, d) ==
  LET odid == Unmapped(Maintainer(s), Mapping(s), p)
      id   == fwd_odid_template_find(odid, d) IN
  /\ ChangesTemplate(s, p, d)
  /\ id # 0
  /\ Store(s, Mapped(odid, id), [Mapping(s) EXCEPT ![p] = id])
  /\ Record(TRUE, msg.view)
  /\ Defines(s, p, d)

NewTemplate(s, p, d) ==
  LET odid == Unmapped(Maintainer(s), Mapping(s), p)
      id   == fwd_odid_template_unused_id(odid, p) IN
  /\ ChangesTemplate(s, p, d)
  /\ fwd_odid_template_find(odid, d) = 0
  /\ id # 0
  /\ Store(s, Mapped(fwd_odid_template_insert(odid, id, d), id),
           [Mapping(s) EXCEPT ![p] = id])
  /\ Record(TRUE, [msg.view EXCEPT ![id] = d])
  /\ Defines(s, p, d)

\* Every ID of the domain is taken: the template is dropped, and so are its
\* data until an ID is free and the exporter repeats it.
RefuseTemplate(s, p, d) ==
  LET odid == Unmapped(Maintainer(s), Mapping(s), p) IN
  /\ ChangesTemplate(s, p, d)
  /\ fwd_odid_template_find(odid, d) = 0
  /\ fwd_odid_template_unused_id(odid, p) = 0
  /\ Store(s, odid, [Mapping(s) EXCEPT ![p] = 0])
  /\ Record(TRUE, msg.view)
  /\ Defines(s, p, d)

\* fwd_src_withdraw_id; the type of the withdrawal only makes a warning.
WithdrawTemplate(s, p) ==
  /\ Reachable(s)
  /\ Store(s, Unmapped(Maintainer(s), Mapping(s), p),
           [Mapping(s) EXCEPT ![p] = 0])
  /\ Record(TRUE, msg.view)
  /\ Defines(s, p, NULL)

\* fwd_src_withdraw_type: the exporter withdraws all its templates of a type; it
\* may have mapped several of its IDs to one template of the domain.
OfType(s, type) ==
  {p \in PrivateIds :
     Mapping(s)[p] # 0 /\ TypeOf(Maintainer(s).tmplts[Mapping(s)[p]].rec) = type}

Released(odid, map, ps) ==
  LET uses(i) == Cardinality({p \in ps : map[p] = i}) IN
  [odid EXCEPT
     !.tmplts = [i \in Ids |-> IF uses(i) = 0 THEN odid.tmplts[i]
                               ELSE [odid.tmplts[i] EXCEPT !.ref_cnt = @ - uses(i)]],
     !.to_remove = @ + Cardinality({i \in Stored(odid) :
                        uses(i) > 0 /\ odid.tmplts[i].ref_cnt = uses(i)})]

WithdrawAll(s, type) ==
  /\ Reachable(s)
  /\ Store(s, Released(Maintainer(s), Mapping(s), OfType(s, type)),
           [p \in PrivateIds |-> IF p \in OfType(s, type) THEN 0
                                                         ELSE Mapping(s)[p]])
  /\ Record(TRUE, msg.view)
  /\ defined' = [defined EXCEPT ![s] =
                   [p \in PrivateIds |->
                      IF defined[s][p] # NULL /\ TypeOf(defined[s][p]) = type
                      THEN NULL ELSE defined[s][p]]]
  /\ UNCHANGED decoded

\* A data set the collector has a template for: it goes on under the ID of the
\* mapping, without one it is skipped.
DataSet(s, p) ==
  /\ msg # NULL /\ msg.src = s
  /\ defined[s][p] # NULL
  /\ msg.records < MaxRecords
  /\ LET id == Mapping(s)[p] IN
     msg' = [msg EXCEPT
               !.records = @ + 1,
               !.data = IF id = 0 THEN @
                        ELSE @ \cup {<<defined[s][p], msg.view[id]>>}]
  /\ UNCHANGED <<mapper_vars, known, defined, decoded, messages>>

-----------------------------------------------------------------------------
(***************************************************************************)
(* The end of the message: the withdrawals of templates, then those of     *)
(* options templates, go to its end and it is sent.                        *)
(***************************************************************************)

Withdrawn(view, ids) == [i \in Ids |-> IF i \in ids THEN NULL ELSE view[i]]

Sent(view) ==
  /\ msg' = NULL
  /\ known' = [known EXCEPT ![OdidOf[msg.src]] = view]
  /\ decoded' = msg.data
  /\ UNCHANGED <<defined, messages>>

\* tmplts_odid_remove frees the domain; the sources keep their pointers to it.
RemoveMaintainer(o) ==
  /\ maintainers' = [maintainers EXCEPT ![o] = NULL]
  /\ dangling' = dangling \cup
                   {s \in Sources : OdidOf[s] = o /\ sources[s] # NULL}
  /\ UNCHANGED sources

EndWithoutTemplates ==
  /\ msg # NULL
  /\ ~msg.any_templates
  /\ Sent(msg.view)
  /\ UNCHANGED mapper_vars

EndWithTemplates_TemplatesOnly ==
  LET o      == OdidOf[msg.src]
      first  == WithdrawnIds(maintainers[o], "template")
      odid   == Removed(maintainers[o], first) IN
  /\ msg # NULL
  /\ msg.any_templates
  /\ ~Emptied(maintainers[o], odid)
  /\ maintainers' = [maintainers EXCEPT ![o] = odid]
  /\ UNCHANGED <<sources, dangling>>
  /\ Sent(Withdrawn(msg.view, first))

EndWithTemplates ==
  LET o      == OdidOf[msg.src]
      first  == WithdrawnIds(maintainers[o], "template")
      odid   == Removed(maintainers[o], first)
      second == WithdrawnIds(odid, "options")
      last   == Removed(odid, second) IN
  /\ msg # NULL
  /\ msg.any_templates
  /\ ~Emptied(maintainers[o], odid)
  /\ IF Emptied(odid, last)
     THEN RemoveMaintainer(o)
     ELSE /\ maintainers' = [maintainers EXCEPT ![o] = last]
          /\ UNCHANGED <<sources, dangling>>
  /\ Sent(Withdrawn(msg.view, first \cup second))

\* The withdrawals of templates left the domain empty, so it is removed; those
\* of options templates then fail, and with them the message.
EndFails ==
  LET o == OdidOf[msg.src]
      odid == Removed(maintainers[o], WithdrawnIds(maintainers[o], "template")) IN
  /\ msg # NULL
  /\ msg.any_templates
  /\ Emptied(maintainers[o], odid)
  /\ RemoveMaintainer(o)
  /\ msg' = NULL
  /\ UNCHANGED <<known, defined, decoded, messages>>

Next ==
  \/ \E s \in Sources : StartMessage(s)
  \/ \E s \in Sources, p \in PrivateIds, d \in Definitions :
       \/ RepeatTemplate(s, p, d)
       \/ ShareTemplate(s, p, d)
       \/ NewTemplate(s, p, d)
       \/ RefuseTemplate(s, p, d)
  \/ \E s \in Sources, p \in PrivateIds : WithdrawTemplate(s, p) \/ DataSet(s, p)
  \/ \E s \in Sources, type \in Types : WithdrawAll(s, type)
  \/ EndWithoutTemplates
  \/ EndWithTemplates
  \/ EndFails

Spec == Init /\ [][Next]_vars

-----------------------------------------------------------------------------
(***************************************************************************)
(* Properties.                                                             *)
(***************************************************************************)

\* The types of the variables; above all, no counter of a domain goes below
\* zero, which in the code would make it huge.
TypeOK ==
  /\ maintainers \in [Odids -> Maintainers \cup {NULL}]
  /\ sources \in [Sources -> Mappings \cup {NULL}]
  /\ dangling \subseteq Sources
  /\ known \in [Odids -> Views]
  /\ defined \in [Sources -> [PrivateIds -> Definitions \cup {NULL}]]
  /\ decoded \subseteq Decodings
  /\ messages \in 0..MaxMessages
  /\ msg \in Messages \cup {NULL}

\* Exporters that share a domain are not mixed up: whatever IDs they use for
\* their templates, redefine and withdraw, and in whatever order, data reaches
\* a receiver under an ID that has, for the receiver, the definition the
\* exporter described the data by.
DecodedAsMeant == \A pair \in decoded : pair[1] = pair[2]

Users(o, i) ==
  {u \in Sources \X PrivateIds : OdidOf[u[1]] = o /\ Mapping(u[1])[u[2]] = i}

\* The counters that decide about withdrawals: a template counts the mappings
\* to it, and a domain its templates without mappings (to_remove, which also is
\* the length of the array tmapper_withdraw_ids fills) and those of each type.
CountersAgree ==
  \A o \in Odids : maintainers[o] # NULL =>
    LET odid == maintainers[o] IN
    /\ \A i \in Stored(odid) : odid.tmplts[i].ref_cnt = Cardinality(Users(o, i))
    /\ odid.to_remove =
         Cardinality({i \in Stored(odid) : odid.tmplts[i].ref_cnt = 0})
    /\ odid.templates_normal =
         Cardinality({i \in Stored(odid) : odid.tmplts[i].rec \notin Options})
    /\ odid.templates_options =
         Cardinality({i \in Stored(odid) : odid.tmplts[i].rec \in Options})

Domain(o) ==
  IF maintainers[o] = NULL THEN NoTemplates
  ELSE [i \in Ids |-> IF maintainers[o].tmplts[i] = NULL THEN NULL
                      ELSE maintainers[o].tmplts[i].rec]

Lost(o) == \E s \in dangling : OdidOf[s] = o

\* Between messages a receiver has exactly the templates the mapper has, and
\* but for the last ID these are the templates in use: each was announced once
\* and withdrawn with its last use.  (A domain that was removed while its
\* sources stay is left out, see ReceiverHasTemplatesOfAll.)
ReceiverHasTemplates ==
  msg = NULL =>
    \A o \in Odids : ~Lost(o) =>
      /\ known[o] = Domain(o)
      /\ \A i \in Ids \ {MaxId} : Domain(o)[i] # NULL => Users(o, i) # {}

\* The same of every domain, as the use of the mapper is described in
\* headers/ipfixcol/template_mapper.h.
ReceiverHasTemplatesOfAll ==
  msg = NULL => \A o \in Odids : known[o] = Domain(o)

Resent(o) == UNION {tmapper_get_templates(maintainers[o], t) : t \in Types}

\* A destination that connects later gets, by tmapper_get_templates, every
\* template that data may use, save one with the last ID.
ResentTemplatesComplete ==
  \A s \in Sources \ dangling : \A p \in PrivateIds :
    Mapping(s)[p] \notin {0, MaxId} => Mapping(s)[p] \in Resent(OdidOf[s])

\* The same with the last ID, 65535, that an exporter may use like any other.
ResentTemplatesCompleteToLast ==
  \A s \in Sources \ dangling : \A p \in PrivateIds :
    Mapping(s)[p] # 0 => Mapping(s)[p] \in Resent(OdidOf[s])

\* No source is left with a pointer to a domain that was freed.
SourcesHaveDomain == dangling = {}

=============================================================================
