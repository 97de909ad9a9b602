------------------------ MODULE TemplateManagerProofs ------------------------
(***************************************************************************)
(* Proofs about the Template Manager (module TemplateManager).             *)
(***************************************************************************)
EXTENDS TemplateManager, FiniteSetTheorems, SequenceTheorems, WellFoundedInduction,
        TLAPS

-----------------------------------------------------------------------------
(***************************************************************************)
(* The parts of the inductive invariants.                                  *)
(***************************************************************************)

(* The records and their arrays: for every behaviour. *)

\* The records a walk may pass on the way to r.
Way(ws, r) ==
  /\ ws \subseteq DOMAIN record
  /\ \A x \in ws : x <= r
  /\ \A x \in ws : x < r => record[x].key # record[r].key /\ NextOf(x) \in ws

\* A source has one record in the list, and a walk that began while it was
\* there leads to it.
ListInvariant ==
  /\ \A r, q \in Linked : record[r].key = record[q].key => r = q
  /\ \A r \in DOMAIN record : record[r].next \in {NULL} \cup DOMAIN record
  /\ pre.pc = "lookup" =>
       /\ pre.cur \in {NULL} \cup DOMAIN record
       /\ \A r \in Linked : record[r].key = pre.source =>
            \E ws \in SUBSET DOMAIN record : Way(ws, r) /\ pre.cur \in ws
  /\ pre.pc \in {"add", "update"} => pre.cur \in DOMAIN record /\ pre.item.type = "template"

\* A chain begins with the current version of the template with this ID.
IdAt(r, i) == template[record[r].templates[i][1]].id

\* The search ends early only behind the last template, and an ID has one slot.
SlotsInvariant ==
  /\ \A r \in DOMAIN record : \A i \in DOMAIN record[r].templates :
       \A k \in DOMAIN record[r].templates[i] :
         record[r].templates[i][k] \in DOMAIN template
  /\ \A r \in DOMAIN record : Len(record[r].templates) > 0
  /\ \A r \in DOMAIN record : record[r].counter = Cardinality(Used(r))
  /\ \A r \in DOMAIN record : \A i, j \in Used(r) : IdAt(r, i) = IdAt(r, j) => i = j
  /\ pre.pc = "add" => \A i \in Used(pre.cur) : IdAt(pre.cur, i) # pre.item.id

\* What messages hold is a template.
PointersInvariant ==
  /\ pre.pc \in {"couple", "send"} => pre.cur \in {NULL} \cup DOMAIN template
  /\ \A i \in DOMAIN pipe : pipe[i].template \in {NULL} \cup DOMAIN template
  /\ \A o \in Odids : \A i \in DOMAIN store_queue[o] :
       store_queue[o][i].template \in {NULL} \cup DOMAIN template

RecordInvariant == ListInvariant /\ SlotsInvariant /\ PointersInvariant

-----------------------------------------------------------------------------
(***************************************************************************)
(* Sets of numbers, sequences and the list of records.                     *)
(***************************************************************************)

\* A set of numbers that is not empty has a least one, which is its Min.
LEMMA LeastNumber ==
  ASSUME NEW S \in SUBSET Nat, S # {}
  PROVE  Min(S) \in S /\ \A k \in S : Min(S) <= k
<1>1. PICK m \in S : \A k \in S : ~(<<k, m>> \in OpToRel(<, Nat))
  BY WFMin, NatLessThanWellFounded, Zenon
<1>2. \A k \in S : ~(k < m)
  BY <1>1 DEF OpToRel
<1>3. \A k \in S : m <= k
  BY <1>2
<1> QED
  BY <1>3 DEF Min

LEMMA FirstOfIs ==
  ASSUME NEW S \in SUBSET (Nat \ {0})
  PROVE  /\ FirstOf(S) = NULL <=> S = {}
         /\ S # {} => FirstOf(S) \in S /\ \A k \in S : FirstOf(S) <= k
<1>1. CASE S = {}
  BY <1>1 DEF FirstOf, NULL
<1>2. CASE S # {}
  <2>1. S \in SUBSET Nat
    OBVIOUS
  <2> QED
    BY <1>2, <2>1, LeastNumber DEF FirstOf, NULL
<1> QED
  BY <1>1, <1>2

\* What a queue is after a message was added or taken.
LEMMA Appended ==
  ASSUME NEW X, NEW s \in Seq(X), NEW x \in X
  PROVE  /\ Append(s, x) \in Seq(X)
         /\ DOMAIN Append(s, x) = DOMAIN s \cup {Len(s) + 1}
         /\ DOMAIN s = 1 .. Len(s) /\ Len(s) \in Nat
         /\ Len(Append(s, x)) = Len(s) + 1
         /\ \A i \in DOMAIN s : Append(s, x)[i] = s[i]
         /\ Append(s, x)[Len(s) + 1] = x
OBVIOUS

LEMMA Shortened ==
  ASSUME NEW X, NEW s \in Seq(X), s # <<>>
  PROVE  /\ Tail(s) \in Seq(X)
         /\ DOMAIN s = 1 .. Len(s) /\ Len(s) \in Nat \ {0}
         /\ DOMAIN Tail(s) = 1 .. (Len(s) - 1)
         /\ \A i \in DOMAIN Tail(s) : i + 1 \in DOMAIN s /\ Tail(s)[i] = s[i + 1]
         /\ 1 \in DOMAIN s /\ Head(s) = s[1] /\ Head(s) \in X
OBVIOUS

LEMMA ExceptInSeq ==
  ASSUME NEW X, NEW s \in Seq(X), NEW i, NEW x \in X
  PROVE  /\ [s EXCEPT ![i] = x] \in Seq(X)
         /\ Len([s EXCEPT ![i] = x]) = Len(s)
         /\ DOMAIN [s EXCEPT ![i] = x] = DOMAIN s
         /\ \A j \in DOMAIN s : [s EXCEPT ![i] = x][j] = IF j = i THEN x ELSE s[j]
<1>1. [s EXCEPT ![i] = x] = [j \in DOMAIN s |-> IF j = i THEN x ELSE s[j]]
  OBVIOUS
<1>2. DOMAIN s = 1 .. Len(s) /\ Len(s) \in Nat /\ \A j \in 1 .. Len(s) : s[j] \in X
  OBVIOUS
<1>3. [j \in 1 .. Len(s) |-> IF j = i THEN x ELSE s[j]] \in Seq(X)
  BY <1>2
<1>4. Len([j \in 1 .. Len(s) |-> IF j = i THEN x ELSE s[j]]) = Len(s)
  BY <1>2
<1> QED
  BY <1>1, <1>2, <1>3, <1>4

LEMMA ExceptInArray ==
  ASSUME NEW ts \in Seq(Seq(Nat)), NEW i, NEW x \in Seq(Nat)
  PROVE  /\ [ts EXCEPT ![i] = x] \in Seq(Seq(Nat))
         /\ Len([ts EXCEPT ![i] = x]) = Len(ts)
         /\ DOMAIN [ts EXCEPT ![i] = x] = DOMAIN ts
         /\ \A j \in DOMAIN ts : [ts EXCEPT ![i] = x][j] = IF j = i THEN x ELSE ts[j]
<1>1. PICK X : X = Seq(Nat)
  OBVIOUS
<1>2. ts \in Seq(X) /\ x \in X
  BY <1>1
<1>3. /\ [ts EXCEPT ![i] = x] \in Seq(X)
      /\ Len([ts EXCEPT ![i] = x]) = Len(ts)
      /\ DOMAIN [ts EXCEPT ![i] = x] = DOMAIN ts
      /\ \A j \in DOMAIN ts : [ts EXCEPT ![i] = x][j] = IF j = i THEN x ELSE ts[j]
  BY <1>2, ExceptInSeq
<1> QED
  BY <1>1, <1>3

LEMMA Concatenated ==
  ASSUME NEW X, NEW s \in Seq(X), NEW u \in Seq(X)
  PROVE  /\ s \o u \in Seq(X) /\ Len(s \o u) = Len(s) + Len(u)
         /\ Len(s) \in Nat /\ Len(u) \in Nat
         /\ DOMAIN (s \o u) = 1 .. (Len(s) + Len(u)) /\ DOMAIN s = 1 .. Len(s)
         /\ \A i \in 1 .. Len(s) : (s \o u)[i] = s[i]
         /\ \A i \in (Len(s) + 1) .. (Len(s) + Len(u)) : (s \o u)[i] = u[i - Len(s)]
OBVIOUS

\* The task at hand.
LEMMA TaskType ==
  ASSUME TypeOK, pre.pc # "idle"
  PROVE  /\ pre \in Tasks /\ pre.source \in Sources /\ pre.item \in Items
         /\ pre.status \in {"new", "opened"} /\ pre.cur \in Nat
         /\ pre.item.id \in Ids /\ pre.item.type \in {"template", "withdrawal", "data"}
         /\ pre.item.type = "template" => pre.item.version \in Versions
<1>1. pre \in Tasks
  BY DEF TypeOK, Idle
<1>2. pre.item \in Items
  BY <1>1 DEF Tasks
<1>3. /\ pre.item.id \in Ids /\ pre.item.type \in {"template", "withdrawal", "data"}
      /\ pre.item.type = "template" => pre.item.version \in Versions
  BY <1>2, TemplateAssumption DEF Items
<1> QED
  BY <1>1, <1>2, <1>3 DEF Tasks

LEMMA ManagerOf ==
  ASSUME NEW s \in Sources
  PROVE  OdidOf[s] \in Odids /\ OdidOf[s] \in Nat
BY TemplateAssumption DEF Odids

\* The numbers of the records.
LEMMA RecordNumbers ==
  ASSUME TypeOK
  PROVE  /\ DOMAIN record = 1 .. Len(record) /\ Len(record) \in Nat
         /\ DOMAIN record \subseteq Nat \ {0}
         /\ Linked \subseteq DOMAIN record /\ Linked \subseteq Nat \ {0}
         /\ \A r \in DOMAIN record : record[r] \in Record
BY DEF TypeOK, Linked

LEMMA TemplateNumbers ==
  ASSUME TypeOK
  PROVE  /\ DOMAIN template = 1 .. Len(template) /\ Len(template) \in Nat
         /\ DOMAIN template \subseteq Nat \ {0} /\ NULL \notin DOMAIN template
         /\ \A t \in DOMAIN template : template[t] \in Template
BY DEF TypeOK, NULL

LEMMA LookupIs ==
  ASSUME TypeOK, NEW s
  PROVE  /\ tm_record_lookup(s) = NULL <=> \A r \in Linked : record[r].key # s
         /\ tm_record_lookup(s) # NULL => /\ tm_record_lookup(s) \in Linked
                                          /\ record[tm_record_lookup(s)].key = s
<1> DEFINE S == {r \in Linked : record[r].key = s}
<1>1. S \in SUBSET (Nat \ {0})
  BY RecordNumbers
<1>2. tm_record_lookup(s) = FirstOf(S)
  BY DEF tm_record_lookup
<1> QED
  BY <1>1, <1>2, FirstOfIs

LEMMA NextOfIs ==
  ASSUME TypeOK, NEW r \in Linked
  PROVE  /\ NextOf(r) = NULL <=> \A q \in Linked : ~(q > r)
         /\ NextOf(r) # NULL =>
              NextOf(r) \in Linked /\ NextOf(r) > r /\ \A q \in Linked : q > r => NextOf(r) <= q
<1> DEFINE S == {q \in Linked : q > r}
<1>1. S \in SUBSET (Nat \ {0})
  BY RecordNumbers
<1>2. NextOf(r) = FirstOf(S)
  BY DEF NextOf, Linked
<1> QED
  BY <1>1, <1>2, FirstOfIs

LEMMA TheFirst ==
  ASSUME TypeOK
  PROVE  /\ first = NULL <=> Linked = {}
         /\ first # NULL => first \in Linked /\ \A q \in Linked : first <= q
BY RecordNumbers, FirstOfIs DEF first

-----------------------------------------------------------------------------
(***************************************************************************)
(* Types and records: the invariant of every behaviour.                    *)
(***************************************************************************)

BaseInvariant == TypeOK /\ RecordInvariant

LEMMA InitBase == Init => BaseInvariant
<1> SUFFICES ASSUME Init PROVE BaseInvariant
  OBVIOUS
<1>1. TypeOK
  BY TemplateAssumption DEF Init, TypeOK, Idle, NULL, Odids
<1>2. ListInvariant
  BY DEF Init, ListInvariant, Linked, Idle
<1>3. SlotsInvariant
  BY DEF Init, SlotsInvariant, Idle
<1>4. PointersInvariant
  BY DEF Init, PointersInvariant, Idle
<1> QED
  BY <1>1, <1>2, <1>3, <1>4 DEF BaseInvariant, RecordInvariant

\* The list of records, when only other fields of records change.
ListUnchanged ==
  /\ DOMAIN record' = DOMAIN record /\ freed_records' = freed_records
  /\ \A r \in DOMAIN record : record'[r].key = record[r].key /\ record'[r].next = record[r].next

LEMMA ListFrame ==
  ASSUME TypeOK, ListUnchanged
  PROVE  /\ Linked' = Linked /\ first' = first
         /\ \A x \in DOMAIN record : NextOf(x)' = NextOf(x)
         /\ \A r \in DOMAIN record : \A ws \in SUBSET DOMAIN record :
              Way(ws, r) => Way(ws, r)'
<1>1. Linked' = Linked
  BY DEF ListUnchanged, Linked
<1>2. first' = first
  BY <1>1 DEF first, FirstOf
<1>3. ASSUME NEW x \in DOMAIN record PROVE NextOf(x)' = NextOf(x)
  BY <1>1, <1>3 DEF ListUnchanged, NextOf, FirstOf
<1>4. ASSUME NEW r \in DOMAIN record, NEW ws \in SUBSET DOMAIN record, Way(ws, r)
      PROVE  Way(ws, r)'
  <2>1. ASSUME NEW x \in ws, x < r PROVE record'[x].key # record'[r].key /\ NextOf(x)' \in ws
    BY <1>3, <1>4, <2>1 DEF Way, ListUnchanged
  <2> QED
    BY <1>4, <2>1 DEF Way, ListUnchanged
<1> QED
  BY <1>1, <1>2, <1>3, <1>4

\* A walk that stays where it is, or does not look for a record.
LEMMA ListKept ==
  ASSUME TypeOK, ListInvariant, ListUnchanged,
         pre'.pc = "lookup" => pre' = pre,
         pre'.pc \in {"add", "update"} => pre' = pre
  PROVE  ListInvariant'
<1>1. Linked' = Linked /\ Linked \subseteq DOMAIN record
  BY ListFrame, RecordNumbers
<1>2. \A r, q \in Linked' : record'[r].key = record'[q].key => r = q
  BY <1>1 DEF ListInvariant, ListUnchanged
<1>3. \A r \in DOMAIN record' : record'[r].next \in {NULL} \cup DOMAIN record'
  BY DEF ListInvariant, ListUnchanged
<1>4. ASSUME pre'.pc = "lookup", NEW r \in Linked', record'[r].key = pre'.source
      PROVE  \E ws \in SUBSET DOMAIN record' : Way(ws, r)' /\ pre'.cur \in ws
  <2>1. r \in Linked /\ record[r].key = pre.source /\ pre.pc = "lookup" /\ pre' = pre
    BY <1>1, <1>4 DEF ListUnchanged
  <2>2. PICK ws \in SUBSET DOMAIN record : Way(ws, r) /\ pre.cur \in ws
    BY <2>1 DEF ListInvariant
  <2>3. Way(ws, r)'
    BY <1>1, <2>1, <2>2, ListFrame
  <2> QED
    BY <2>1, <2>2, <2>3 DEF ListUnchanged
<1>5. pre'.pc = "lookup" => pre'.cur \in {NULL} \cup DOMAIN record'
  BY DEF ListInvariant, ListUnchanged
<1>6. pre'.pc \in {"add", "update"} => pre'.cur \in DOMAIN record' /\ pre'.item.type = "template"
  BY DEF ListInvariant, ListUnchanged
<1> QED
  BY <1>2, <1>3, <1>4, <1>5, <1>6 DEF ListInvariant

\* A walk that begins at the first record.
LEMMA WayFromFirst ==
  ASSUME TypeOK, ListInvariant, NEW r \in Linked
  PROVE  \E ws \in SUBSET DOMAIN record : Way(ws, r) /\ first \in ws
<1> DEFINE ws == {x \in Linked : x <= r}
<1>1. Linked \subseteq DOMAIN record /\ Linked \subseteq Nat
  BY RecordNumbers
<1>2. first \in ws
  BY TheFirst DEF NULL
<1>3. ASSUME NEW x \in ws, x < r PROVE record[x].key # record[r].key /\ NextOf(x) \in ws
  <2>1. x \in Linked /\ x # r /\ x \in Nat /\ r \in Nat
    BY <1>1, <1>3
  <2>2. record[x].key # record[r].key
    BY <2>1 DEF ListInvariant
  <2>3. NextOf(x) # NULL
    BY <1>3, <2>1, NextOfIs
  <2> QED
    BY <1>3, <2>1, <2>2, <2>3, NextOfIs
<1>4. Way(ws, r)
  BY <1>1, <1>3 DEF Way
<1> QED
  BY <1>1, <1>2, <1>4

LEMMA ListBegun ==
  ASSUME TypeOK, ListInvariant, ListUnchanged, pre'.pc = "lookup", pre'.cur = first
  PROVE  ListInvariant'
<1>1. Linked' = Linked /\ Linked \subseteq DOMAIN record
  BY ListFrame, RecordNumbers
<1>2. \A r, q \in Linked' : record'[r].key = record'[q].key => r = q
  BY <1>1 DEF ListInvariant, ListUnchanged
<1>3. \A r \in DOMAIN record' : record'[r].next \in {NULL} \cup DOMAIN record'
  BY DEF ListInvariant, ListUnchanged
<1>4. ASSUME NEW r \in Linked'
      PROVE  \E ws \in SUBSET DOMAIN record' : Way(ws, r)' /\ pre'.cur \in ws
  <2>1. PICK ws \in SUBSET DOMAIN record : Way(ws, r) /\ first \in ws
    BY <1>1, WayFromFirst
  <2>2. Way(ws, r)'
    BY <1>1, <2>1, ListFrame
  <2> QED
    BY <2>1, <2>2 DEF ListUnchanged
<1>5. pre'.cur \in {NULL} \cup DOMAIN record'
  BY <1>1, TheFirst DEF ListUnchanged
<1> QED
  BY <1>2, <1>3, <1>4, <1>5 DEF ListInvariant

\* The arrays of templates, when no template is added or taken away.
SlotsUnchanged ==
  /\ DOMAIN record' = DOMAIN record /\ DOMAIN template' = DOMAIN template
  /\ \A r \in DOMAIN record : /\ record'[r].templates = record[r].templates
                              /\ record'[r].counter = record[r].counter
  /\ \A t \in DOMAIN template : template'[t].id = template[t].id

LEMMA HeadAllocated ==
  ASSUME TypeOK, SlotsInvariant, NEW r \in DOMAIN record, NEW i \in Used(r)
  PROVE  /\ i \in DOMAIN record[r].templates /\ i \in Nat
         /\ record[r].templates[i] \in Seq(Nat) /\ Len(record[r].templates[i]) > 0
         /\ record[r].templates[i] # <<>>
         /\ 1 \in DOMAIN record[r].templates[i]
         /\ record[r].templates[i][1] \in DOMAIN template
<1>1. record[r].templates \in Seq(Seq(Nat))
  BY RecordNumbers DEF Record
<1>2. i \in DOMAIN record[r].templates /\ record[r].templates[i] # <<>>
  BY DEF Used, Hole
<1>3. record[r].templates[i] \in Seq(Nat) /\ i \in Nat
  BY <1>1, <1>2
<1>4. 1 \in DOMAIN record[r].templates[i] /\ Len(record[r].templates[i]) > 0
  BY <1>2, <1>3
<1> QED
  BY <1>2, <1>3, <1>4 DEF SlotsInvariant

LEMMA SlotsFrame ==
  ASSUME TypeOK, SlotsInvariant, SlotsUnchanged
  PROVE  \A r \in DOMAIN record :
           Used(r)' = Used(r) /\ \A i \in Used(r) : IdAt(r, i)' = IdAt(r, i)
<1> SUFFICES ASSUME NEW r \in DOMAIN record
             PROVE  Used(r)' = Used(r) /\ \A i \in Used(r) : IdAt(r, i)' = IdAt(r, i)
  OBVIOUS
<1>1. Used(r)' = Used(r)
  BY DEF Used, SlotsUnchanged
<1>2. ASSUME NEW i \in Used(r) PROVE IdAt(r, i)' = IdAt(r, i)
  BY HeadAllocated DEF IdAt, SlotsUnchanged
<1> QED
  BY <1>1, <1>2

LEMMA SlotsKept ==
  ASSUME TypeOK, ListInvariant, SlotsInvariant, SlotsUnchanged, pre'.pc = "add" => pre' = pre
  PROVE  SlotsInvariant'
<1>1. \A r \in DOMAIN record :
         Used(r)' = Used(r) /\ \A i \in Used(r) : IdAt(r, i)' = IdAt(r, i)
  BY SlotsFrame
<1>2. \A r \in DOMAIN record' : \A i \in DOMAIN record'[r].templates :
        \A k \in DOMAIN record'[r].templates[i] :
          record'[r].templates[i][k] \in DOMAIN template'
  BY DEF SlotsInvariant, SlotsUnchanged
<1>3. /\ \A r \in DOMAIN record' : Len(record'[r].templates) > 0
      /\ \A r \in DOMAIN record' : record'[r].counter = Cardinality(Used(r)')
  BY <1>1 DEF SlotsInvariant, SlotsUnchanged
<1>4. \A r \in DOMAIN record' : \A i, j \in Used(r)' : IdAt(r, i)' = IdAt(r, j)' => i = j
  BY <1>1 DEF SlotsInvariant, SlotsUnchanged
<1>5. ASSUME pre'.pc = "add" PROVE \A i \in Used(pre.cur)' : IdAt(pre.cur, i)' # pre'.item.id
  <2>1. pre' = pre /\ pre.pc = "add" /\ pre.cur \in DOMAIN record
    BY <1>5 DEF ListInvariant
  <2> DEFINE c == pre.cur
  <2>2. \A i \in Used(c) : IdAt(c, i) # pre.item.id
    BY <2>1 DEF SlotsInvariant
  <2>3. Used(pre.cur)' = Used(c) /\ \A i \in Used(c) : IdAt(pre.cur, i)' = IdAt(c, i)
    BY <1>1, <2>1 DEF Used, IdAt
  <2> QED
    BY <2>1, <2>2, <2>3
<1> QED
  BY <1>2, <1>3, <1>4, <1>5 DEF SlotsInvariant


\* Pointers to templates, when only templates are added.
LEMMA PointersKept ==
  ASSUME PointersInvariant, DOMAIN template \subseteq DOMAIN template',
         pipe' = pipe, store_queue' = store_queue,
         pre'.pc \in {"couple", "send"} => pre'.cur \in {NULL} \cup DOMAIN template'
  PROVE  PointersInvariant'
BY DEF PointersInvariant

LEMMA ItemType ==
  ASSUME NEW item \in Items
  PROVE  /\ item.id \in Ids
         /\ item.type \in {"template", "withdrawal", "data"}
         /\ item.type = "template" => item.version \in Versions
BY TemplateAssumption DEF Items

LEMMA DescribedType ==
  ASSUME NEW item \in Items, NEW known \in [Ids -> Versions \cup {Unsent}]
  PROVE  Described(known, item) \in [Ids -> Versions \cup {Unsent}]
BY ItemType DEF Described

LEMMA ReceiveNewBase ==
  ASSUME BaseInvariant, NEW s \in Sources, NEW item \in Items, ReceiveNew(s, item)
  PROVE  BaseInvariant'
<1> USE DEF BaseInvariant, RecordInvariant
<1>1. pre' \in Tasks /\ pre'.pc = "register"
  BY DEF ReceiveNew, Tasks, NULL
<1>2. sent' \in [Sources -> [Ids -> Versions \cup {Unsent}]]
  <2>1. [i \in Ids |-> Unsent] \in [Ids -> Versions \cup {Unsent}]
    OBVIOUS
  <2> QED
    BY <2>1, DescribedType DEF ReceiveNew, TypeOK
<1>3. TypeOK'
  <2>1. session' \in [Sources -> 0 .. MaxSessions] /\ packets' \in 0 .. MaxPackets
    BY TemplateAssumption DEF TypeOK, ReceiveNew
  <2>2. connected' \in [Sources -> BOOLEAN]
    BY Zenon DEF TypeOK, ReceiveNew
  <2> QED
    BY <1>1, <1>2, <2>1, <2>2 DEF TypeOK, history, ReceiveNew, manager_vars, output_vars
<1>4. ListInvariant'
  <2>1. ListUnchanged
    BY DEF ReceiveNew, manager_vars, ListUnchanged
  <2> QED
    BY <1>1, <2>1, ListKept
<1>5. SlotsInvariant'
  <2>1. SlotsUnchanged
    BY DEF ReceiveNew, manager_vars, SlotsUnchanged
  <2> QED
    BY <1>1, <2>1, SlotsKept
<1>6. PointersInvariant'
  BY <1>1, PointersKept DEF ReceiveNew, manager_vars, output_vars
<1> QED
  BY <1>3, <1>4, <1>5, <1>6

LEMMA ReceivePacketBase ==
  ASSUME BaseInvariant, NEW s \in Sources, NEW item \in Items, ReceivePacket(s, item)
  PROVE  BaseInvariant'
<1> USE DEF BaseInvariant, RecordInvariant
<1>1. pre' \in Tasks /\ pre'.pc = "lookup" /\ pre'.cur = first
  <2>1. first \in Nat
    BY TheFirst, RecordNumbers DEF NULL
  <2> QED
    BY <2>1 DEF ReceivePacket, Tasks
<1>2. sent' \in [Sources -> [Ids -> Versions \cup {Unsent}]]
  BY DescribedType DEF ReceivePacket, TypeOK
<1>3. TypeOK'
  BY <1>1, <1>2, TemplateAssumption DEF TypeOK, history, ReceivePacket, manager_vars, output_vars
<1>4. ListInvariant'
  <2>1. ListUnchanged
    BY DEF ReceivePacket, manager_vars, ListUnchanged
  <2> QED
    BY <1>1, <2>1, ListBegun
<1>5. SlotsInvariant'
  <2>1. SlotsUnchanged
    BY DEF ReceivePacket, manager_vars, SlotsUnchanged
  <2> QED
    BY <1>1, <2>1, SlotsKept
<1>6. PointersInvariant'
  BY <1>1, PointersKept DEF ReceivePacket, manager_vars, output_vars
<1> QED
  BY <1>3, <1>4, <1>5, <1>6

LEMMA ReceiveClosedBase ==
  ASSUME BaseInvariant, NEW s \in Sources, ReceiveClosed(s)
  PROVE  BaseInvariant'
<1> USE DEF BaseInvariant, RecordInvariant
<1> DEFINE m == [status |-> "closed", source |-> s, type |-> "none",
                 template |-> NULL, described |-> Unsent]
<1>1. m \in Message
  BY DEF Message, NULL
<1>2. pipe \in Seq(Message) /\ pipe' = Append(pipe, m)
  BY DEF ReceiveClosed, TypeOK
<1>3. TypeOK'
  <2>1. pipe' \in Seq(Message)
    BY <1>1, <1>2
  <2> QED
    BY <2>1 DEF TypeOK, history, ReceiveClosed, manager_vars, output_vars
<1>4. ListInvariant'
  <2>1. ListUnchanged
    BY DEF ReceiveClosed, manager_vars, ListUnchanged
  <2> QED
    BY <2>1, ListKept DEF ReceiveClosed
<1>5. SlotsInvariant'
  <2>1. SlotsUnchanged
    BY DEF ReceiveClosed, manager_vars, SlotsUnchanged
  <2> QED
    BY <2>1, SlotsKept DEF ReceiveClosed
<1>6. PointersInvariant'
  <2>1. \A i \in DOMAIN pipe' : pipe'[i].template \in {NULL} \cup DOMAIN template
    BY <1>1, <1>2, Appended DEF PointersInvariant
  <2> QED
    BY <2>1 DEF PointersInvariant, ReceiveClosed, manager_vars, output_vars
<1> QED
  BY <1>3, <1>4, <1>5, <1>6


\* The walk goes on behind the record it stands on.
LEMMA WalkBase ==
  ASSUME BaseInvariant, Walk
  PROVE  BaseInvariant'
<1> USE DEF BaseInvariant, RecordInvariant
<1>1. /\ pre \in Tasks /\ pre.pc = "lookup" /\ pre.cur \in DOMAIN record
      /\ record[pre.cur].key # pre.source
  BY TaskType DEF Walk, ListInvariant
<1> DEFINE c == pre.cur
<1>2. NextOf(c) \in {NULL} \cup DOMAIN record
  <2>1. CASE c \in freed_records
    BY <1>1, <2>1 DEF NextOf, ListInvariant
  <2>2. CASE c \in Linked
    BY <2>2, NextOfIs, RecordNumbers
  <2> QED
    BY <1>1, <2>1, <2>2 DEF Linked
<1>3. pre' = [pre EXCEPT !.cur = NextOf(c)]
  BY DEF Walk
<1>4. pre' \in Tasks /\ pre'.pc = "lookup" /\ pre'.cur = NextOf(c) /\ pre'.source = pre.source
  <2>1. NextOf(c) \in Nat
    BY <1>2, RecordNumbers DEF NULL
  <2> HIDE DEF c
  <2> QED
    BY <1>1, <1>3, <2>1 DEF Tasks
<1>5. TypeOK'
  BY <1>4 DEF TypeOK, history, Walk, manager_vars, output_vars, exporter_vars
<1>6. ListUnchanged /\ SlotsUnchanged
  BY DEF Walk, manager_vars, ListUnchanged, SlotsUnchanged
<1>7. ListInvariant'
  <2>1. Linked' = Linked /\ Linked \subseteq DOMAIN record /\ Linked \subseteq Nat
    BY <1>6, ListFrame, RecordNumbers
  <2>2. ASSUME NEW r \in Linked', record'[r].key = pre'.source
        PROVE  \E ws \in SUBSET DOMAIN record' : Way(ws, r)' /\ pre'.cur \in ws
    <3>1. r \in Linked /\ record[r].key = pre.source
      BY <1>4, <2>1, <2>2 DEF Walk, manager_vars
    <3>2. PICK ws \in SUBSET DOMAIN record : Way(ws, r) /\ c \in ws
      BY <1>1, <3>1 DEF ListInvariant
    <3>3. c < r
      <4>1. c <= r /\ c # r /\ c \in Nat /\ r \in Nat
        BY <1>1, <2>1, <3>1, <3>2, RecordNumbers DEF Way
      <4> QED
        BY <4>1
    <3>4. NextOf(c) \in ws
      BY <3>2, <3>3 DEF Way
    <3>5. Way(ws, r)'
      BY <1>6, <2>1, <3>1, <3>2, ListFrame
    <3> QED
      BY <1>4, <3>4, <3>5 DEF Walk, manager_vars
  <2>3. /\ \A r, q \in Linked' : record'[r].key = record'[q].key => r = q
        /\ \A r \in DOMAIN record' : record'[r].next \in {NULL} \cup DOMAIN record'
    BY <2>1 DEF ListInvariant, Walk, manager_vars
  <2>4. pre'.cur \in {NULL} \cup DOMAIN record'
    BY <1>2, <1>4 DEF Walk, manager_vars
  <2> QED
    BY <1>4, <2>2, <2>3, <2>4 DEF ListInvariant
<1>8. SlotsInvariant'
  BY <1>4, <1>6, SlotsKept
<1>9. PointersInvariant'
  BY <1>4, PointersKept DEF Walk, manager_vars, output_vars
<1> QED
  BY <1>5, <1>7, <1>8, <1>9

\* What the search of a record finds is in the array of the record.
LEMMA FoundIs ==
  ASSUME TypeOK, SlotsInvariant, NEW r \in DOMAIN record, NEW id
  PROVE  /\ Found(r, id) = {i \in Used(r) : IdAt(r, i) = id}
         /\ Found(r, id) # {} => /\ SlotOf(r, id) \in Used(r)
                                 /\ IdAt(r, SlotOf(r, id)) = id
         /\ tm_record_get_template(r, id) = NULL <=> \A i \in Used(r) : IdAt(r, i) # id
         /\ tm_record_get_template(r, id) # NULL =>
              /\ Found(r, id) # {}
              /\ tm_record_get_template(r, id) = record[r].templates[SlotOf(r, id)][1]
              /\ tm_record_get_template(r, id) \in DOMAIN template
<1> DEFINE U == Used(r)
<1>1. record[r].templates \in Seq(Seq(Nat)) /\ record[r].counter = Cardinality(U)
  BY RecordNumbers DEF Record, SlotsInvariant
<1>2. /\ U \subseteq 1 .. Len(record[r].templates) /\ Len(record[r].templates) \in Nat
      /\ U \subseteq Nat
  BY <1>1 DEF Used
<1>3. IsFiniteSet(U) /\ Cardinality(U) \in Nat
  <2>1. IsFiniteSet(1 .. Len(record[r].templates))
    BY <1>2, FS_Interval
  <2> QED
    BY <1>2, <2>1, FS_Subset, FS_CardinalityType
<1>4. ASSUME NEW i \in U PROVE Cardinality({j \in U : j < i}) < record[r].counter
  <2> DEFINE B == {j \in U : j < i}
  <2>1. B \subseteq U /\ i \notin B
    BY <1>2
  <2>2. IsFiniteSet(B) /\ Cardinality(B) \in Nat
    BY <1>3, <2>1, FS_Subset, FS_CardinalityType
  <2>3. Cardinality(B) <= Cardinality(U) /\ (Cardinality(B) = Cardinality(U) => B = U)
    BY <1>3, <2>1, FS_Subset
  <2>4. Cardinality(B) # Cardinality(U)
    BY <1>4, <2>1, <2>3
  <2> QED
    BY <1>1, <1>3, <2>2, <2>3, <2>4
<1>5. Found(r, id) = {i \in U : IdAt(r, i) = id}
  BY <1>4 DEF Found, IdAt
<1>6. ASSUME Found(r, id) # {} PROVE SlotOf(r, id) \in Found(r, id)
  <2>1. Found(r, id) \in SUBSET Nat
    BY <1>2, <1>5
  <2>2. PICK i \in Found(r, id) : \A j \in Found(r, id) : i <= j
    BY <1>6, <2>1, LeastNumber
  <2> QED
    BY <2>2 DEF SlotOf
<1>7. ASSUME Found(r, id) # {}
      PROVE  /\ record[r].templates[SlotOf(r, id)][1] \in DOMAIN template
             /\ record[r].templates[SlotOf(r, id)][1] # NULL
  <2>1. record[r].templates[SlotOf(r, id)][1] \in DOMAIN template
    BY <1>5, <1>6, <1>7, HeadAllocated
  <2>2. NULL \notin DOMAIN template
    BY DEF TypeOK, NULL
  <2> QED
    BY <2>1, <2>2
<1>8. r # NULL
  BY RecordNumbers DEF NULL
<1> HIDE DEF U
<1>9. tm_record_get_template(r, id) =
        IF Found(r, id) = {} THEN NULL ELSE record[r].templates[SlotOf(r, id)][1]
  BY <1>8 DEF tm_record_get_template
<1> QED
  BY <1>5, <1>6, <1>7, <1>9 DEF U


LEMMA NewRecordIs ==
  ASSUME NEW s \in Sources
  PROVE  /\ NewRecord(s) \in Record /\ NewRecord(s).key = s /\ NewRecord(s).next = NULL
         /\ NewRecord(s).registrations = 0 /\ NewRecord(s).counter = 0
         /\ Len(NewRecord(s).templates) > 0
         /\ \A i \in DOMAIN NewRecord(s).templates : NewRecord(s).templates[i] = <<>>
<1> DEFINE ts == [i \in 1 .. InitialLength |-> Hole]
<1>1. InitialLength \in Nat /\ InitialLength > 0
  BY TemplateAssumption
<1>2. <<>> \in Seq(Nat)
  OBVIOUS
<1>3. /\ ts \in Seq(Seq(Nat)) /\ Len(ts) = InitialLength
      /\ \A i \in DOMAIN ts : ts[i] = <<>>
  BY <1>1, <1>2 DEF Hole
<1> HIDE DEF ts
<1>4. NewRecord(s) = [key |-> s, templates |-> ts, counter |-> 0, registrations |-> 0,
                      next |-> NULL]
  BY DEF NewRecord, ts
<1> QED
  BY <1>1, <1>3, <1>4 DEF Record, NULL

\* The list after a record was found or added.
LEMMA InsertedIs ==
  ASSUME TypeOK, ListInvariant, NEW s \in Sources, tm_record_lookup_insert(s),
         freed_records' = freed_records
  PROVE  /\ record' \in Seq(Record) /\ DOMAIN record \subseteq DOMAIN record'
         /\ \A r \in DOMAIN record : record'[r] = record[r]
         /\ LookupInserted(s) \in Linked' /\ record'[LookupInserted(s)].key = s
         /\ Linked' = Linked \cup {LookupInserted(s)}
         /\ DOMAIN record' = DOMAIN record \cup {LookupInserted(s)}
         /\ \A r, q \in Linked' : record'[r].key = record'[q].key => r = q
         /\ LookupInserted(s) \notin DOMAIN record =>
              /\ record'[LookupInserted(s)] = NewRecord(s)
              /\ \A r \in Linked : record[r].key # s
<1>1. CASE tm_record_lookup(s) # NULL
  <2>1. record' = record /\ LookupInserted(s) = tm_record_lookup(s)
    BY <1>1 DEF tm_record_lookup_insert, LookupInserted
  <2>2. Linked' = Linked
    BY <2>1 DEF Linked
  <2> QED
    <3>1. tm_record_lookup(s) \in Linked /\ record[tm_record_lookup(s)].key = s
      BY <1>1, LookupIs
    <3>2. \A r, q \in Linked : record[r].key = record[q].key => r = q
      BY DEF ListInvariant
    <3>3. record \in Seq(Record) /\ Linked \subseteq DOMAIN record
      BY RecordNumbers DEF TypeOK
    <3> QED
      BY <2>1, <2>2, <3>1, <3>2, <3>3
<1>2. CASE tm_record_lookup(s) = NULL
  <2> DEFINE n == Len(record) + 1
  <2>1. record' = Append(record, NewRecord(s)) /\ LookupInserted(s) = n
    BY <1>2 DEF tm_record_lookup_insert, LookupInserted
  <2>2. /\ record' \in Seq(Record) /\ DOMAIN record' = DOMAIN record \cup {n}
        /\ \A r \in DOMAIN record : record'[r] = record[r]
        /\ record'[n] = NewRecord(s)
        /\ n \notin DOMAIN record
    BY <2>1, NewRecordIs, Appended DEF TypeOK
  <2>3. Linked' = Linked \cup {n}
    BY <2>2 DEF Linked, TypeOK
  <2>4. \A r \in Linked : record[r].key # s
    BY <1>2, LookupIs
  <2>5. ASSUME NEW r \in Linked', NEW q \in Linked', record'[r].key = record'[q].key
        PROVE  r = q
    BY <2>2, <2>3, <2>4, <2>5, NewRecordIs, RecordNumbers DEF ListInvariant
  <2> QED
    BY <2>1, <2>2, <2>3, <2>4, <2>5, NewRecordIs
<1> QED
  BY <1>1, <1>2

LEMMA InsertedBase ==
  ASSUME BaseInvariant, NEW s \in Sources, tm_record_lookup_insert(s),
         UNCHANGED <<freed_records, template>>,
         pre'.pc # "lookup",
         pre'.pc \in {"add", "update"} =>
           pre'.cur = LookupInserted(s) /\ pre'.item.type = "template",
         pre'.pc = "add" /\ LookupInserted(s) \in DOMAIN record =>
           \A i \in Used(LookupInserted(s)) : IdAt(LookupInserted(s), i) # pre'.item.id
  PROVE  ListInvariant' /\ SlotsInvariant'
<1> USE DEF BaseInvariant, RecordInvariant
<1>0. PICK l : l = LookupInserted(s)
  OBVIOUS
<1>1. /\ DOMAIN record' = DOMAIN record \cup {l}
      /\ \A r \in DOMAIN record : record'[r] = record[r]
      /\ \A r, q \in Linked' : record'[r].key = record'[q].key => r = q
      /\ l \notin DOMAIN record => record'[l] = NewRecord(s)
  BY <1>0, InsertedIs
<1>2. ListInvariant'
  <2>1. ASSUME NEW r \in DOMAIN record' PROVE record'[r].next \in {NULL} \cup DOMAIN record'
    BY <1>1, NewRecordIs DEF ListInvariant
  <2>2. pre'.pc \in {"add", "update"} =>
          pre'.cur \in DOMAIN record' /\ pre'.item.type = "template"
    BY <1>0, <1>1
  <2> QED
    BY <1>1, <2>1, <2>2 DEF ListInvariant
<1>3. \A r \in DOMAIN record : Used(r)' = Used(r) /\ \A i \in Used(r) : IdAt(r, i)' = IdAt(r, i)
  BY <1>1 DEF Used, IdAt
<1>4. \A r \in DOMAIN record' : r \notin DOMAIN record => Used(r)' = {}
  BY <1>1, NewRecordIs DEF Used, Hole
<1>5. SlotsInvariant'
  <2>1. ASSUME NEW r \in DOMAIN record', NEW i \in DOMAIN record'[r].templates,
               NEW k \in DOMAIN record'[r].templates[i]
        PROVE  record'[r].templates[i][k] \in DOMAIN template'
    <3>1. CASE r \in DOMAIN record
      BY <1>1, <2>1, <3>1 DEF SlotsInvariant
    <3>2. CASE r \notin DOMAIN record
      <4>1. record'[r].templates[i] = <<>>
        BY <1>1, <2>1, <3>2, NewRecordIs
      <4> QED
        BY <2>1, <4>1
    <3> QED
      BY <3>1, <3>2
  <2>2. \A r \in DOMAIN record' : Len(record'[r].templates) > 0
    BY <1>1, NewRecordIs DEF SlotsInvariant
  <2>3. ASSUME NEW r \in DOMAIN record' PROVE record'[r].counter = Cardinality(Used(r)')
    <3>1. CASE r \in DOMAIN record
      BY <1>1, <1>3, <3>1 DEF SlotsInvariant
    <3>2. CASE r \notin DOMAIN record
      <4>1. Used(r)' = {}
        BY <1>4, <3>2
      <4>2. record'[r].counter = 0
        BY <1>1, <3>2, NewRecordIs
      <4> QED
        BY <4>1, <4>2, FS_EmptySet
    <3> QED
      BY <3>1, <3>2
  <2>4. ASSUME NEW r \in DOMAIN record', NEW i \in Used(r)', NEW j \in Used(r)',
               IdAt(r, i)' = IdAt(r, j)'
        PROVE  i = j
    BY <1>1, <1>3, <1>4, <2>4 DEF SlotsInvariant
  <2>5. ASSUME pre'.pc = "add", NEW i \in Used(pre.cur)' PROVE IdAt(pre.cur, i)' # pre'.item.id
    <3>1. Used(pre.cur)' = Used(l)' /\ IdAt(pre.cur, i)' = IdAt(l, i)'
      BY <1>0, <2>5 DEF Used, IdAt
    <3>2. l \in DOMAIN record
      BY <1>1, <1>4, <2>5, <3>1
    <3> QED
      BY <1>0, <1>3, <2>5, <3>1, <3>2
  <2> QED
    BY <2>1, <2>2, <2>3, <2>4, <2>5 DEF SlotsInvariant
<1> QED
  BY <1>2, <1>5


LEMMA RegisterBase ==
  ASSUME BaseInvariant, Register
  PROVE  BaseInvariant'
<1> USE DEF BaseInvariant, RecordInvariant
<1>1. pre \in Tasks /\ pre.source \in Sources
  BY TaskType DEF Register
<1>2. pre' \in Tasks /\ pre'.pc = "count"
  BY <1>1 DEF Register, Tasks
<1>3. tm_record_lookup_insert(pre.source) /\ UNCHANGED <<freed_records, template>>
  BY DEF Register
<1>4. ListInvariant' /\ SlotsInvariant'
  BY <1>1, <1>2, <1>3, InsertedBase
<1>5. TypeOK'
  <2>1. record' \in Seq(Record) /\ DOMAIN record \subseteq DOMAIN record'
    BY <1>1, <1>3, InsertedIs
  <2> QED
    BY <1>2, <2>1 DEF TypeOK, history, Register, output_vars, exporter_vars
<1>6. PointersInvariant'
  BY <1>2, PointersKept DEF Register, output_vars
<1> QED
  BY <1>4, <1>5, <1>6

\* Only the registrations of one record may change.
RegistrationsOnly ==
  /\ record' \in Seq(Record) /\ DOMAIN record' = DOMAIN record
  /\ \A r \in DOMAIN record :
       /\ record'[r].key = record[r].key /\ record'[r].next = record[r].next
       /\ record'[r].templates = record[r].templates
       /\ record'[r].counter = record[r].counter

LEMMA RegistrationsSet ==
  ASSUME TypeOK, NEW l \in DOMAIN record, NEW n \in Nat,
         record' = [record EXCEPT ![l] = [record[l] EXCEPT !.registrations = n]]
  PROVE  /\ RegistrationsOnly
         /\ record'[l].registrations = n
         /\ \A r \in DOMAIN record : r # l => record'[r] = record[r]
<1>1. PICK rec : rec = [record[l] EXCEPT !.registrations = n]
  OBVIOUS
<1>2. /\ rec \in Record /\ rec.key = record[l].key /\ rec.next = record[l].next
      /\ rec.templates = record[l].templates /\ rec.counter = record[l].counter
      /\ rec.registrations = n
  BY <1>1, RecordNumbers DEF Record
<1>3. record' = [record EXCEPT ![l] = rec] /\ record \in Seq(Record)
  BY <1>1 DEF TypeOK
<1>4. /\ record' \in Seq(Record) /\ DOMAIN record' = DOMAIN record
      /\ \A r \in DOMAIN record : record'[r] = IF r = l THEN rec ELSE record[r]
  BY <1>2, <1>3, ExceptInSeq
<1> QED
  BY <1>2, <1>4 DEF RegistrationsOnly

LEMMA CountedIs ==
  ASSUME TypeOK, CountRegistration
  PROVE  /\ RegistrationsOnly
         /\ \A r \in DOMAIN record : record'[r].registrations =
              IF r = tm_record_lookup(pre.source) THEN record[r].registrations + 1
              ELSE record[r].registrations
<1>0. PICK l : l = tm_record_lookup(pre.source)
  OBVIOUS
<1>1. CASE l = NULL
  BY <1>0, <1>1, RecordNumbers DEF CountRegistration, TypeOK, RegistrationsOnly, NULL
<1>2. CASE l # NULL
  <2>1. l \in DOMAIN record /\ record[l] \in Record
    BY <1>0, <1>2, LookupIs, RecordNumbers
  <2>2. record[l].registrations + 1 \in Nat
    BY <2>1 DEF Record
  <2>3. record' = [record EXCEPT ![l] =
                     [record[l] EXCEPT !.registrations = record[l].registrations + 1]]
    BY <1>0, <1>2, <2>1 DEF CountRegistration
  <2> QED
    BY <1>0, <2>1, <2>2, <2>3, RegistrationsSet
<1> QED
  BY <1>1, <1>2

LEMMA CountRegistrationBase ==
  ASSUME BaseInvariant, CountRegistration
  PROVE  BaseInvariant'
<1> USE DEF BaseInvariant, RecordInvariant
<1>1. pre \in Tasks
  BY TaskType DEF CountRegistration
<1>2. pre' \in Tasks /\ pre'.pc = "lookup" /\ pre'.cur = first
  <2>1. first \in Nat
    BY TheFirst, RecordNumbers DEF NULL
  <2> QED
    BY <1>1, <2>1 DEF CountRegistration, Tasks
<1>3. RegistrationsOnly
  BY CountedIs
<1>5. ListUnchanged /\ SlotsUnchanged
  BY <1>3 DEF ListUnchanged, SlotsUnchanged, CountRegistration, RegistrationsOnly
<1>4. refused' \subseteq Sources
  BY <1>1 DEF TypeOK, CountRegistration, Tasks
<1>6. TypeOK'
  BY <1>2, <1>3, <1>4 DEF TypeOK, CountRegistration, output_vars, exporter_vars, RegistrationsOnly
<1>7. ListInvariant'
  BY <1>2, <1>5, ListBegun
<1>8. SlotsInvariant'
  BY <1>2, <1>5, SlotsKept
<1>9. PointersInvariant'
  BY <1>2, PointersKept DEF CountRegistration, output_vars
<1> QED
  BY <1>6, <1>7, <1>8, <1>9

\* A walk that has ended is at the record of the source, if there is one.
LEMMA WalkFinds ==
  ASSUME TypeOK, ListInvariant, WalkEnds
  PROVE  /\ pre \in Tasks /\ pre.pc = "lookup" /\ pre.source \in Sources
         /\ pre.cur \in {NULL} \cup DOMAIN record
         /\ pre.cur # NULL => record[pre.cur].key = pre.source
         /\ \A r \in Linked : record[r].key = pre.source => pre.cur = r
<1>1. /\ pre \in Tasks /\ pre.pc = "lookup" /\ pre.source \in Sources
      /\ pre.cur \in {NULL} \cup DOMAIN record
      /\ pre.cur # NULL => record[pre.cur].key = pre.source
  BY TaskType DEF WalkEnds, ListInvariant
<1>2. ASSUME NEW r \in Linked, record[r].key = pre.source PROVE pre.cur = r
  <2>1. PICK ws \in SUBSET DOMAIN record : Way(ws, r) /\ pre.cur \in ws
    BY <1>1, <1>2 DEF ListInvariant
  <2>2. pre.cur <= r /\ pre.cur \in Nat /\ r \in Nat
    BY <2>1, RecordNumbers DEF Way
  <2>3. pre.cur \in DOMAIN record
    BY <2>1
  <2>4. ~(pre.cur < r)
    BY <1>1, <1>2, <2>1, <2>3, RecordNumbers DEF Way, NULL
  <2> QED
    BY <2>2, <2>4
<1> QED
  BY <1>1, <1>2

LEMMA CurrentIs ==
  ASSUME TypeOK, SlotsInvariant, pre.cur \in {NULL} \cup DOMAIN record
  PROVE  /\ pre.cur = NULL => Current = NULL
         /\ Current \in {NULL} \cup DOMAIN template /\ Current \in Nat
<1>1. CASE pre.cur = NULL
  BY <1>1 DEF Current, tm_record_get_template, NULL
<1>2. CASE pre.cur \in DOMAIN record
  <2>1. Current \in {NULL} \cup DOMAIN template
    BY <1>2, FoundIs DEF Current
  <2> QED
    BY <1>2, <2>1, RecordNumbers DEF TypeOK, NULL
<1> QED
  BY <1>1, <1>2

LEMMA FindRecordBase ==
  ASSUME BaseInvariant, FindRecord
  PROVE  BaseInvariant'
<1> USE DEF BaseInvariant, RecordInvariant
<1>1. WalkEnds /\ pre \in Tasks /\ pre.source \in Sources
  BY WalkFinds DEF FindRecord
<1>2. PICK l : l = LookupInserted(pre.source)
  OBVIOUS
<1>3. tm_record_lookup_insert(pre.source) /\ UNCHANGED <<freed_records, template>>
  BY DEF FindRecord
<1>4. record' \in Seq(Record) /\ DOMAIN record \subseteq DOMAIN record' /\ l \in DOMAIN record'
  BY <1>1, <1>2, <1>3, InsertedIs DEF Linked
<1>5. /\ pre' \in Tasks /\ pre'.cur = l /\ pre'.pc \in {"add", "update"}
      /\ pre'.item = pre.item /\ pre.item.type = "template"
      /\ pre'.pc = "add" => Current = NULL
  <2>1. l \in Nat
    BY <1>4
  <2> QED
    BY <1>1, <1>2, <2>1 DEF FindRecord, Go, Tasks
<1>6. ASSUME pre'.pc = "add", l \in DOMAIN record PROVE \A i \in Used(l) : IdAt(l, i) # pre'.item.id
  <2>1. l \in Linked /\ record[l].key = pre.source
    BY <1>1, <1>2, <1>3, <1>6, InsertedIs DEF Linked
  <2>2. pre.cur = l
    BY <1>1, <2>1, WalkFinds
  <2>3. tm_record_get_template(l, pre.item.id) = NULL
    BY <1>5, <1>6, <2>2 DEF Current
  <2> QED
    BY <1>5, <1>6, <2>3, FoundIs
<1>7. ListInvariant' /\ SlotsInvariant'
  BY <1>1, <1>2, <1>3, <1>5, <1>6, InsertedBase
<1>8. TypeOK'
  BY <1>4, <1>5 DEF TypeOK, history, FindRecord, output_vars, exporter_vars
<1>9. PointersInvariant'
  BY <1>5, PointersKept DEF FindRecord, output_vars
<1> QED
  BY <1>7, <1>8, <1>9

LEMMA GetTemplateBase ==
  ASSUME BaseInvariant, GetTemplate
  PROVE  BaseInvariant'
<1> USE DEF BaseInvariant, RecordInvariant
<1>1. pre \in Tasks /\ pre.cur \in {NULL} \cup DOMAIN record
  BY WalkFinds DEF GetTemplate
<1>2. Current \in {NULL} \cup DOMAIN template /\ Current \in Nat
  BY <1>1, CurrentIs
<1>3. pre' \in Tasks /\ pre'.pc = "couple" /\ pre'.cur = Current
  BY <1>1, <1>2 DEF GetTemplate, Go, Tasks
<1>4. ListUnchanged /\ SlotsUnchanged
  BY DEF GetTemplate, manager_vars, ListUnchanged, SlotsUnchanged
<1>5. TypeOK'
  BY <1>3 DEF TypeOK, history, GetTemplate, manager_vars, output_vars, exporter_vars
<1>6. ListInvariant' /\ SlotsInvariant'
  BY <1>3, <1>4, ListKept, SlotsKept
<1>7. PointersInvariant'
  BY <1>2, <1>3, PointersKept DEF GetTemplate, manager_vars, output_vars
<1> QED
  BY <1>5, <1>6, <1>7


\* Only the references of one template may change.
ReferencesOnly ==
  /\ template' \in Seq(Template) /\ DOMAIN template' = DOMAIN template
  /\ \A t \in DOMAIN template : /\ template'[t].id = template[t].id
                                /\ template'[t].version = template[t].version

LEMMA ReferencesSet ==
  ASSUME TypeOK, NEW t \in DOMAIN template, NEW n \in Int,
         template' = [template EXCEPT ![t] = [template[t] EXCEPT !.references = n]]
  PROVE  /\ ReferencesOnly
         /\ template'[t].references = n
         /\ \A u \in DOMAIN template : u # t => template'[u] = template[u]
<1>1. PICK tem : tem = [template[t] EXCEPT !.references = n]
  OBVIOUS
<1>2. /\ tem \in Template /\ tem.id = template[t].id /\ tem.version = template[t].version
      /\ tem.references = n
  BY <1>1, TemplateNumbers DEF Template
<1>3. template' = [template EXCEPT ![t] = tem] /\ template \in Seq(Template)
  BY <1>1 DEF TypeOK
<1>4. /\ template' \in Seq(Template) /\ DOMAIN template' = DOMAIN template
      /\ \A u \in DOMAIN template : template'[u] = IF u = t THEN tem ELSE template[u]
  BY <1>2, <1>3, ExceptInSeq
<1> QED
  BY <1>2, <1>4 DEF ReferencesOnly

LEMMA CoupledIs ==
  ASSUME TypeOK, PointersInvariant, CoupleData
  PROVE  /\ ReferencesOnly
         /\ \A t \in DOMAIN template : template'[t].references =
              IF t = pre.cur THEN template[t].references + 1 ELSE template[t].references
<1>1. CASE pre.cur = NULL
  BY <1>1 DEF CoupleData, TypeOK, ReferencesOnly, NULL
<1>2. CASE pre.cur # NULL
  <2>1. pre.cur \in DOMAIN template
    BY <1>2 DEF CoupleData, PointersInvariant
  <2>2. template[pre.cur].references + 1 \in Int
    BY <2>1, TemplateNumbers DEF Template
  <2>3. template' = [template EXCEPT ![pre.cur] =
          [template[pre.cur] EXCEPT !.references = template[pre.cur].references + 1]]
    BY <1>2, <2>1 DEF CoupleData
  <2> QED
    BY <2>1, <2>2, <2>3, ReferencesSet
<1> QED
  BY <1>1, <1>2

LEMMA CoupleDataBase ==
  ASSUME BaseInvariant, CoupleData
  PROVE  BaseInvariant'
<1> USE DEF BaseInvariant, RecordInvariant
<1>1. pre \in Tasks /\ pre.cur \in {NULL} \cup DOMAIN template
  BY TaskType DEF CoupleData, PointersInvariant
<1>2. pre' \in Tasks /\ pre'.pc = "send" /\ pre'.cur = pre.cur
  BY <1>1 DEF CoupleData, Go, Tasks
<1>3. ReferencesOnly
  BY CoupledIs
<1>4. ListUnchanged /\ SlotsUnchanged
  BY <1>3 DEF CoupleData, ListUnchanged, SlotsUnchanged, ReferencesOnly
<1>5. TypeOK'
  BY <1>2, <1>3 DEF TypeOK, history, CoupleData, output_vars, exporter_vars, ReferencesOnly
<1>6. ListInvariant' /\ SlotsInvariant'
  BY <1>2, <1>4, ListKept, SlotsKept
<1>7. PointersInvariant'
  BY <1>1, <1>2, <1>3, PointersKept DEF CoupleData, output_vars, ReferencesOnly
<1> QED
  BY <1>5, <1>6, <1>7

\* The message that the Preprocessor sends.
Sent == [status |-> pre.status, source |-> pre.source, type |-> pre.item.type,
         template |-> pre.cur, described |-> sent[pre.source][pre.item.id]]

LEMMA SentType ==
  ASSUME TypeOK, Send
  PROVE  Sent \in Message /\ pipe \in Seq(Message) /\ pipe' = Append(pipe, Sent)
<1>1. /\ pre.source \in Sources /\ pre.status \in {"new", "opened"} /\ pre.cur \in Nat
      /\ pre.item.id \in Ids /\ pre.item.type \in {"template", "withdrawal", "data"}
  BY TaskType DEF Send
<1>2. sent[pre.source][pre.item.id] \in Versions \cup {Unsent}
  BY <1>1 DEF TypeOK
<1> QED
  BY <1>1, <1>2 DEF Send, Message, Sent, TypeOK

LEMMA SendBase ==
  ASSUME BaseInvariant, Send
  PROVE  BaseInvariant'
<1> USE DEF BaseInvariant, RecordInvariant
<1>1. Sent \in Message /\ pipe \in Seq(Message) /\ pipe' = Append(pipe, Sent)
  BY SentType
<1>2. pre' = Idle /\ pre'.pc = "idle"
  BY DEF Send, Idle
<1>3. ListUnchanged /\ SlotsUnchanged
  BY DEF Send, manager_vars, ListUnchanged, SlotsUnchanged
<1>4. TypeOK'
  <2>1. pipe' \in Seq(Message)
    BY <1>1, Appended
  <2> QED
    BY <1>2, <2>1 DEF TypeOK, history, Send, manager_vars, output_vars, exporter_vars
<1>5. ListInvariant' /\ SlotsInvariant'
  BY <1>2, <1>3, ListKept, SlotsKept
<1>6. PointersInvariant'
  <2>1. Sent.template \in {NULL} \cup DOMAIN template
    BY DEF Sent, Send, PointersInvariant
  <2> HIDE DEF Sent
  <2>2. \A i \in DOMAIN pipe' : pipe'[i].template \in {NULL} \cup DOMAIN template
    BY <1>1, <2>1, Appended DEF PointersInvariant
  <2> QED
    BY <1>2, <2>2 DEF PointersInvariant, Send, manager_vars, output_vars
<1> QED
  BY <1>4, <1>5, <1>6

\* The message that the Output Manager takes.
LEMMA TakenIs ==
  ASSUME TypeOK, OutputIdle
  PROVE  /\ pipe \in Seq(Message) /\ pipe # <<>> /\ Head(pipe) \in Message
         /\ Head(pipe) = pipe[1] /\ 1 \in DOMAIN pipe
         /\ Tail(pipe) \in Seq(Message)
         /\ \A i \in DOMAIN Tail(pipe) : i + 1 \in DOMAIN pipe /\ Tail(pipe)[i] = pipe[i + 1]
         /\ Head(pipe).source \in Sources /\ OdidOf[Head(pipe).source] \in Odids
<1>1. pipe \in Seq(Message) /\ pipe # <<>>
  BY DEF TypeOK, OutputIdle
<1>2. Head(pipe) \in Message
  BY <1>1, Shortened
<1>3. Head(pipe).source \in Sources
  BY <1>2 DEF Message
<1> QED
  BY <1>1, <1>2, <1>3, Shortened, ManagerOf

LEMMA ForwardBase ==
  ASSUME BaseInvariant, Forward
  PROVE  BaseInvariant'
<1> USE DEF BaseInvariant, RecordInvariant
<1> DEFINE m == Head(pipe)
           o == OdidOf[m.source]
<1>1. /\ pipe' = Tail(pipe) /\ m \in Message /\ o \in Odids /\ Tail(pipe) \in Seq(Message)
      /\ m = pipe[1] /\ 1 \in DOMAIN pipe
      /\ \A i \in DOMAIN Tail(pipe) : i + 1 \in DOMAIN pipe /\ Tail(pipe)[i] = pipe[i + 1]
  BY TakenIs DEF Forward
<1>2. /\ data_managers' = [data_managers EXCEPT ![o] =
            IF m.status = "new" THEN Opened(o) + 1 ELSE Opened(o)]
      /\ store_queue' = [store_queue EXCEPT ![o] = Append(store_queue[o], m)]
  BY DEF Forward
<1> HIDE DEF m, o
<1>3. data_managers' \in [Odids -> {Closed} \cup Nat]
  BY <1>1, <1>2 DEF TypeOK, Opened, Closed
<1>4. store_queue' \in [Odids -> Seq(Message)]
  BY <1>1, <1>2 DEF TypeOK
<1>5. TypeOK'
  BY <1>1, <1>3, <1>4 DEF TypeOK, history, Forward, manager_vars, exporter_vars
<1>6. ListUnchanged /\ SlotsUnchanged
  BY DEF Forward, manager_vars, ListUnchanged, SlotsUnchanged
<1>7. ListInvariant' /\ SlotsInvariant'
  BY <1>6, ListKept, SlotsKept DEF Forward
<1>8. PointersInvariant'
  <2>1. \A i \in DOMAIN pipe' : pipe'[i].template \in {NULL} \cup DOMAIN template
    BY <1>1 DEF PointersInvariant
  <2>2. ASSUME NEW p \in Odids, NEW i \in DOMAIN store_queue'[p]
        PROVE  store_queue'[p][i].template \in {NULL} \cup DOMAIN template
    <3>1. CASE p = o
      <4>1. store_queue[o] \in Seq(Message) /\ store_queue'[p] = Append(store_queue[o], m)
        BY <1>1, <1>2, <3>1 DEF TypeOK
      <4> QED
        BY <1>1, <2>2, <3>1, <4>1, Appended DEF PointersInvariant
    <3>2. CASE p # o
      BY <1>2, <2>2, <3>2 DEF PointersInvariant, TypeOK
    <3> QED
      BY <3>1, <3>2
  <2> QED
    BY <2>1, <2>2 DEF PointersInvariant, Forward, manager_vars
<1> QED
  BY <1>5, <1>7, <1>8


LEMMA UnregisteredIs ==
  ASSUME TypeOK, NEW s, record' = Unregistered(s)
  PROVE  /\ RegistrationsOnly
         /\ \A r \in DOMAIN record : record'[r].registrations =
              IF r = tm_record_lookup(s) /\ record[r].registrations # 0
              THEN record[r].registrations - 1 ELSE record[r].registrations
<1>0. PICK l : l = tm_record_lookup(s)
  OBVIOUS
<1>1. CASE l = NULL \/ record[l].registrations = 0
  BY <1>0, <1>1, RecordNumbers DEF Unregistered, TypeOK, RegistrationsOnly, NULL
<1>2. CASE ~(l = NULL \/ record[l].registrations = 0)
  <2>1. l \in DOMAIN record /\ record[l] \in Record
    BY <1>0, <1>2, LookupIs, RecordNumbers
  <2>2. record[l].registrations - 1 \in Nat
    BY <1>2, <2>1 DEF Record
  <2>3. record' = [record EXCEPT ![l] =
                     [record[l] EXCEPT !.registrations = record[l].registrations - 1]]
    BY <1>0, <1>2, <2>1 DEF Unregistered
  <2>4. /\ RegistrationsOnly
        /\ record'[l].registrations = record[l].registrations - 1
        /\ \A r \in DOMAIN record : r # l => record'[r] = record[r]
    BY <2>1, <2>2, <2>3, RegistrationsSet
  <2> QED
    BY <1>0, <1>2, <2>1, <2>4
<1> QED
  BY <1>1, <1>2

LEMMA SourceClosedBase ==
  ASSUME BaseInvariant, SourceClosed
  PROVE  BaseInvariant'
<1> USE DEF BaseInvariant, RecordInvariant
<1> DEFINE o == OdidOf[Head(pipe).source]
<1>1. /\ pipe' = Tail(pipe) /\ o \in Odids /\ Tail(pipe) \in Seq(Message)
      /\ \A i \in DOMAIN Tail(pipe) : i + 1 \in DOMAIN pipe /\ Tail(pipe)[i] = pipe[i + 1]
  BY TakenIs DEF SourceClosed
<1>2. /\ data_managers' = [data_managers EXCEPT ![o] = Opened(o) - 1]
      /\ closing' \subseteq {o}
  BY DEF SourceClosed
<1>3. RegistrationsOnly
  BY UnregisteredIs DEF SourceClosed
<1> HIDE DEF o
<1>4. data_managers' \in [Odids -> {Closed} \cup Nat]
  <2>1. Opened(o) - 1 \in {Closed} \cup Nat
    BY <1>1 DEF TypeOK, Opened, Closed
  <2> QED
    BY <1>2, <2>1 DEF TypeOK
<1>5. TypeOK'
  BY <1>1, <1>2, <1>3, <1>4 DEF TypeOK, history, SourceClosed, exporter_vars, RegistrationsOnly
<1>6. ListUnchanged /\ SlotsUnchanged
  BY <1>3 DEF SourceClosed, ListUnchanged, SlotsUnchanged, RegistrationsOnly
<1>7. ListInvariant' /\ SlotsInvariant'
  BY <1>6, ListKept, SlotsKept DEF SourceClosed
<1>8. PointersInvariant'
  <2>1. \A i \in DOMAIN pipe' : pipe'[i].template \in {NULL} \cup DOMAIN template
    BY <1>1 DEF PointersInvariant
  <2> QED
    BY <2>1 DEF PointersInvariant, SourceClosed
<1> QED
  BY <1>5, <1>7, <1>8

LEMMA ReleasedIs ==
  ASSUME TypeOK, PointersInvariant, NEW o \in Odids, ReleaseMessage(o)
  PROVE  /\ store_queue[o] \in Seq(Message) /\ store_queue[o] # <<>>
         /\ Head(store_queue[o]) = store_queue[o][1] /\ 1 \in DOMAIN store_queue[o]
         /\ store_queue' = [store_queue EXCEPT ![o] = Tail(store_queue[o])]
         /\ store_queue' \in [Odids -> Seq(Message)]
         /\ ReferencesOnly
         /\ \A t \in DOMAIN template : template'[t].references =
              IF t = Head(store_queue[o]).template /\ o \in releasing
              THEN template[t].references - 1 ELSE template[t].references
         /\ Head(store_queue[o]).template # NULL /\ o \notin releasing =>
              template[Head(store_queue[o]).template].references = 0
<1>1. /\ store_queue[o] \in Seq(Message) /\ store_queue[o] # <<>>
      /\ Head(store_queue[o]) = store_queue[o][1] /\ 1 \in DOMAIN store_queue[o]
      /\ Tail(store_queue[o]) \in Seq(Message)
  BY Shortened DEF ReleaseMessage, TypeOK
<1>2. /\ store_queue' = [store_queue EXCEPT ![o] = Tail(store_queue[o])]
      /\ store_queue' \in [Odids -> Seq(Message)]
  BY <1>1 DEF ReleaseMessage, TypeOK
<1>3. PICK u : u = Head(store_queue[o]).template
  OBVIOUS
<1>4. u \in {NULL} \cup DOMAIN template
  BY <1>1, <1>3 DEF PointersInvariant
<1>5. CASE o \notin releasing
  <2>1. template' = template /\ (u # NULL => template[u].references = 0)
    BY <1>3, <1>5 DEF ReleaseMessage, Oldest
  <2> QED
    BY <1>1, <1>2, <1>3, <1>5, <2>1, TemplateNumbers DEF ReferencesOnly, TypeOK
<1>7. CASE o \in releasing /\ u = NULL
  <2>1. u \notin DOMAIN template
    BY <1>7, TemplateNumbers DEF NULL, TypeOK
  <2>2. template' = [template EXCEPT ![u].references = @ - 1]
    BY <1>3, <1>7 DEF ReleaseMessage, Oldest
  <2>3. template' = template
    BY <2>1, <2>2 DEF TypeOK
  <2> QED
    BY <1>1, <1>2, <1>3, <1>7, <2>1, <2>3, TemplateNumbers DEF ReferencesOnly, TypeOK
<1>6. CASE o \in releasing /\ u # NULL
  <2>1. u \in DOMAIN template /\ template[u].references - 1 \in Int
    BY <1>4, <1>6, TemplateNumbers DEF Template
  <2>2. template' = [template EXCEPT ![u] =
          [template[u] EXCEPT !.references = template[u].references - 1]]
    BY <1>3, <1>6, <2>1 DEF ReleaseMessage, Oldest
  <2>3. /\ ReferencesOnly
        /\ template'[u].references = template[u].references - 1
        /\ \A t \in DOMAIN template : t # u => template'[t] = template[t]
    BY <2>1, <2>2, ReferencesSet
  <2> QED
    BY <1>1, <1>2, <1>3, <1>6, <2>1, <2>3
<1> QED
  BY <1>5, <1>6, <1>7

LEMMA TestReferencesBase ==
  ASSUME BaseInvariant, NEW o \in Odids, TestReferences(o)
  PROVE  BaseInvariant'
<1> USE DEF BaseInvariant, RecordInvariant
<1>1. UNCHANGED <<manager_vars, pre, pipe, store_queue>>
  BY DEF TestReferences
<1>2. TypeOK'
  BY DEF TypeOK, TestReferences, manager_vars, history, exporter_vars
<1>3. ListUnchanged /\ SlotsUnchanged
  BY <1>1 DEF manager_vars, ListUnchanged, SlotsUnchanged
<1>4. ListInvariant' /\ SlotsInvariant'
  BY <1>1, <1>3, ListKept, SlotsKept
<1>5. PointersInvariant'
  BY <1>1 DEF PointersInvariant, manager_vars
<1> QED
  BY <1>2, <1>4, <1>5

LEMMA ReleaseMessageBase ==
  ASSUME BaseInvariant, NEW o \in Odids, ReleaseMessage(o)
  PROVE  BaseInvariant'
<1> USE DEF BaseInvariant, RecordInvariant
<1>1. /\ store_queue[o] \in Seq(Message) /\ store_queue[o] # <<>>
      /\ store_queue' = [store_queue EXCEPT ![o] = Tail(store_queue[o])]
      /\ store_queue' \in [Odids -> Seq(Message)]
      /\ ReferencesOnly
  BY ReleasedIs
<1>2. TypeOK'
  BY <1>1 DEF TypeOK, history, ReleaseMessage, exporter_vars, ReferencesOnly
<1>3. ListUnchanged /\ SlotsUnchanged
  BY <1>1 DEF ReleaseMessage, ListUnchanged, SlotsUnchanged, ReferencesOnly
<1>4. ListInvariant' /\ SlotsInvariant'
  BY <1>3, ListKept, SlotsKept DEF ReleaseMessage
<1>5. PointersInvariant'
  <2>1. ASSUME NEW p \in Odids, NEW i \in DOMAIN store_queue'[p]
        PROVE  store_queue'[p][i].template \in {NULL} \cup DOMAIN template
    <3>1. CASE p = o
      <4>1. store_queue'[p] = Tail(store_queue[o])
        BY <1>1, <3>1 DEF TypeOK
      <4>2. i + 1 \in DOMAIN store_queue[o] /\ store_queue'[p][i] = store_queue[o][i + 1]
        BY <1>1, <2>1, <4>1, Shortened
      <4> QED
        BY <4>2 DEF PointersInvariant
    <3>2. CASE p # o
      BY <1>1, <2>1, <3>2 DEF PointersInvariant, TypeOK
    <3> QED
      BY <3>1, <3>2
  <2> QED
    BY <1>1, <2>1 DEF PointersInvariant, ReleaseMessage, ReferencesOnly
<1> QED
  BY <1>2, <1>4, <1>5

\* The records that go with a Data Manager.
Gone(o) == {r \in Linked : OdidOf[record[r].key] = o /\ record[r].registrations = 0}

LEMMA DestroyedIs ==
  ASSUME TypeOK, ListInvariant, NEW o \in Odids, RemoveManager(o)
  PROVE  /\ record' \in Seq(Record) /\ DOMAIN record' = DOMAIN record
         /\ freed_records' = freed_records \cup Gone(o)
         /\ Gone(o) \subseteq Linked /\ Linked' = Linked \ Gone(o)
         /\ freed_templates' = freed_templates \cup UNION {TemplatesOf(r) : r \in Gone(o)}
         /\ \A r \in DOMAIN record :
              /\ record'[r].key = record[r].key /\ record'[r].templates = record[r].templates
              /\ record'[r].counter = record[r].counter
              /\ record'[r].registrations = record[r].registrations
              /\ record'[r].next = IF r \in Gone(o) THEN NextOf(r) ELSE record[r].next
<1> DEFINE G == Gone(o)
<1>1. Destroyed(G)
  BY DEF RemoveManager, tm_remove_all_templates, Gone
<1>2. G \subseteq Linked
  BY DEF Gone
<1> HIDE DEF G
<1>3. ASSUME NEW r \in G PROVE NextOf(r) \in Nat
  BY <1>2, <1>3, NextOfIs, RecordNumbers DEF NULL
<1>4. record' = [r \in DOMAIN record |->
       IF r \in G THEN [record[r] EXCEPT !.next = NextOf(r)] ELSE record[r]]
  BY <1>1 DEF Destroyed
<1>5. \A r \in DOMAIN record : record'[r] =
        IF r \in G THEN [record[r] EXCEPT !.next = NextOf(r)] ELSE record[r]
  BY <1>4
<1>6. DOMAIN record' = DOMAIN record /\ \A r \in DOMAIN record : record'[r] \in Record
  BY <1>3, <1>4, <1>5, RecordNumbers DEF Record
<1>7. record' \in Seq(Record)
  <2>1. record' = [r \in 1 .. Len(record) |-> record'[r]] /\ Len(record) \in Nat
    BY <1>4, RecordNumbers
  <2> QED
    BY <1>6, <2>1, RecordNumbers
<1>8. /\ freed_records' = freed_records \cup G
      /\ freed_templates' = freed_templates \cup UNION {TemplatesOf(r) : r \in G}
  BY <1>1 DEF Destroyed
<1>9. Linked' = Linked \ G
  BY <1>6, <1>8 DEF Linked
<1>10. \A r \in DOMAIN record :
              /\ record'[r].key = record[r].key /\ record'[r].templates = record[r].templates
              /\ record'[r].counter = record[r].counter
              /\ record'[r].registrations = record[r].registrations
              /\ record'[r].next = IF r \in G THEN NextOf(r) ELSE record[r].next
  BY <1>5, RecordNumbers DEF Record
<1> QED
  BY <1>2, <1>6, <1>7, <1>8, <1>9, <1>10 DEF G


\* A record that is removed keeps the pointer to the one behind it, so a walk
\* still leads to the records that stay: it passes those it could pass before
\* and any in the list.
LEMMA WayKept ==
  ASSUME TypeOK, ListInvariant, NEW o \in Odids, RemoveManager(o),
         NEW r \in Linked', NEW vs \in SUBSET DOMAIN record, Way(vs, r)
  PROVE  \E ws \in SUBSET DOMAIN record' : Way(ws, r)' /\ vs \subseteq ws
<1>0. PICK ws : ws = vs \cup {x \in Linked : x <= r}
  OBVIOUS
<1>1. /\ DOMAIN record' = DOMAIN record /\ Linked' = Linked \ Gone(o)
      /\ freed_records' = freed_records \cup Gone(o) /\ Gone(o) \subseteq Linked
      /\ \A x \in DOMAIN record :
           /\ record'[x].key = record[x].key
           /\ record'[x].next = IF x \in Gone(o) THEN NextOf(x) ELSE record[x].next
  BY DestroyedIs
<1>2. r \in Linked /\ r \notin Gone(o) /\ r \in Nat
  BY <1>1, RecordNumbers
<1>3. ws \subseteq DOMAIN record /\ ws \subseteq Nat
  BY <1>0, RecordNumbers
<1>4. \A x \in ws : x <= r
  BY <1>0, RecordNumbers DEF Way
<1>5. ASSUME NEW x \in ws, x < r PROVE record'[x].key # record'[r].key
  <2>1. CASE x \in vs
    BY <1>1, <1>2, <1>3, <1>5, <2>1, RecordNumbers DEF Way
  <2>2. CASE x \in Linked
    BY <1>1, <1>2, <1>3, <1>5, <2>2, RecordNumbers DEF ListInvariant
  <2> QED
    BY <1>0, <1>5, <2>1, <2>2
<1>6. ASSUME NEW x \in ws, x < r PROVE NextOf(x)' \in ws
  <2>1. CASE x \in Linked'
    <3> DEFINE S == {q \in Linked' : q > x}
    <3>1. S \in SUBSET (Nat \ {0}) /\ r \in S
      BY <1>1, <1>6, RecordNumbers
    <3>2. NextOf(x)' = FirstOf(S)
      BY <1>1, <2>1 DEF NextOf, Linked, FirstOf
    <3>3. FirstOf(S) \in S /\ FirstOf(S) <= r
      BY <3>1, FirstOfIs
    <3> QED
      BY <1>0, <1>1, <3>2, <3>3
  <2>2. CASE x \in Gone(o)
    <3>1. NextOf(x)' = NextOf(x) /\ x \in Linked
      BY <1>1, <1>3, <2>2 DEF NextOf
    <3>2. NextOf(x) \in Linked /\ NextOf(x) <= r
      BY <1>2, <1>6, <3>1, NextOfIs
    <3> QED
      BY <1>0, <3>1, <3>2
  <2>3. CASE x \in freed_records
    <3>1. x \notin Gone(o) /\ x \in vs
      BY <1>0, <1>1, <1>6, <2>3 DEF Linked
    <3>2. NextOf(x)' = NextOf(x)
      BY <1>1, <1>3, <2>3, <3>1 DEF NextOf
    <3> QED
      BY <1>0, <1>6, <3>1, <3>2 DEF Way
  <2> QED
    BY <1>1, <1>3, <1>6, <2>1, <2>2, <2>3 DEF Linked
<1>7. Way(ws, r)'
  BY <1>1, <1>3, <1>4, <1>5, <1>6 DEF Way
<1> QED
  BY <1>0, <1>1, <1>3, <1>7

LEMMA RemoveManagerBase ==
  ASSUME BaseInvariant, NEW o \in Odids, RemoveManager(o)
  PROVE  BaseInvariant'
<1> USE DEF BaseInvariant, RecordInvariant
<1>1. /\ record' \in Seq(Record) /\ DOMAIN record' = DOMAIN record
      /\ freed_records' = freed_records \cup Gone(o)
      /\ Gone(o) \subseteq Linked /\ Linked' = Linked \ Gone(o)
      /\ freed_templates' = freed_templates \cup UNION {TemplatesOf(r) : r \in Gone(o)}
      /\ \A r \in DOMAIN record :
           /\ record'[r].key = record[r].key /\ record'[r].templates = record[r].templates
           /\ record'[r].counter = record[r].counter
           /\ record'[r].next = IF r \in Gone(o) THEN NextOf(r) ELSE record[r].next
  BY DestroyedIs
<1>2. Linked \subseteq DOMAIN record
  BY RecordNumbers
<1>3. TypeOK'
  <2>1. ASSUME NEW r \in Gone(o) PROVE TemplatesOf(r) \subseteq DOMAIN template
    <3>1. r \in DOMAIN record /\ record[r].templates \in Seq(Seq(Nat))
      BY <1>1, <1>2, <2>1, RecordNumbers DEF Record
    <3>2. ASSUME NEW i \in DOMAIN record[r].templates
          PROVE  ToSet(record[r].templates[i]) \subseteq DOMAIN template
      BY <3>1, <3>2 DEF SlotsInvariant, ToSet
    <3> QED
      BY <3>2 DEF TemplatesOf
  <2>2. freed_templates' \subseteq DOMAIN template
    BY <1>1, <2>1 DEF TypeOK
  <2>3. freed_records' \subseteq DOMAIN record
    BY <1>1, <1>2 DEF TypeOK
  <2>4. data_managers' \in [Odids -> {Closed} \cup Nat]
    BY DEF RemoveManager, TypeOK
  <2> QED
    BY <1>1, <2>2, <2>3, <2>4 DEF TypeOK, history, RemoveManager, exporter_vars
<1>4. ListInvariant'
  <2>1. \A r, q \in Linked' : record'[r].key = record'[q].key => r = q
    BY <1>1, <1>2 DEF ListInvariant
  <2>2. ASSUME NEW r \in DOMAIN record' PROVE record'[r].next \in {NULL} \cup DOMAIN record'
    <3>1. CASE r \in Gone(o)
      BY <1>1, <1>2, <3>1, NextOfIs
    <3>2. CASE r \notin Gone(o)
      BY <1>1, <2>2, <3>2 DEF ListInvariant
    <3> QED
      BY <3>1, <3>2
  <2>3. ASSUME pre'.pc = "lookup", NEW r \in Linked', record'[r].key = pre'.source
        PROVE  \E ws \in SUBSET DOMAIN record' : Way(ws, r)' /\ pre'.cur \in ws
    <3>1. r \in Linked /\ record[r].key = pre.source /\ pre.pc = "lookup"
      BY <1>1, <1>2, <2>3 DEF RemoveManager
    <3>2. PICK vs \in SUBSET DOMAIN record : Way(vs, r) /\ pre.cur \in vs
      BY <3>1 DEF ListInvariant
    <3>3. PICK ws \in SUBSET DOMAIN record' : Way(ws, r)' /\ vs \subseteq ws
      BY <2>3, <3>2, WayKept
    <3> QED
      BY <3>2, <3>3 DEF RemoveManager
  <2> QED
    BY <1>1, <2>1, <2>2, <2>3 DEF ListInvariant, RemoveManager
<1>5. SlotsInvariant'
  <2>1. SlotsUnchanged
    BY <1>1 DEF SlotsUnchanged, RemoveManager
  <2> QED
    BY <2>1, SlotsKept DEF RemoveManager
<1>6. PointersInvariant'
  BY PointersKept DEF RemoveManager, PointersInvariant
<1> QED
  BY <1>3, <1>4, <1>5, <1>6


\* The slots of an array that are in use.
UsedIn(ts) == {i \in DOMAIN ts : ts[i] # Hole}

LEMMA UsedInFinite ==
  ASSUME NEW ts \in Seq(Seq(Nat))
  PROVE  /\ IsFiniteSet(UsedIn(ts)) /\ Cardinality(UsedIn(ts)) \in Nat
         /\ UsedIn(ts) \subseteq 1 .. Len(ts) /\ Len(ts) \in Nat /\ DOMAIN ts = 1 .. Len(ts)
         /\ Cardinality(UsedIn(ts)) <= Len(ts)
         /\ Cardinality(UsedIn(ts)) = Len(ts) <=> UsedIn(ts) = DOMAIN ts
<1>1. UsedIn(ts) \subseteq 1 .. Len(ts) /\ Len(ts) \in Nat /\ DOMAIN ts = 1 .. Len(ts)
  BY DEF UsedIn
<1>2. IsFiniteSet(1 .. Len(ts)) /\ Cardinality(1 .. Len(ts)) = Len(ts)
  <2>1. PICK n \in Nat : n = Len(ts)
    BY <1>1
  <2>2. IsFiniteSet(1 .. n) /\ Cardinality(1 .. n) = IF 1 > n THEN 0 ELSE n - 1 + 1
    BY FS_Interval
  <2> QED
    BY <2>1, <2>2
<1> QED
  BY <1>1, <1>2, FS_Subset, FS_CardinalityType

\* Array new is array old with the template t in slot h, which was free.
Placed(old, new, h, t) ==
  /\ h \in DOMAIN new /\ new[h] = <<t>>
  /\ h \in DOMAIN old => old[h] = Hole
  /\ DOMAIN old \subseteq DOMAIN new
  /\ \A i \in DOMAIN old : i # h => new[i] = old[i]
  /\ \A i \in DOMAIN new \ DOMAIN old : i # h => new[i] = Hole

LEMMA PlacedUsed ==
  ASSUME NEW old \in Seq(Seq(Nat)), NEW new \in Seq(Seq(Nat)), NEW h, NEW t,
         Placed(old, new, h, t)
  PROVE  /\ UsedIn(new) = UsedIn(old) \cup {h} /\ h \notin UsedIn(old)
         /\ Cardinality(UsedIn(new)) = Cardinality(UsedIn(old)) + 1
<1>0. <<t>> # Hole
  BY DEF Hole
<1>1. UsedIn(new) = UsedIn(old) \cup {h} /\ h \notin UsedIn(old)
  BY <1>0 DEF Placed, UsedIn
<1> QED
  BY <1>1, UsedInFinite, FS_AddElement

LEMMA InsertIs ==
  ASSUME NEW rec \in Record, rec.counter = Cardinality(UsedIn(rec.templates)),
         Len(rec.templates) > 0, NEW t \in Nat
  PROVE  /\ Insert(rec, t) \in Record
         /\ Insert(rec, t).key = rec.key /\ Insert(rec, t).next = rec.next
         /\ Insert(rec, t).registrations = rec.registrations
         /\ Insert(rec, t).counter = rec.counter + 1
         /\ Len(Insert(rec, t).templates) > 0
         /\ \E h \in Nat : Placed(rec.templates, Insert(rec, t).templates, h, t)
<1> DEFINE old   == rec.templates
           room  == [i \in 1 .. Len(old) |-> Hole]
           grown == IF rec.counter = Len(old) THEN old \o room ELSE old
           holes == {i \in DOMAIN grown : grown[i] = Hole}
           hole  == Min(holes)
           new   == [grown EXCEPT ![hole] = <<t>>]
<1>1. old \in Seq(Seq(Nat)) /\ rec.counter \in Nat /\ Len(old) \in Nat
  BY DEF Record
<1>2. room \in Seq(Seq(Nat)) /\ Len(room) = Len(old) /\ \A i \in 1 .. Len(old) : room[i] = Hole
  <2>1. Hole \in Seq(Nat)
    BY DEF Hole
  <2> QED
    BY <1>1, <2>1
<1> HIDE DEF old, room
<1>0. PICK X : X = Seq(Nat)
  OBVIOUS
<1>3. /\ grown \in Seq(Seq(Nat)) /\ DOMAIN old \subseteq DOMAIN grown
      /\ \A i \in DOMAIN old : grown[i] = old[i]
      /\ \A i \in DOMAIN grown \ DOMAIN old : grown[i] = Hole
      /\ Len(grown) >= Len(old)
  <2>1. CASE rec.counter = Len(old)
    <3>1. /\ old \o room \in Seq(X) /\ Len(old \o room) = Len(old) + Len(old)
          /\ \A i \in 1 .. Len(old) : (old \o room)[i] = old[i]
          /\ \A i \in (Len(old) + 1) .. (Len(old) + Len(old)) :
               (old \o room)[i] = room[i - Len(old)]
      <4>1. old \in Seq(X) /\ room \in Seq(X)
        BY <1>0, <1>1, <1>2
      <4>2. Len(room) = Len(old)
        BY <1>2
      <4>3. /\ old \o room \in Seq(X) /\ Len(old \o room) = Len(old) + Len(room)
            /\ \A i \in 1 .. Len(old) : (old \o room)[i] = old[i]
            /\ \A i \in (Len(old) + 1) .. (Len(old) + Len(room)) :
                 (old \o room)[i] = room[i - Len(old)]
        BY <4>1, Concatenated
      <4> QED
        BY <4>2, <4>3
    <3>2. \A i \in (Len(old) + 1) .. (Len(old) + Len(old)) : i - Len(old) \in 1 .. Len(old)
      BY <1>1
    <3>3. DOMAIN (old \o room) = 1 .. (Len(old) + Len(old)) /\ DOMAIN old = 1 .. Len(old)
      BY <1>1, <3>1
    <3>4. \A i \in DOMAIN (old \o room) \ DOMAIN old : i \in (Len(old) + 1) .. (Len(old) + Len(old))
      BY <1>1, <3>3
    <3> QED
      BY <1>0, <1>1, <1>2, <2>1, <3>1, <3>2, <3>3, <3>4
  <2>2. CASE rec.counter # Len(old)
    BY <1>1, <2>2
  <2> QED
    BY <2>1, <2>2
<1>4. holes # {}
  <2>1. CASE rec.counter = Len(old)
    <3>1. Len(old) + 1 \in DOMAIN (old \o room) /\ Len(old) + 1 \notin DOMAIN old
      <4>1. old \in Seq(X) /\ room \in Seq(X) /\ Len(old) > 0
        BY <1>0, <1>1, <1>2 DEF old
      <4>2. DOMAIN (old \o room) = 1 .. (Len(old) + Len(old)) /\ DOMAIN old = 1 .. Len(old)
        <5>1. DOMAIN (old \o room) = 1 .. (Len(old) + Len(room)) /\ DOMAIN old = 1 .. Len(old)
          BY <4>1, Concatenated
        <5>2. Len(room) = Len(old)
          BY <1>2
        <5> QED
          BY <5>1, <5>2
      <4> QED
        BY <1>1, <4>1, <4>2
    <3> QED
      BY <1>3, <2>1, <3>1
  <2>2. CASE rec.counter # Len(old)
    <3>1. UsedIn(old) # DOMAIN old
      BY <1>1, <2>2, UsedInFinite DEF old
    <3> QED
      BY <2>2, <3>1 DEF UsedIn
  <2> QED
    BY <2>1, <2>2
<1>5. hole \in holes /\ hole \in Nat
  <2>1. holes \in SUBSET Nat
    BY <1>3
  <2> HIDE DEF holes
  <2> QED
    BY <1>4, <2>1, LeastNumber
<1>6. Insert(rec, t) = [rec EXCEPT !.templates = new, !.counter = rec.counter + 1]
  BY DEF Insert, old, room
<1> HIDE DEF grown, hole
<1>7. /\ new \in Seq(Seq(Nat)) /\ DOMAIN new = DOMAIN grown /\ Len(new) = Len(grown)
      /\ \A i \in DOMAIN grown : new[i] = IF i = hole THEN <<t>> ELSE grown[i]
  <2>1. <<t>> \in Seq(Nat)
    OBVIOUS
  <2> QED
    BY <1>3, <2>1, ExceptInArray
<1>8. Placed(old, new, hole, t)
  BY <1>3, <1>5, <1>7 DEF Placed
<1> HIDE DEF new
<1>9. /\ Insert(rec, t) \in Record /\ Insert(rec, t).templates = new
      /\ Insert(rec, t).key = rec.key /\ Insert(rec, t).next = rec.next
      /\ Insert(rec, t).registrations = rec.registrations
      /\ Insert(rec, t).counter = rec.counter + 1
  <2>1. new \in Seq(Seq(Nat)) /\ rec.counter + 1 \in Nat
    BY <1>1, <1>7
  <2> QED
    BY <1>6, <2>1 DEF Record
<1> QED
  BY <1>1, <1>3, <1>5, <1>7, <1>8, <1>9 DEF old

\* Array new is array old with slot h made free.
Cleared(old, new, h) ==
  /\ h \in DOMAIN new /\ new[h] = Hole /\ DOMAIN new = DOMAIN old
  /\ \A i \in DOMAIN old : i # h => new[i] = old[i]

LEMMA EmptiedIs ==
  ASSUME NEW rec \in Record, rec.counter = Cardinality(UsedIn(rec.templates)),
         NEW slot \in UsedIn(rec.templates)
  PROVE  /\ Emptied(rec, slot) \in Record
         /\ Emptied(rec, slot).key = rec.key /\ Emptied(rec, slot).next = rec.next
         /\ Emptied(rec, slot).registrations = rec.registrations
         /\ Emptied(rec, slot).counter = Cardinality(UsedIn(Emptied(rec, slot).templates))
         /\ Len(Emptied(rec, slot).templates) = Len(rec.templates)
         /\ Cleared(rec.templates, Emptied(rec, slot).templates, slot)
         /\ UsedIn(Emptied(rec, slot).templates) = UsedIn(rec.templates) \ {slot}
<1> DEFINE old == rec.templates
           new == [old EXCEPT ![slot] = Hole]
<1>1. old \in Seq(Seq(Nat)) /\ rec.counter \in Nat /\ Hole \in Seq(Nat)
  BY DEF Record, Hole
<1>2. slot \in DOMAIN old /\ old[slot] # Hole
  BY DEF UsedIn
<1>3. Emptied(rec, slot) = [rec EXCEPT !.templates = new, !.counter = rec.counter - 1]
  BY DEF Emptied, Record
<1> HIDE DEF old
<1>4. /\ new \in Seq(Seq(Nat)) /\ Len(new) = Len(old) /\ DOMAIN new = DOMAIN old
      /\ \A i \in DOMAIN old : new[i] = IF i = slot THEN Hole ELSE old[i]
  BY <1>1, ExceptInArray
<1> HIDE DEF new
<1>5. Cleared(old, new, slot)
  BY <1>2, <1>4 DEF Cleared
<1>6. UsedIn(new) = UsedIn(old) \ {slot}
  BY <1>2, <1>4 DEF UsedIn
<1>7. Cardinality(UsedIn(new)) = Cardinality(UsedIn(old)) - 1
  <2>1. IsFiniteSet(UsedIn(old)) /\ slot \in UsedIn(old)
    BY <1>1, UsedInFinite DEF old
  <2> QED
    BY <1>6, <2>1, FS_RemoveElement
<1>8. rec.counter - 1 = Cardinality(UsedIn(new)) /\ Cardinality(UsedIn(new)) \in Nat
  BY <1>1, <1>4, <1>7, UsedInFinite DEF old
<1>9. /\ Emptied(rec, slot) \in Record /\ Emptied(rec, slot).templates = new
      /\ Emptied(rec, slot).key = rec.key /\ Emptied(rec, slot).next = rec.next
      /\ Emptied(rec, slot).registrations = rec.registrations
      /\ Emptied(rec, slot).counter = rec.counter - 1
  BY <1>3, <1>4, <1>8 DEF Record
<1> QED
  BY <1>4, <1>5, <1>6, <1>8, <1>9 DEF old

\* A step that changes the array of one record.
LEMMA ArraySet ==
  ASSUME BaseInvariant, NEW c \in DOMAIN record, NEW rec \in Record,
         rec.key = record[c].key, rec.next = record[c].next,
         record' = [record EXCEPT ![c] = rec], freed_records' = freed_records,
         DOMAIN template \subseteq DOMAIN template',
         \A t \in DOMAIN template : template'[t].id = template[t].id,
         \A i \in DOMAIN rec.templates : \A k \in DOMAIN rec.templates[i] :
           rec.templates[i][k] \in DOMAIN template',
         Len(rec.templates) > 0,
         rec.counter = Cardinality(UsedIn(rec.templates)),
         \A i, j \in UsedIn(rec.templates) :
           template'[rec.templates[i][1]].id = template'[rec.templates[j][1]].id => i = j,
         pre'.pc = "send"
  PROVE  /\ record' \in Seq(Record) /\ DOMAIN record' = DOMAIN record
         /\ \A r \in DOMAIN record : record'[r] = IF r = c THEN rec ELSE record[r]
         /\ ListUnchanged /\ ListInvariant' /\ SlotsInvariant'
<1> USE DEF BaseInvariant, RecordInvariant
<1>1. /\ record' \in Seq(Record) /\ DOMAIN record' = DOMAIN record
      /\ \A r \in DOMAIN record : record'[r] = IF r = c THEN rec ELSE record[r]
  BY ExceptInSeq DEF TypeOK
<1>2. ListUnchanged
  BY <1>1 DEF ListUnchanged
<1>3. ListInvariant'
  BY <1>2, ListKept
<1>4. \A r \in DOMAIN record : r # c =>
        Used(r)' = Used(r) /\ \A i \in Used(r) : IdAt(r, i)' = IdAt(r, i)
  <2> SUFFICES ASSUME NEW r \in DOMAIN record, r # c
               PROVE  Used(r)' = Used(r) /\ \A i \in Used(r) : IdAt(r, i)' = IdAt(r, i)
    OBVIOUS
  <2>1. record'[r] = record[r]
    BY <1>1
  <2>2. Used(r)' = Used(r)
    BY <2>1 DEF Used
  <2>3. ASSUME NEW i \in Used(r) PROVE IdAt(r, i)' = IdAt(r, i)
    <3>1. record[r].templates[i][1] \in DOMAIN template
      BY HeadAllocated
    <3> QED
      BY <2>1, <3>1 DEF IdAt
  <2> QED
    BY <2>2, <2>3
<1>5. /\ Used(c)' = UsedIn(rec.templates)
      /\ \A i : IdAt(c, i)' = template'[rec.templates[i][1]].id
  BY <1>1 DEF Used, UsedIn, IdAt
<1>6. SlotsInvariant'
  <2>1. \A r \in DOMAIN record' : \A i \in DOMAIN record'[r].templates :
          \A k \in DOMAIN record'[r].templates[i] :
            record'[r].templates[i][k] \in DOMAIN template'
    BY <1>1 DEF SlotsInvariant
  <2>2. \A r \in DOMAIN record' : Len(record'[r].templates) > 0
    BY <1>1 DEF SlotsInvariant
  <2>3. ASSUME NEW r \in DOMAIN record' PROVE record'[r].counter = Cardinality(Used(r)')
    <3>1. CASE r = c
      BY <1>1, <1>5, <3>1
    <3>2. CASE r # c
      <4>1. Used(r)' = Used(r) /\ record'[r] = record[r]
        BY <1>1, <1>4, <2>3, <3>2
      <4> QED
        BY <1>1, <2>3, <4>1 DEF SlotsInvariant
    <3> QED
      BY <3>1, <3>2
  <2>4. ASSUME NEW r \in DOMAIN record', NEW i \in Used(r)', NEW j \in Used(r)',
               IdAt(r, i)' = IdAt(r, j)'
        PROVE  i = j
    <3>1. CASE r = c
      BY <1>5, <2>4, <3>1
    <3>2. CASE r # c
      BY <1>1, <1>4, <2>4, <3>2 DEF SlotsInvariant
    <3> QED
      BY <3>1, <3>2
  <2> QED
    BY <2>1, <2>2, <2>3, <2>4 DEF SlotsInvariant
<1> QED
  BY <1>1, <1>2, <1>3, <1>6

\* A template is allocated.
LEMMA NewTemplateIs ==
  ASSUME BaseInvariant, pre.pc \in {"add", "update"}, template' = Append(template, NewTemplate)
  PROVE  /\ template' \in Seq(Template)
         /\ DOMAIN template' = DOMAIN template \cup {Len(template) + 1}
         /\ Len(template) + 1 \notin DOMAIN template /\ Len(template) + 1 \in Nat
         /\ \A t \in DOMAIN template : template'[t] = template[t]
         /\ template'[Len(template) + 1] = NewTemplate
         /\ NewTemplate.id = pre.item.id /\ NewTemplate.version = pre.item.version
         /\ NewTemplate.references = 0
         /\ pre.item.type = "template" /\ pre.cur \in DOMAIN record
<1> USE DEF BaseInvariant, RecordInvariant
<1>1. pre.item.type = "template" /\ pre.cur \in DOMAIN record
  BY DEF ListInvariant
<1>2. NewTemplate \in Template
  BY <1>1, TaskType DEF NewTemplate, Template
<1>3. /\ template' \in Seq(Template)
      /\ DOMAIN template' = DOMAIN template \cup {Len(template) + 1}
      /\ \A t \in DOMAIN template : template'[t] = template[t]
      /\ template'[Len(template) + 1] = NewTemplate
  BY <1>2, Appended DEF TypeOK
<1> QED
  BY <1>1, <1>3, TemplateNumbers DEF NewTemplate

\* The record at hand, as the lemmas about arrays want it.
LEMMA ArrayOf ==
  ASSUME BaseInvariant, NEW c \in DOMAIN record
  PROVE  /\ record[c] \in Record /\ record[c].templates \in Seq(Seq(Nat))
         /\ Used(c) = UsedIn(record[c].templates)
         /\ record[c].counter = Cardinality(UsedIn(record[c].templates))
         /\ Len(record[c].templates) > 0
<1> USE DEF BaseInvariant, RecordInvariant
<1>1. record[c] \in Record /\ record[c].templates \in Seq(Seq(Nat))
  BY RecordNumbers DEF Record
<1>2. Used(c) = UsedIn(record[c].templates)
  BY DEF Used, UsedIn
<1> QED
  BY <1>1, <1>2 DEF SlotsInvariant

LEMMA AddedIs ==
  ASSUME BaseInvariant, AddTemplate
  PROVE  /\ pre.cur \in DOMAIN record /\ pre.item.type = "template"
         /\ \A i \in Used(pre.cur) : IdAt(pre.cur, i) # pre.item.id
         /\ record' = [record EXCEPT ![pre.cur] = Insert(record[pre.cur], Len(template) + 1)]
         /\ template' = Append(template, NewTemplate)
         /\ pre' \in Tasks /\ pre'.pc = "send" /\ pre'.cur = NULL
         /\ pre'.source = pre.source /\ pre'.item = pre.item /\ pre'.status = pre.status
<1> USE DEF BaseInvariant, RecordInvariant
<1>1. pre \in Tasks /\ pre.cur \in DOMAIN record /\ pre.item.type = "template"
  BY TaskType DEF AddTemplate, ListInvariant
<1>2. \A i \in Used(pre.cur) : IdAt(pre.cur, i) # pre.item.id
  <2>1. CASE pre.pc = "add"
    BY <2>1 DEF SlotsInvariant
  <2>2. CASE pre.pc = "update"
    BY <1>1, <2>2, FoundIs DEF AddTemplate, Current
  <2> QED
    BY <2>1, <2>2 DEF AddTemplate
<1>3. record' = [record EXCEPT ![pre.cur] = Insert(record[pre.cur], Len(template) + 1)]
  BY <1>1 DEF AddTemplate
<1>4. /\ pre' \in Tasks /\ pre'.pc = "send" /\ pre'.cur = NULL
      /\ pre'.source = pre.source /\ pre'.item = pre.item /\ pre'.status = pre.status
  BY <1>1 DEF AddTemplate, Go, Tasks, NULL
<1> QED
  BY <1>1, <1>2, <1>3, <1>4 DEF AddTemplate

\* An array holds templates, and no ID twice.
ArrayFine(ts) ==
  /\ \A i \in DOMAIN ts : \A k \in DOMAIN ts[i] : ts[i][k] \in DOMAIN template
  /\ \A i, j \in UsedIn(ts) : template[ts[i][1]].id = template[ts[j][1]].id => i = j

LEMMA HeadOf ==
  ASSUME NEW ts \in Seq(Seq(Nat)), NEW i \in UsedIn(ts)
  PROVE  /\ i \in DOMAIN ts /\ ts[i] \in Seq(Nat) /\ ts[i] # <<>> /\ 1 \in DOMAIN ts[i]
         /\ Len(ts[i]) > 0
         /\ ArrayFine(ts) => ts[i][1] \in DOMAIN template
<1>1. i \in DOMAIN ts /\ ts[i] \in Seq(Nat) /\ ts[i] # <<>>
  BY DEF UsedIn, Hole
<1>2. 1 \in DOMAIN ts[i] /\ Len(ts[i]) > 0
  BY <1>1
<1> QED
  BY <1>1, <1>2 DEF ArrayFine

LEMMA ArrayIsFine ==
  ASSUME BaseInvariant, NEW c \in DOMAIN record
  PROVE  ArrayFine(record[c].templates)
<1> USE DEF BaseInvariant, RecordInvariant
<1>1. Used(c) = UsedIn(record[c].templates)
  BY ArrayOf
<1>2. \A i, j \in Used(c) :
        template[record[c].templates[i][1]].id = template[record[c].templates[j][1]].id => i = j
  BY DEF SlotsInvariant, IdAt
<1>3. \A i \in DOMAIN record[c].templates : \A k \in DOMAIN record[c].templates[i] :
        record[c].templates[i][k] \in DOMAIN template
  BY DEF SlotsInvariant
<1> QED
  BY <1>1, <1>2, <1>3 DEF ArrayFine

\* Templates are only added, and stay what they are.
TemplatesExtended ==
  DOMAIN template \subseteq DOMAIN template' /\ \A t \in DOMAIN template : template'[t] = template[t]

LEMMA PlacedFine ==
  ASSUME NEW old \in Seq(Seq(Nat)), NEW new \in Seq(Seq(Nat)), NEW h, NEW n \in Nat,
         Placed(old, new, h, n), ArrayFine(old), TemplatesExtended, n \in DOMAIN template',
         \A i \in UsedIn(old) : template[old[i][1]].id # template'[n].id
  PROVE  ArrayFine(new)'
<1>0. DOMAIN <<n>> = {1} /\ <<n>>[1] = n
  OBVIOUS
<1>1. UsedIn(new) = UsedIn(old) \cup {h} /\ h \notin UsedIn(old)
  BY PlacedUsed
<1>2. ASSUME NEW i \in DOMAIN new, NEW k \in DOMAIN new[i] PROVE new[i][k] \in DOMAIN template'
  <2>1. CASE i = h
    BY <1>0, <1>2, <2>1 DEF Placed
  <2>2. CASE i # h /\ i \in DOMAIN old
    BY <1>2, <2>2 DEF Placed, ArrayFine, TemplatesExtended
  <2>3. CASE i # h /\ i \notin DOMAIN old
    <3>1. new[i] = <<>>
      BY <1>2, <2>3 DEF Placed, Hole
    <3> QED
      BY <1>2, <3>1
  <2> QED
    BY <2>1, <2>2, <2>3
<1>3. /\ new[h][1] = n
      /\ \A i \in UsedIn(old) : new[i][1] = old[i][1] /\ old[i][1] \in DOMAIN template
  <2>1. new[h][1] = n
    BY <1>0 DEF Placed
  <2>2. ASSUME NEW i \in UsedIn(old) PROVE new[i][1] = old[i][1] /\ old[i][1] \in DOMAIN template
    <3>1. i \in DOMAIN old /\ old[i][1] \in DOMAIN template /\ i # h
      BY <1>1, HeadOf
    <3> QED
      BY <3>1 DEF Placed
  <2> QED
    BY <2>1, <2>2
<1>4. ASSUME NEW i \in UsedIn(new), NEW j \in UsedIn(new),
             template'[new[i][1]].id = template'[new[j][1]].id
      PROVE  i = j
  <2>1. CASE i \in UsedIn(old) /\ j \in UsedIn(old)
    <3>1. template[old[i][1]].id = template[old[j][1]].id
      BY <1>3, <1>4, <2>1 DEF TemplatesExtended
    <3> QED
      BY <2>1, <3>1 DEF ArrayFine
  <2>2. CASE i = h /\ j \in UsedIn(old)
    BY <1>3, <1>4, <2>2 DEF TemplatesExtended
  <2>3. CASE j = h /\ i \in UsedIn(old)
    BY <1>3, <1>4, <2>3 DEF TemplatesExtended
  <2> QED
    BY <1>1, <1>4, <2>1, <2>2, <2>3
<1> QED
  BY <1>2, <1>4 DEF ArrayFine

LEMMA ClearedFine ==
  ASSUME NEW old \in Seq(Seq(Nat)), NEW new \in Seq(Seq(Nat)), NEW h \in UsedIn(old),
         Cleared(old, new, h), ArrayFine(old)
  PROVE  /\ ArrayFine(new) /\ UsedIn(new) = UsedIn(old) \ {h}
         /\ \A i \in UsedIn(new) : template[new[i][1]].id # template[old[h][1]].id
<1>1. UsedIn(new) = UsedIn(old) \ {h}
  BY DEF Cleared, UsedIn
<1>2. \A i \in UsedIn(new) : new[i] = old[i]
  BY <1>1 DEF Cleared, UsedIn
<1>3. ASSUME NEW i \in DOMAIN new, NEW k \in DOMAIN new[i] PROVE new[i][k] \in DOMAIN template
  <2>1. CASE i = h
    <3>1. new[i] = <<>>
      BY <2>1 DEF Cleared, Hole
    <3> QED
      BY <1>3, <3>1
  <2>2. CASE i # h
    BY <1>3, <2>2 DEF Cleared, ArrayFine
  <2> QED
    BY <2>1, <2>2
<1> QED
  BY <1>1, <1>2, <1>3 DEF ArrayFine

LEMMA AddTemplateBase ==
  ASSUME BaseInvariant, AddTemplate
  PROVE  BaseInvariant'
<1> USE DEF BaseInvariant, RecordInvariant
<1>1. PICK c, n : c = pre.cur /\ n = Len(template) + 1
  OBVIOUS
<1>2. /\ c \in DOMAIN record /\ \A i \in Used(c) : IdAt(c, i) # pre.item.id
      /\ record' = [record EXCEPT ![c] = Insert(record[c], n)]
      /\ template' = Append(template, NewTemplate)
      /\ pre' \in Tasks /\ pre'.pc = "send" /\ pre'.cur = NULL
  BY <1>1, AddedIs
<1>3. /\ template' \in Seq(Template) /\ DOMAIN template' = DOMAIN template \cup {n}
      /\ n \notin DOMAIN template /\ n \in Nat
      /\ \A t \in DOMAIN template : template'[t] = template[t]
      /\ template'[n].id = pre.item.id
  BY <1>1, <1>2, NewTemplateIs DEF AddTemplate
<1>4. PICK old : old = record[c].templates
  OBVIOUS
<1>5. PICK rec : rec = Insert(record[c], n)
  OBVIOUS
<1>6. /\ old \in Seq(Seq(Nat)) /\ ArrayFine(old) /\ Used(c) = UsedIn(old)
      /\ record[c].counter = Cardinality(UsedIn(old))
  BY <1>2, <1>4, ArrayOf, ArrayIsFine
<1>7. /\ rec \in Record /\ rec.key = record[c].key /\ rec.next = record[c].next
      /\ rec.counter = record[c].counter + 1 /\ Len(rec.templates) > 0
      /\ \E h \in Nat : Placed(old, rec.templates, h, n)
  BY <1>2, <1>3, <1>4, <1>5, ArrayOf, InsertIs
<1>8. PICK h \in Nat : Placed(old, rec.templates, h, n)
  BY <1>7
<1>9. PICK new : new = rec.templates /\ new \in Seq(Seq(Nat))
  BY <1>7 DEF Record
<1>10. ArrayFine(new)'
  <2>1. TemplatesExtended /\ n \in DOMAIN template'
    BY <1>3 DEF TemplatesExtended
  <2>2. \A i \in UsedIn(old) : template[old[i][1]].id # template'[n].id
    BY <1>2, <1>3, <1>4, <1>6 DEF IdAt
  <2> QED
    BY <1>3, <1>6, <1>8, <1>9, <2>1, <2>2, PlacedFine
<1>11. rec.counter = Cardinality(UsedIn(rec.templates))
  BY <1>6, <1>7, <1>8, <1>9, PlacedUsed
<1>12. record' \in Seq(Record) /\ DOMAIN record' = DOMAIN record /\ ListInvariant' /\ SlotsInvariant'
  <2>1. /\ \A i \in DOMAIN rec.templates : \A k \in DOMAIN rec.templates[i] :
             rec.templates[i][k] \in DOMAIN template'
        /\ \A i, j \in UsedIn(rec.templates) :
             template'[rec.templates[i][1]].id = template'[rec.templates[j][1]].id => i = j
    BY <1>9, <1>10 DEF ArrayFine
  <2>2. record' = [record EXCEPT ![c] = rec] /\ freed_records' = freed_records
    BY <1>2, <1>5 DEF AddTemplate
  <2>3. /\ DOMAIN template \subseteq DOMAIN template'
        /\ \A t \in DOMAIN template : template'[t].id = template[t].id
    BY <1>3
  <2>4. /\ rec \in Record /\ rec.key = record[c].key /\ rec.next = record[c].next
        /\ Len(rec.templates) > 0 /\ c \in DOMAIN record /\ pre'.pc = "send"
    BY <1>2, <1>7
  <2> QED
    BY <1>11, <2>1, <2>2, <2>3, <2>4, ArraySet
<1>13. TypeOK'
  <2>1. freed_templates' \subseteq DOMAIN template'
    BY <1>3 DEF AddTemplate, TypeOK
  <2> QED
    BY <1>2, <1>3, <1>12, <2>1 DEF TypeOK, history, AddTemplate, output_vars, exporter_vars
<1>14. PointersInvariant'
  BY <1>2, <1>3, PointersKept DEF AddTemplate, output_vars
<1> QED
  BY <1>12, <1>13, <1>14

\* The ways in which an update changes the array old of the record at hand,
\* where chain is what slot holds and unused says that nobody refers to its head.
UpdatedIs(old, new, slot, n, unused) ==
  IF unused /\ Len(old[slot]) = 1
  THEN \E mid \in Seq(Seq(Nat)) : \E h \in Nat : Cleared(old, mid, slot) /\ Placed(mid, new, h, n)
  ELSE new = [old EXCEPT ![slot] = <<n>> \o (IF unused THEN Tail(old[slot]) ELSE old[slot])]

LEMMA UpdatedRecord ==
  ASSUME NEW rec \in Record, rec.counter = Cardinality(UsedIn(rec.templates)),
         Len(rec.templates) > 0, NEW slot \in UsedIn(rec.templates), NEW n \in Nat
  PROVE  LET new == Insert(Emptied(rec, slot), n)
         IN  /\ new \in Record /\ new.key = rec.key /\ new.next = rec.next
             /\ new.registrations = rec.registrations /\ Len(new.templates) > 0
             /\ new.counter = Cardinality(UsedIn(new.templates))
             /\ \E mid \in Seq(Seq(Nat)) : \E h \in Nat :
                  Cleared(rec.templates, mid, slot) /\ Placed(mid, new.templates, h, n)
<1>1. PICK e : e = Emptied(rec, slot)
  OBVIOUS
<1>2. /\ e \in Record /\ e.key = rec.key /\ e.next = rec.next
      /\ e.registrations = rec.registrations
      /\ e.counter = Cardinality(UsedIn(e.templates))
      /\ Len(e.templates) = Len(rec.templates)
      /\ Cleared(rec.templates, e.templates, slot)
  BY <1>1, EmptiedIs
<1>3. PICK new : new = Insert(e, n)
  OBVIOUS
<1>4. /\ new \in Record /\ new.key = e.key /\ new.next = e.next
      /\ new.registrations = e.registrations /\ new.counter = e.counter + 1
      /\ Len(new.templates) > 0
      /\ \E h \in Nat : Placed(e.templates, new.templates, h, n)
  BY <1>2, <1>3, InsertIs
<1>5. PICK h \in Nat : Placed(e.templates, new.templates, h, n)
  BY <1>4
<1>6. e.templates \in Seq(Seq(Nat)) /\ new.templates \in Seq(Seq(Nat))
  BY <1>2, <1>4 DEF Record
<1>7. new.counter = Cardinality(UsedIn(new.templates))
  BY <1>2, <1>4, <1>5, <1>6, PlacedUsed
<1> QED
  BY <1>1, <1>2, <1>3, <1>4, <1>5, <1>6, <1>7

\* What an array is when a newer template goes before the others in a slot.
LEMMA Chained ==
  ASSUME NEW old \in Seq(Seq(Nat)), NEW slot \in UsedIn(old),
         NEW chain \in Seq(Nat), chain # <<>>
  PROVE  LET ts == [old EXCEPT ![slot] = chain]
         IN  /\ ts \in Seq(Seq(Nat)) /\ Len(ts) = Len(old) /\ DOMAIN ts = DOMAIN old
             /\ \A i \in DOMAIN old : ts[i] = IF i = slot THEN chain ELSE old[i]
             /\ UsedIn(ts) = UsedIn(old)
<1>1. PICK ts : ts = [old EXCEPT ![slot] = chain]
  OBVIOUS
<1>2. /\ ts \in Seq(Seq(Nat)) /\ Len(ts) = Len(old) /\ DOMAIN ts = DOMAIN old
      /\ \A i \in DOMAIN old : ts[i] = IF i = slot THEN chain ELSE old[i]
  BY <1>1, ExceptInArray
<1>3. UsedIn(ts) = UsedIn(old)
  BY <1>2 DEF UsedIn, Hole
<1> QED
  BY <1>1, <1>2, <1>3

\* What the update of a template does when its content is new.
LEMMA UpdateIs ==
  ASSUME BaseInvariant, UpdateTemplate, template[Current].version # pre.item.version
  PROVE  \E c \in DOMAIN record, slot \in Nat, rec \in Record, unused \in BOOLEAN :
           /\ c = pre.cur /\ slot \in Used(c) /\ IdAt(c, slot) = pre.item.id
           /\ record[c].templates[slot][1] = Current
           /\ unused <=> template[Current].references = 0
           /\ template' = Append(template, NewTemplate)
           /\ record' = [record EXCEPT ![c] = rec]
           /\ rec.key = record[c].key /\ rec.next = record[c].next
           /\ rec.registrations = record[c].registrations
           /\ Len(rec.templates) > 0 /\ rec.counter = Cardinality(UsedIn(rec.templates))
           /\ UpdatedIs(record[c].templates, rec.templates, slot, Len(template) + 1, unused)
           /\ freed_templates' = IF unused THEN freed_templates \cup {Current} ELSE freed_templates
<1> USE DEF BaseInvariant, RecordInvariant
<1>1. PICK c, n : c = pre.cur /\ n = Len(template) + 1
  OBVIOUS
<1>2. c \in DOMAIN record /\ n \in Nat
  BY <1>1, TemplateNumbers DEF UpdateTemplate, ListInvariant
<1>3. tm_record_get_template(c, pre.item.id) = Current /\ Current # NULL
  BY <1>1 DEF UpdateTemplate, Current
<1>4. PICK slot : slot = SlotOf(c, pre.item.id)
  OBVIOUS
<1>5. /\ slot \in Used(c) /\ IdAt(c, slot) = pre.item.id /\ slot \in Nat
      /\ record[c].templates[slot][1] = Current /\ Current \in DOMAIN template
  BY <1>2, <1>3, <1>4, FoundIs, HeadAllocated
<1>6. template' = Append(template, NewTemplate) /\ Update(c, slot, n)
  BY <1>1, <1>4 DEF UpdateTemplate
<1>7. PICK old : old = record[c].templates
  OBVIOUS
<1>8. /\ record[c] \in Record /\ old \in Seq(Seq(Nat)) /\ slot \in UsedIn(old)
      /\ record[c].counter = Cardinality(UsedIn(old)) /\ Len(old) > 0
  BY <1>2, <1>5, <1>7, ArrayOf
<1>9. PICK unused \in BOOLEAN : unused <=> template[Current].references = 0
  OBVIOUS
<1>10. freed_templates' = IF unused THEN freed_templates \cup {Current} ELSE freed_templates
  BY <1>5, <1>6, <1>9 DEF Update
<1>11. CASE unused /\ Len(old[slot]) = 1
  <2>1. PICK rec : rec = Insert(Emptied(record[c], slot), n)
    OBVIOUS
  <2>2. record' = [record EXCEPT ![c] = rec]
    BY <1>2, <1>5, <1>6, <1>7, <1>9, <1>11, <2>1 DEF Update
  <2>3. /\ rec \in Record /\ rec.key = record[c].key /\ rec.next = record[c].next
        /\ rec.registrations = record[c].registrations /\ Len(rec.templates) > 0
        /\ rec.counter = Cardinality(UsedIn(rec.templates))
        /\ \E mid \in Seq(Seq(Nat)) : \E h \in Nat :
             Cleared(old, mid, slot) /\ Placed(mid, rec.templates, h, n)
    BY <1>2, <1>7, <1>8, <2>1, UpdatedRecord
  <2>4. UpdatedIs(old, rec.templates, slot, n, unused)
    BY <1>11, <2>3 DEF UpdatedIs
  <2> QED
    BY <1>1, <1>2, <1>4, <1>5, <1>6, <1>7, <1>9, <1>10, <2>2, <2>3, <2>4
<1>12. CASE ~(unused /\ Len(old[slot]) = 1)
  <2>1. PICK chain : chain = <<n>> \o (IF unused THEN Tail(old[slot]) ELSE old[slot])
    OBVIOUS
  <2>2. chain \in Seq(Nat) /\ chain # <<>>
    <3>1. old[slot] \in Seq(Nat) /\ old[slot] # <<>>
      BY <1>8, HeadOf
    <3>2. Tail(old[slot]) \in Seq(Nat)
      BY <3>1
    <3>3. PICK rest \in Seq(Nat) : rest = IF unused THEN Tail(old[slot]) ELSE old[slot]
      BY <3>1, <3>2
    <3>4. <<n>> \o rest \in Seq(Nat) /\ <<n>> \o rest # <<>>
      BY <1>2
    <3> QED
      BY <2>1, <3>3, <3>4
  <2>3. PICK rec : rec = [record[c] EXCEPT !.templates[slot] = chain]
    OBVIOUS
  <2>4. record' = [record EXCEPT ![c] = rec]
    BY <1>2, <1>5, <1>6, <1>7, <1>9, <1>12, <2>1, <2>3 DEF Update
  <2>5. /\ rec \in Record /\ rec.key = record[c].key /\ rec.next = record[c].next
        /\ rec.registrations = record[c].registrations /\ Len(rec.templates) = Len(old)
        /\ rec.counter = Cardinality(UsedIn(rec.templates))
        /\ rec.templates = [old EXCEPT ![slot] = chain]
    <3>1. PICK ts : ts = [old EXCEPT ![slot] = chain]
      OBVIOUS
    <3>2. ts \in Seq(Seq(Nat)) /\ Len(ts) = Len(old) /\ UsedIn(ts) = UsedIn(old)
      BY <1>8, <2>2, <3>1, Chained, ZenonT(30)
    <3>3. rec = [record[c] EXCEPT !.templates = ts]
      BY <1>7, <1>8, <2>3, <3>1 DEF Record
    <3>4. /\ rec \in Record /\ rec.key = record[c].key /\ rec.next = record[c].next
          /\ rec.registrations = record[c].registrations /\ rec.templates = ts
          /\ rec.counter = record[c].counter
      <4>1. ts \in Seq(Seq(Nat)) /\ record[c] \in Record
        BY <1>8, <3>2
      <4> QED
        BY <3>3, <4>1 DEF Record
    <3> QED
      BY <1>8, <3>1, <3>2, <3>4
  <2>6. UpdatedIs(old, rec.templates, slot, n, unused)
    BY <1>12, <2>1, <2>5 DEF UpdatedIs
  <2> QED
    BY <1>1, <1>2, <1>4, <1>5, <1>6, <1>7, <1>8, <1>9, <1>10, <2>4, <2>5, <2>6
<1> QED
  BY <1>11, <1>12

\* The chain of a slot with a newer template before it.
LEMMA NewChain ==
  ASSUME NEW chain \in Seq(Nat), chain # <<>>, NEW n \in Nat, NEW unused \in BOOLEAN,
         NEW rest, rest = IF unused THEN Tail(chain) ELSE chain,
         NEW new, new = <<n>> \o rest,
         NEW d, d = IF unused THEN 0 ELSE 1
  PROVE  /\ new \in Seq(Nat) /\ new # <<>> /\ 1 \in DOMAIN new /\ new[1] = n
         /\ \A k \in DOMAIN new : k # 1 => k - d \in DOMAIN chain /\ new[k] = chain[k - d]
         /\ \A k \in DOMAIN chain : (unused => k # 1) =>
              k + d \in DOMAIN new /\ k + d # 1 /\ new[k + d] = chain[k]
         /\ \A k \in DOMAIN new : k # 1 => (unused => k - d # 1)
<1>1. chain \in Seq(Nat) /\ Len(chain) \in Nat \ {0} /\ DOMAIN chain = 1 .. Len(chain)
  OBVIOUS
<1>2. CASE unused
  <2>1. rest \in Seq(Nat) /\ rest = Tail(chain)
    BY <1>2, Shortened
  <2>2. Len(rest) = Len(chain) - 1 /\ \A k \in 1 .. Len(rest) : rest[k] = chain[k + 1]
    BY <2>1
  <2>3. new = <<n>> \o rest /\ Len(rest) \in Nat
    BY <1>2, <2>1
  <2>4. /\ new \in Seq(Nat) /\ Len(new) = Len(rest) + 1 /\ DOMAIN new = 1 .. (Len(rest) + 1)
        /\ new[1] = n /\ \A k \in 2 .. (Len(rest) + 1) : new[k] = rest[k - 1]
    BY <2>3
  <2>5. DOMAIN new = DOMAIN chain /\ new # <<>> /\ 1 \in DOMAIN new
    <3>1. Len(rest) + 1 = Len(chain)
      BY ONLY <1>1, <2>2
    <3>2. 1 \in 1 .. Len(chain)
      BY <1>1
    <3> QED
      BY <1>1, <2>4, <3>1, <3>2
  <2>6. ASSUME NEW k \in DOMAIN new, k # 1 PROVE new[k] = chain[k]
    <3>1. k \in 2 .. (Len(rest) + 1) /\ k - 1 \in 1 .. Len(rest)
      <4>1. k \in 1 .. (Len(rest) + 1) /\ Len(rest) \in Nat
        BY <2>3, <2>4, <2>6
      <4> QED
        BY <2>6, <4>1
    <3>2. new[k] = rest[k - 1] /\ rest[k - 1] = chain[k - 1 + 1]
      BY <2>2, <2>4, <3>1
    <3> QED
      BY <3>1, <3>2
  <2>7. \A k \in DOMAIN chain : k - 0 = k /\ k + 0 = k
    BY <1>1
  <2> QED
    BY <1>2, <2>1, <2>3, <2>4, <2>5, <2>6, <2>7
<1>3. CASE ~unused
  <2>1. new = <<n>> \o chain
    BY <1>3
  <2>2. /\ new \in Seq(Nat) /\ Len(new) = Len(chain) + 1 /\ DOMAIN new = 1 .. (Len(chain) + 1)
        /\ new[1] = n /\ \A k \in 2 .. (Len(chain) + 1) : new[k] = chain[k - 1]
    BY <2>1
  <2>3. ASSUME NEW k \in DOMAIN new, k # 1 PROVE k - 1 \in DOMAIN chain /\ new[k] = chain[k - 1]
    BY <1>1, <2>2, <2>3
  <2>4. ASSUME NEW k \in DOMAIN chain PROVE k + 1 \in DOMAIN new /\ k + 1 # 1 /\ new[k + 1] = chain[k]
    <3>1. k + 1 \in 2 .. (Len(chain) + 1) /\ k + 1 - 1 = k
      BY <1>1, <2>4
    <3> QED
      BY <1>1, <2>2, <3>1
  <2>5. new # <<>> /\ 1 \in DOMAIN new
    BY <1>1, <2>2
  <2> QED
    BY <1>3, <2>1, <2>2, <2>3, <2>4, <2>5
<1> QED
  BY <1>2, <1>3

\* The same for uses that need not know how the chain was put together.
Renewed(new, chain, n, unused, d) ==
  /\ chain \in Seq(Nat) /\ chain # <<>> /\ n \in Nat /\ unused \in BOOLEAN
  /\ \E rest : /\ rest = IF unused THEN Tail(chain) ELSE chain
               /\ new = <<n>> \o rest
  /\ d = IF unused THEN 0 ELSE 1

LEMMA RenewedChain ==
  ASSUME NEW new, NEW chain, NEW n, NEW unused, NEW d, Renewed(new, chain, n, unused, d)
  PROVE  /\ new \in Seq(Nat) /\ new # <<>> /\ 1 \in DOMAIN new /\ new[1] = n
         /\ \A k \in DOMAIN new : k # 1 => k - d \in DOMAIN chain /\ new[k] = chain[k - d]
         /\ \A k \in DOMAIN chain : (unused => k # 1) =>
              k + d \in DOMAIN new /\ k + d # 1 /\ new[k + d] = chain[k]
         /\ \A k \in DOMAIN new : k # 1 => (unused => k - d # 1)
<1>1. /\ chain \in Seq(Nat) /\ chain # <<>> /\ n \in Nat /\ unused \in BOOLEAN
      /\ d = IF unused THEN 0 ELSE 1
  BY DEF Renewed
<1>2. PICK rest : rest = (IF unused THEN Tail(chain) ELSE chain) /\ new = <<n>> \o rest
  BY DEF Renewed
<1> QED
  BY ONLY <1>1, <1>2, NewChain, SMTT(60)

LEMMA UpdatedFine ==
  ASSUME NEW old \in Seq(Seq(Nat)), NEW new \in Seq(Seq(Nat)), NEW slot \in UsedIn(old),
         NEW n \in Nat, NEW unused \in BOOLEAN, UpdatedIs(old, new, slot, n, unused),
         ArrayFine(old), TemplatesExtended, n \in DOMAIN template',
         template[old[slot][1]].id = template'[n].id
  PROVE  ArrayFine(new)'
<1>1. CASE unused /\ Len(old[slot]) = 1
  <2>1. PICK mid \in Seq(Seq(Nat)), h \in Nat : Cleared(old, mid, slot) /\ Placed(mid, new, h, n)
    BY <1>1 DEF UpdatedIs
  <2>2. /\ ArrayFine(mid)
        /\ \A i \in UsedIn(mid) : template[mid[i][1]].id # template'[n].id
    BY <2>1, ClearedFine
  <2> QED
    BY <2>1, <2>2, PlacedFine
<1>2. CASE ~(unused /\ Len(old[slot]) = 1)
  <2>0. PICK rest : rest = IF unused THEN Tail(old[slot]) ELSE old[slot]
    OBVIOUS
  <2>1. PICK chain : chain = <<n>> \o rest
    OBVIOUS
  <2>2. new = [old EXCEPT ![slot] = chain]
    BY <1>2, <2>0, <2>1 DEF UpdatedIs
  <2>3. PICK was : was = old[slot]
    OBVIOUS
  <2>4. was \in Seq(Nat) /\ was # <<>> /\ slot \in DOMAIN old
    BY <2>3, HeadOf
  <2>5. PICK d \in {0, 1} : d = IF unused THEN 0 ELSE 1
    OBVIOUS
  <2>6. /\ chain \in Seq(Nat) /\ chain # <<>> /\ chain[1] = n
        /\ \A k \in DOMAIN chain : k # 1 => k - d \in DOMAIN was /\ chain[k] = was[k - d]
    <3>1. Renewed(chain, was, n, unused, d)
      BY <2>0, <2>1, <2>3, <2>4, <2>5 DEF Renewed
    <3> QED
      BY ONLY <3>1, RenewedChain
  <2>7. /\ DOMAIN new = DOMAIN old /\ UsedIn(new) = UsedIn(old)
        /\ \A i \in DOMAIN old : new[i] = IF i = slot THEN chain ELSE old[i]
    BY <2>2, <2>6, Chained, ZenonT(30)
  <2>8. ASSUME NEW i \in DOMAIN new, NEW k \in DOMAIN new[i] PROVE new[i][k] \in DOMAIN template'
    <3>1. CASE i # slot
      BY <2>7, <2>8, <3>1 DEF ArrayFine, TemplatesExtended
    <3>2. CASE i = slot /\ k = 1
      BY <2>6, <2>7, <2>8, <3>2
    <3>3. CASE i = slot /\ k # 1
      <4>1. k - d \in DOMAIN old[slot] /\ new[i][k] = old[slot][k - d]
        BY <2>3, <2>6, <2>7, <2>8, <3>3
      <4> QED
        BY <2>4, <4>1 DEF ArrayFine, TemplatesExtended
    <3> QED
      BY <3>1, <3>2, <3>3
  <2>9. ASSUME NEW i \in UsedIn(new) PROVE template'[new[i][1]].id = template[old[i][1]].id
    <3>1. i \in UsedIn(old) /\ i \in DOMAIN old /\ old[i][1] \in DOMAIN template
      BY <2>7, <2>9, HeadOf
    <3>2. CASE i = slot
      BY <2>6, <2>7, <3>1, <3>2
    <3>3. CASE i # slot
      BY <2>7, <3>1, <3>3 DEF TemplatesExtended
    <3> QED
      BY <3>2, <3>3
  <2>10. ASSUME NEW i \in UsedIn(new), NEW j \in UsedIn(new),
                template'[new[i][1]].id = template'[new[j][1]].id
         PROVE  i = j
    BY <2>7, <2>9, <2>10 DEF ArrayFine
  <2> QED
    BY <2>8, <2>10 DEF ArrayFine
<1> QED
  BY <1>1, <1>2

LEMMA UpdateTemplateTask ==
  ASSUME BaseInvariant, UpdateTemplate
  PROVE  /\ pre' \in Tasks /\ pre'.pc = "send" /\ pre'.cur = NULL
         /\ pre'.source = pre.source /\ pre'.item = pre.item /\ pre'.status = pre.status
<1>1. pre \in Tasks
  BY TaskType DEF UpdateTemplate, BaseInvariant
<1> QED
  BY <1>1 DEF UpdateTemplate, Go, Tasks, NULL

LEMMA UpdateTemplateBase ==
  ASSUME BaseInvariant, UpdateTemplate
  PROVE  BaseInvariant'
<1> USE DEF BaseInvariant, RecordInvariant
<1>1. pre' \in Tasks /\ pre'.pc = "send" /\ pre'.cur = NULL
  BY UpdateTemplateTask
<1>2. CASE template[Current].version = pre.item.version
  <2>1. UNCHANGED <<template, record, freed_templates, freed_records>>
    BY <1>2 DEF UpdateTemplate
  <2>2. ListUnchanged /\ SlotsUnchanged
    BY <2>1 DEF ListUnchanged, SlotsUnchanged
  <2>3. ListInvariant' /\ SlotsInvariant'
    BY <1>1, <2>2, ListKept, SlotsKept
  <2>4. TypeOK'
    BY <1>1, <2>1 DEF TypeOK, history, UpdateTemplate, output_vars, exporter_vars
  <2>5. PointersInvariant'
    BY <1>1, <2>1, PointersKept DEF UpdateTemplate, output_vars
  <2> QED
    BY <2>3, <2>4, <2>5
<1>3. CASE template[Current].version # pre.item.version
  <2>1. PICK n : n = Len(template) + 1
    OBVIOUS
  <2>2. PICK c \in DOMAIN record, slot \in Nat, rec \in Record, unused \in BOOLEAN :
           /\ c = pre.cur /\ slot \in Used(c) /\ IdAt(c, slot) = pre.item.id
           /\ record[c].templates[slot][1] = Current
           /\ template' = Append(template, NewTemplate)
           /\ record' = [record EXCEPT ![c] = rec]
           /\ rec.key = record[c].key /\ rec.next = record[c].next
           /\ Len(rec.templates) > 0 /\ rec.counter = Cardinality(UsedIn(rec.templates))
           /\ UpdatedIs(record[c].templates, rec.templates, slot, n, unused)
           /\ freed_templates' = IF unused THEN freed_templates \cup {Current} ELSE freed_templates
    BY <1>3, <2>1, UpdateIs
  <2>3. /\ template' \in Seq(Template) /\ DOMAIN template' = DOMAIN template \cup {n}
        /\ n \notin DOMAIN template /\ n \in Nat
        /\ \A t \in DOMAIN template : template'[t] = template[t]
        /\ template'[n].id = pre.item.id
    BY <2>1, <2>2, NewTemplateIs DEF UpdateTemplate
  <2>4. PICK old, new : old = record[c].templates /\ new = rec.templates
    OBVIOUS
  <2>5. /\ old \in Seq(Seq(Nat)) /\ ArrayFine(old) /\ slot \in UsedIn(old)
        /\ new \in Seq(Seq(Nat))
    BY <2>2, <2>4, ArrayOf, ArrayIsFine DEF Record
  <2>6. Current \in DOMAIN template
    BY <2>2, HeadAllocated
  <2>7. ArrayFine(new)'
    <3>1. TemplatesExtended /\ n \in DOMAIN template'
      BY <2>3 DEF TemplatesExtended
    <3>2. template[old[slot][1]].id = template'[n].id
      BY <2>2, <2>3, <2>4 DEF IdAt
    <3>3. UpdatedIs(old, new, slot, n, unused)
      BY <2>2, <2>4
    <3> QED
      BY <2>3, <2>5, <3>1, <3>2, <3>3, UpdatedFine
  <2>8. record' \in Seq(Record) /\ DOMAIN record' = DOMAIN record /\ ListInvariant' /\ SlotsInvariant'
    <3>1. /\ \A i \in DOMAIN rec.templates : \A k \in DOMAIN rec.templates[i] :
               rec.templates[i][k] \in DOMAIN template'
          /\ \A i, j \in UsedIn(rec.templates) :
               template'[rec.templates[i][1]].id = template'[rec.templates[j][1]].id => i = j
      BY <2>4, <2>7 DEF ArrayFine
    <3>2. record' = [record EXCEPT ![c] = rec] /\ freed_records' = freed_records
      BY <2>2 DEF UpdateTemplate
    <3>3. /\ DOMAIN template \subseteq DOMAIN template'
          /\ \A t \in DOMAIN template : template'[t].id = template[t].id
      BY <2>3
    <3>4. /\ rec.key = record[c].key /\ rec.next = record[c].next
          /\ Len(rec.templates) > 0 /\ rec.counter = Cardinality(UsedIn(rec.templates))
      BY <2>2
    <3> QED
      BY <1>1, <3>1, <3>2, <3>3, <3>4, ArraySet
  <2>9. TypeOK'
    <3>1. freed_templates' \subseteq DOMAIN template'
      BY <2>2, <2>3, <2>6 DEF TypeOK
    <3> QED
      BY <1>1, <2>3, <2>8, <3>1 DEF TypeOK, history, UpdateTemplate, output_vars, exporter_vars
  <2>10. PointersInvariant'
    BY <1>1, <2>3, PointersKept DEF UpdateTemplate, output_vars
  <2> QED
    BY <2>8, <2>9, <2>10
<1> QED
  BY <1>2, <1>3

LEMMA WithdrawTemplateBase ==
  ASSUME BaseInvariant, WithdrawTemplate
  PROVE  BaseInvariant'
<1> USE DEF BaseInvariant, RecordInvariant
<1>1. pre \in Tasks /\ pre.cur \in {NULL} \cup DOMAIN record
  BY WalkFinds DEF WithdrawTemplate
<1>2. pre' \in Tasks /\ pre'.pc = "send" /\ pre'.cur = NULL
  BY <1>1 DEF WithdrawTemplate, Go, Tasks, NULL
<1>3. UNCHANGED <<template, freed_records>>
  BY DEF WithdrawTemplate
<1>4. record' \in Seq(Record) /\ DOMAIN record' = DOMAIN record /\ ListInvariant' /\ SlotsInvariant'
      /\ freed_templates' \subseteq DOMAIN template'
  <2>1. CASE Current = NULL
    <3>1. UNCHANGED <<record, freed_templates>>
      BY <2>1 DEF WithdrawTemplate
    <3>2. ListUnchanged /\ SlotsUnchanged
      BY <1>3, <3>1 DEF ListUnchanged, SlotsUnchanged
    <3>3. ListInvariant' /\ SlotsInvariant'
      BY <1>2, <3>2, ListKept, SlotsKept
    <3> QED
      BY <1>3, <3>1, <3>3 DEF TypeOK
  <2>2. CASE Current # NULL
    <3>1. PICK c, slot : c = pre.cur /\ slot = SlotOf(pre.cur, pre.item.id)
      OBVIOUS
    <3>2. c \in DOMAIN record
      BY <1>1, <2>2, <3>1, CurrentIs
    <3>3. slot \in Used(c)
      BY <2>2, <3>1, <3>2, FoundIs DEF Current
    <3>4. PICK old, rec : old = record[c].templates /\ rec = Emptied(record[c], slot)
      OBVIOUS
    <3>5. /\ record' = [record EXCEPT ![c] = rec]
          /\ freed_templates' = freed_templates \cup ToSet(old[slot])
      BY <2>2, <3>1, <3>2, <3>4 DEF WithdrawTemplate
    <3>6. /\ record[c] \in Record /\ old \in Seq(Seq(Nat)) /\ slot \in UsedIn(old)
          /\ record[c].counter = Cardinality(UsedIn(old)) /\ Len(old) > 0 /\ ArrayFine(old)
      BY <3>2, <3>3, <3>4, ArrayOf, ArrayIsFine
    <3>7. /\ rec \in Record /\ rec.key = record[c].key /\ rec.next = record[c].next
          /\ rec.counter = Cardinality(UsedIn(rec.templates))
          /\ Len(rec.templates) = Len(old) /\ Cleared(old, rec.templates, slot)
      BY <3>4, <3>6, EmptiedIs
    <3>8. rec.templates \in Seq(Seq(Nat))
      BY <3>7 DEF Record
    <3>9. ArrayFine(rec.templates)
      BY <3>6, <3>7, <3>8, ClearedFine
    <3>10. /\ \A i \in DOMAIN rec.templates : \A k \in DOMAIN rec.templates[i] :
                rec.templates[i][k] \in DOMAIN template'
           /\ \A i, j \in UsedIn(rec.templates) :
                template'[rec.templates[i][1]].id = template'[rec.templates[j][1]].id => i = j
      BY <1>3, <3>9 DEF ArrayFine
    <3>11. record' \in Seq(Record) /\ DOMAIN record' = DOMAIN record /\ ListInvariant' /\ SlotsInvariant'
      <4>1. /\ DOMAIN template \subseteq DOMAIN template' /\ freed_records' = freed_records
            /\ \A t \in DOMAIN template : template'[t].id = template[t].id
        BY <1>3
      <4> QED
        BY <1>2, <3>2, <3>5, <3>6, <3>7, <3>10, <4>1, ArraySet
    <3>12. ToSet(old[slot]) \subseteq DOMAIN template
      <4>1. slot \in DOMAIN old
        BY <3>6 DEF UsedIn
      <4> QED
        BY <3>6, <4>1 DEF ArrayFine, ToSet
    <3> QED
      BY <1>3, <3>5, <3>11, <3>12 DEF TypeOK
  <2> QED
    BY <2>1, <2>2
<1>5. TypeOK'
  BY <1>2, <1>3, <1>4 DEF TypeOK, WithdrawTemplate, output_vars, exporter_vars
<1>6. PointersInvariant'
  BY <1>2, <1>3, PointersKept DEF WithdrawTemplate, output_vars
<1> QED
  BY <1>4, <1>5, <1>6

LEMMA StutterBase ==
  ASSUME BaseInvariant, UNCHANGED vars
  PROVE  BaseInvariant'
<1> USE DEF BaseInvariant, RecordInvariant
<1>1. /\ UNCHANGED <<record, template, freed_records, freed_templates, pre, pipe>>
      /\ UNCHANGED <<data_managers, store_queue, closing, releasing>>
      /\ UNCHANGED <<session, connected, sent, packets, refused, withdrawn>>
  BY DEF vars, manager_vars, history, output_vars, exporter_vars
<1>2. ListUnchanged /\ SlotsUnchanged
  BY <1>1 DEF ListUnchanged, SlotsUnchanged
<1>3. ListInvariant' /\ SlotsInvariant'
  BY <1>1, <1>2, ListKept, SlotsKept
<1>4. TypeOK'
  BY <1>1 DEF TypeOK, history
<1>5. PointersInvariant'
  BY <1>1 DEF PointersInvariant
<1> QED
  BY <1>3, <1>4, <1>5

LEMMA NextBase == BaseInvariant /\ [Next]_vars => BaseInvariant'
<1> SUFFICES ASSUME BaseInvariant, [Next]_vars PROVE BaseInvariant'
  OBVIOUS
<1>1. ASSUME NEW s \in Sources, Exporter(s) PROVE BaseInvariant'
  BY <1>1, ReceiveNewBase, ReceivePacketBase, ReceiveClosedBase DEF Exporter
<1>2. CASE Preprocessor
  BY <1>2, RegisterBase, CountRegistrationBase, WalkBase, FindRecordBase, AddTemplateBase,
     UpdateTemplateBase, WithdrawTemplateBase, GetTemplateBase, CoupleDataBase, SendBase
     DEF Preprocessor
<1>3. CASE OutputManager
  BY <1>3, ForwardBase, SourceClosedBase, RemoveManagerBase DEF OutputManager
<1>4. ASSUME NEW o \in Odids, TestReferences(o) \/ ReleaseMessage(o) PROVE BaseInvariant'
  BY <1>4, TestReferencesBase, ReleaseMessageBase
<1>5. CASE UNCHANGED vars
  BY <1>5, StutterBase
<1> QED
  BY <1>1, <1>2, <1>3, <1>4, <1>5 DEF Next

\* The types of the variables, the list of records and the arrays of templates,
\* for every behaviour, whatever the two threads do in between.
THEOREM BaseCorrect == Spec => []BaseInvariant
BY InitBase, NextBase, PTL DEF Spec

\* In every behaviour, withdrawals and failed registrations included, the
\* search of tm_record_get_template, which ends after counter templates, sees
\* every slot in use, and no template ID is in two slots.
THEOREM LookupCorrect == Spec => []LookupFindsAll
<1>1. BaseInvariant => LookupFindsAll
  <2> SUFFICES ASSUME BaseInvariant PROVE LookupFindsAll
    OBVIOUS
  <2>1. Linked \subseteq DOMAIN record
    BY RecordNumbers DEF BaseInvariant
  <2> QED
    BY <2>1 DEF BaseInvariant, RecordInvariant, SlotsInvariant, LookupFindsAll, IdAt
<1> QED
  BY <1>1, BaseCorrect, PTL

=============================================================================
