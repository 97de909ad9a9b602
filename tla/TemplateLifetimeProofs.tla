------------------------ MODULE TemplateLifetimeProofs ------------------------
(***************************************************************************)
(* Proofs about the lifetime of templates (module TemplateManager): the    *)
(* registrations of sources, what is left when the sources are gone, and   *)
(* the templates that messages hold.  They rest on the invariant of        *)
(* records in TemplateManagerProofs.                                       *)
(***************************************************************************)
EXTENDS TemplateManagerProofs, FunctionTheorems

-----------------------------------------------------------------------------
(***************************************************************************)
(* The parts of the inductive invariants.                                  *)
(***************************************************************************)

(* The order of messages, and the Data Managers: for every behaviour. *)

\* The exporter's connection is known to the stages behind the Preprocessor.
Sender(s) == connected[s] /\ ~(pre.pc # "idle" /\ pre.source = s /\ pre.status = "new")

\* The Preprocessor works on packets of connected exporters, and registers
\* new ones, which begin with a template.
WorkInvariant ==
  pre.pc # "idle" =>
    /\ connected[pre.source]
    /\ pre.pc \in {"register", "count"} => pre.status = "new" /\ pre.item.type = "template"
    /\ pre.item.type = "data" => sent[pre.source][pre.item.id] # Unsent
    /\ pre.item.type = "template" => sent[pre.source][pre.item.id] = pre.item.version

\* Of the messages of one source, a CLOSED and nothing else is followed by a
\* NEW, and the last one is a CLOSED unless the connection is there.
OrderInvariant ==
  \A i \in DOMAIN pipe :
    /\ \A j \in DOMAIN pipe :
         /\ i < j /\ pipe[j].source = pipe[i].source
         /\ \A k \in DOMAIN pipe : i < k /\ k < j => pipe[k].source # pipe[i].source
         => (pipe[i].status = "closed" <=> pipe[j].status = "new")
    /\ (\A j \in DOMAIN pipe : i < j => pipe[j].source # pipe[i].source)
         => (pipe[i].status = "closed" <=> ~Sender(pipe[i].source))

\* The Output Manager has seen the source's NEW and not its CLOSED.
InSession(s) ==
  \/ \E i \in DOMAIN pipe :
       /\ pipe[i].source = s /\ pipe[i].status # "new"
       /\ \A j \in DOMAIN pipe : j < i => pipe[j].source # s
  \/ Sender(s) /\ \A i \in DOMAIN pipe : pipe[i].source # s

Open(o) == {s \in Sources : OdidOf[s] = o /\ InSession(s)}

\* A Data Manager counts the sources in session.
ManagersInvariant ==
  /\ \A o, p \in closing : o = p
  /\ \A o \in Odids :
       IF o \in closing THEN data_managers[o] = 0 /\ Open(o) = {}
       ELSE data_managers[o] = IF Open(o) = {} THEN Closed ELSE Cardinality(Open(o))

SessionInvariant == WorkInvariant /\ OrderInvariant /\ ManagersInvariant

(* Registrations, and the sources whose registration has failed. *)

\* The exporter is connected and its registration was counted.
Registered(s) == connected[s] /\ ~(pre.pc \in {"register", "count"} /\ pre.source = s)

ClosedOf(s) == {i \in DOMAIN pipe : pipe[i].status = "closed" /\ pipe[i].source = s}

\* The connections of a source whose CLOSED the Output Manager has not seen.
Outstanding(s) == Cardinality(ClosedOf(s)) + (IF Registered(s) THEN 1 ELSE 0)

\* A message is followed by the CLOSED of its connection, or the connection is
\* still there.
FollowedInvariant ==
  \A i \in DOMAIN pipe : pipe[i].status # "closed" =>
    \/ Registered(pipe[i].source)
    \/ \E j \in ClosedOf(pipe[i].source) : i < j

\* A record counts the connections of its source, at most those of a source
\* whose registration has failed, and a source that has one has a record.
CountedInvariant ==
  /\ \A r \in Linked : record[r].registrations <= Outstanding(record[r].key)
  /\ \A r \in Linked : record[r].key \notin refused =>
       record[r].registrations = Outstanding(record[r].key)
  /\ \A s \in Sources \ refused : (\A r \in Linked : record[r].key # s) => Outstanding(s) = 0

\* A record is in the list only as long as somebody will remove it.
RemovedInvariant ==
  \A r \in Linked :
    \/ data_managers[OdidOf[record[r].key]] # Closed
    \/ Outstanding(record[r].key) > 0
    \/ pre.pc = "count" /\ pre.source = record[r].key

RegistrationInvariant == FollowedInvariant /\ CountedInvariant /\ RemovedInvariant

(* The templates, and the records they are in. *)

\* Template t is in the array ts, and in one place of it.
Stored(ts, t) == \E i \in DOMAIN ts : \E k \in DOMAIN ts[i] : ts[i][k] = t

Once(ts) ==
  \A i, j \in DOMAIN ts : \A k \in DOMAIN ts[i], l \in DOMAIN ts[j] :
    ts[i][k] = ts[j][l] => i = j /\ k = l

Has(r, t) == Stored(record[r].templates, t)

\* The record the Preprocessor is about to change is in the list, unless a
\* registration of the source has failed.
ChangedInvariant ==
  pre.pc \in {"add", "update"} =>
    /\ pre.cur \in DOMAIN record /\ record[pre.cur].key = pre.source
    /\ pre.source \notin refused => pre.cur \in Linked

\* Record r is in the list, or its source had a registration that failed.
Excused(r) == r \in Linked \/ record[r].key \in refused

\* No template is in two places; those of the records in the list are
\* allocated, and an allocated one is in such a record, or in a removed one of
\* a source with a registration that failed.
OwnedInvariant ==
  /\ \A r \in DOMAIN record : Once(record[r].templates)
  /\ \A r, q \in DOMAIN record : \A t \in DOMAIN template : Has(r, t) /\ Has(q, t) => r = q
  /\ \A r \in Linked : \A t \in DOMAIN template : Has(r, t) => t \notin freed_templates
  /\ \A t \in DOMAIN template :
       t \in freed_templates \/ \E r \in DOMAIN record : Has(r, t) /\ Excused(r)
  /\ ChangedInvariant

\* Template t is the newest one in a slot of the array ts.
Newest(ts, t) == \E i \in UsedIn(ts) : ts[i][1] = t

-----------------------------------------------------------------------------
(***************************************************************************)
(* The order of messages, for every behaviour.                             *)
(***************************************************************************)

\* The places of the pipe.
LEMMA Places ==
  ASSUME TypeOK
  PROVE  /\ DOMAIN pipe = 1 .. Len(pipe) /\ Len(pipe) \in Nat /\ DOMAIN pipe \subseteq Nat \ {0}
         /\ \A i \in DOMAIN pipe : pipe[i] \in Message /\ pipe[i].source \in Sources
<1>1. pipe \in Seq(Message)
  BY DEF TypeOK
<1>2. /\ DOMAIN pipe = 1 .. Len(pipe) /\ Len(pipe) \in Nat /\ DOMAIN pipe \subseteq Nat \ {0}
      /\ \A i \in DOMAIN pipe : pipe[i] \in Message
  BY ONLY <1>1
<1> QED
  BY <1>2 DEF Message

\* The message at i is the last of its source.
LastOf(i) == \A j \in DOMAIN pipe : i < j => pipe[j].source # pipe[i].source

\* The message at j is the next of the source of the one at i.
Follows(i, j) ==
  /\ i < j /\ pipe[j].source = pipe[i].source
  /\ \A k \in DOMAIN pipe : i < k /\ k < j => pipe[k].source # pipe[i].source

\* The message at i is the first of source s.
FirstMessage(i, s) == pipe[i].source = s /\ \A j \in DOMAIN pipe : j < i => pipe[j].source # s

LEMMA OrderIs ==
  OrderInvariant <=>
    /\ \A i, j \in DOMAIN pipe : Follows(i, j) =>
         (pipe[i].status = "closed" <=> pipe[j].status = "new")
    /\ \A i \in DOMAIN pipe : LastOf(i) => (pipe[i].status = "closed" <=> ~Sender(pipe[i].source))
BY DEF OrderInvariant, Follows, LastOf

LEMMA InSessionIs ==
  ASSUME NEW s
  PROVE  InSession(s) <=>
           \/ \E i \in DOMAIN pipe : FirstMessage(i, s) /\ pipe[i].status # "new"
           \/ Sender(s) /\ \A i \in DOMAIN pipe : pipe[i].source # s
BY DEF InSession, FirstMessage

\* Whether a message of the source waits, and which is the first.
LEMMA FirstMessageIs ==
  ASSUME TypeOK, NEW s
  PROVE  /\ (\E i \in DOMAIN pipe : pipe[i].source = s) => \E i \in DOMAIN pipe : FirstMessage(i, s)
         /\ \A i, j \in DOMAIN pipe : FirstMessage(i, s) /\ FirstMessage(j, s) => i = j
<1>1. ASSUME NEW p \in DOMAIN pipe, pipe[p].source = s PROVE \E i \in DOMAIN pipe : FirstMessage(i, s)
  <2> DEFINE S == {i \in DOMAIN pipe : pipe[i].source = s}
  <2>1. S \in SUBSET Nat /\ S # {}
    BY <1>1, Places
  <2>2. PICK i \in S : \A k \in S : i <= k
    BY <2>1, LeastNumber
  <2>3. FirstMessage(i, s)
    BY <2>2, Places DEF FirstMessage
  <2> QED
    BY <2>2, <2>3
<1>2. ASSUME NEW i \in DOMAIN pipe, NEW j \in DOMAIN pipe, FirstMessage(i, s), FirstMessage(j, s)
      PROVE  i = j
  <2>1. ~(i < j) /\ ~(j < i)
    BY <1>2 DEF FirstMessage
  <2> QED
    BY <1>2, <2>1, Places
<1> QED
  BY <1>1, <1>2

LEMMA OrderAppended ==
  ASSUME TypeOK, OrderInvariant, NEW m \in Message, pipe' = Append(pipe, m),
         \A q \in Sources : q # m.source => (Sender(q)' <=> Sender(q)),
         m.status = "new" <=> ~Sender(m.source),
         m.status = "closed" <=> ~Sender(m.source)'
  PROVE  OrderInvariant' /\ \A q \in Sources : InSession(q)' <=> InSession(q)
<1>1. PICK n : n = Len(pipe) + 1
  OBVIOUS
<1>2. /\ DOMAIN pipe' = DOMAIN pipe \cup {n} /\ n \notin DOMAIN pipe /\ n \in Nat
      /\ \A i \in DOMAIN pipe : pipe'[i] = pipe[i] /\ i < n /\ i \in Nat
      /\ pipe'[n] = m
  BY <1>1, Places, Appended DEF TypeOK
<1>3. ASSUME NEW i \in DOMAIN pipe', NEW j \in DOMAIN pipe', Follows(i, j)'
      PROVE  pipe'[i].status = "closed" <=> pipe'[j].status = "new"
  <2>1. i < j /\ i \in DOMAIN pipe
    BY <1>2, <1>3 DEF Follows
  <2>2. CASE j \in DOMAIN pipe
    <3>1. Follows(i, j)
      BY <1>2, <1>3, <2>1, <2>2 DEF Follows
    <3> QED
      BY <1>2, <2>1, <2>2, <3>1, OrderIs
  <2>3. CASE j = n
    <3>1. LastOf(i) /\ pipe[i].source = m.source
      BY <1>2, <1>3, <2>1, <2>3 DEF Follows, LastOf
    <3>2. pipe[i].status = "closed" <=> ~Sender(m.source)
      BY <2>1, <3>1, OrderIs
    <3> QED
      BY <1>2, <2>1, <2>3, <3>2
  <2> QED
    BY <1>2, <2>2, <2>3
<1>4. ASSUME NEW i \in DOMAIN pipe', LastOf(i)'
      PROVE  pipe'[i].status = "closed" <=> ~Sender(pipe[i].source)'
  <2>1. CASE i = n
    <3>1. pipe'[i] = m
      BY <1>2, <2>1
    <3>2. Sender(pipe[i].source)' <=> Sender(m.source)'
      BY <3>1 DEF Sender
    <3> QED
      BY <3>1, <3>2
  <2>2. CASE i \in DOMAIN pipe
    <3>1. LastOf(i) /\ pipe[i].source # m.source /\ pipe'[i] = pipe[i]
      BY <1>2, <1>4, <2>2 DEF LastOf
    <3>2. PICK q \in Sources : q = pipe[i].source
      BY <2>2, Places
    <3>3. pipe[i].status = "closed" <=> ~Sender(q)
      BY <2>2, <3>1, <3>2, OrderIs
    <3>4. Sender(q)' <=> Sender(q)
      BY <3>1, <3>2
    <3>5. Sender(pipe[i].source)' <=> Sender(q)'
      BY <3>1, <3>2 DEF Sender
    <3> QED
      BY <3>1, <3>3, <3>4, <3>5
  <2> QED
    BY <1>2, <1>4, <2>1, <2>2
<1>5. OrderInvariant'
  BY <1>3, <1>4 DEF OrderInvariant, Follows, LastOf
<1>6. ASSUME NEW q \in Sources PROVE InSession(q)' <=> InSession(q)
  <2>1. \A i \in DOMAIN pipe : FirstMessage(i, q)' <=> FirstMessage(i, q)
    BY <1>2 DEF FirstMessage
  <2>2. CASE \E i \in DOMAIN pipe : pipe[i].source = q
    <3>1. PICK i \in DOMAIN pipe : FirstMessage(i, q)
      BY <2>2, FirstMessageIs
    <3>2. ~FirstMessage(n, q)'
      BY <1>2, <3>1 DEF FirstMessage
    <3>3. \A j \in DOMAIN pipe' : FirstMessage(j, q)' => j = i
      BY <1>2, <2>1, <3>1, <3>2, FirstMessageIs
    <3>4. InSession(q) <=> pipe[i].status # "new"
      BY <2>2, <3>1, FirstMessageIs, InSessionIs
    <3>5. FirstMessage(i, q)' /\ i \in DOMAIN pipe' /\ pipe'[i] = pipe[i] /\ pipe'[i].source = q
      BY <1>2, <2>1, <3>1 DEF FirstMessage
    <3>6. InSession(q)' <=> pipe'[i].status # "new"
      BY <3>3, <3>5 DEF InSession, FirstMessage
    <3> QED
      BY <3>4, <3>5, <3>6
  <2>3. CASE \A i \in DOMAIN pipe : pipe[i].source # q
    <3>1. InSession(q) <=> Sender(q)
      BY <2>3 DEF InSession
    <3>2. CASE q = m.source
      <4>1. FirstMessage(n, q)' /\ \A j \in DOMAIN pipe' : FirstMessage(j, q)' => j = n
        BY <1>2, <2>3, <3>2 DEF FirstMessage
      <4>2. InSession(q)' <=> m.status # "new"
        BY <1>2, <3>2, <4>1 DEF InSession, FirstMessage
      <4> QED
        BY <3>1, <3>2, <4>2
    <3>3. CASE q # m.source
      <4>1. \A j \in DOMAIN pipe' : pipe'[j].source # q
        BY <1>2, <2>3, <3>3
      <4>2. InSession(q)' <=> Sender(q)'
        BY <4>1 DEF InSession
      <4> QED
        BY <3>1, <3>3, <4>2
    <3> QED
      BY <3>2, <3>3
  <2> QED
    BY <2>2, <2>3
<1> QED
  BY <1>5, <1>6

LEMMA OrderTaken ==
  ASSUME TypeOK, OrderInvariant, OutputIdle, pipe' = Tail(pipe),
         \A q \in Sources : Sender(q)' <=> Sender(q)
  PROVE  /\ OrderInvariant'
         /\ InSession(Head(pipe).source) <=> Head(pipe).status # "new"
         /\ \A q \in Sources : q = Head(pipe).source =>
              (InSession(q)' <=> Head(pipe).status # "closed")
         /\ \A q \in Sources : q # Head(pipe).source => (InSession(q)' <=> InSession(q))
<1>1. PICK m \in Message : m = Head(pipe)
  BY TakenIs
<1>2. /\ 1 \in DOMAIN pipe /\ pipe[1] = m /\ m.source \in Sources
      /\ \A i \in DOMAIN pipe' : i + 1 \in DOMAIN pipe /\ pipe'[i] = pipe[i + 1] /\ i \in Nat \ {0}
      /\ \A i \in DOMAIN pipe : i \in Nat \ {0} /\ (i # 1 => i - 1 \in DOMAIN pipe' /\ pipe'[i - 1] = pipe[i])
  <2>1. pipe \in Seq(Message) /\ pipe # <<>> /\ Head(pipe) = pipe[1] /\ m.source \in Sources
    BY <1>1, TakenIs
  <2>2. /\ DOMAIN pipe = 1 .. Len(pipe) /\ Len(pipe) \in Nat \ {0}
        /\ DOMAIN pipe' = 1 .. (Len(pipe) - 1)
        /\ \A i \in DOMAIN pipe' : i + 1 \in DOMAIN pipe /\ pipe'[i] = pipe[i + 1]
    BY <2>1, Shortened
  <2>3. ASSUME NEW i \in DOMAIN pipe, i # 1 PROVE i - 1 \in DOMAIN pipe' /\ i - 1 + 1 = i
    BY ONLY <2>2, <2>3
  <2>4. \A i \in DOMAIN pipe' : i \in Nat \ {0}
    BY ONLY <2>2
  <2>5. \A i \in DOMAIN pipe : i \in Nat \ {0}
    BY ONLY <2>2
  <2>6. 1 \in DOMAIN pipe
    BY ONLY <2>2
  <2> QED
    BY <1>1, <2>1, <2>2, <2>3, <2>4, <2>5, <2>6
<1>3. ASSUME NEW i \in DOMAIN pipe', NEW j \in DOMAIN pipe', Follows(i, j)'
      PROVE  pipe'[i].status = "closed" <=> pipe'[j].status = "new"
  <2>1. i + 1 < j + 1 /\ pipe[j + 1].source = pipe[i + 1].source
    BY <1>2, <1>3 DEF Follows
  <2>2. ASSUME NEW k \in DOMAIN pipe, i + 1 < k, k < j + 1 PROVE pipe[k].source # pipe[i + 1].source
    <3>1. k - 1 \in DOMAIN pipe' /\ pipe'[k - 1] = pipe[k] /\ i < k - 1 /\ k - 1 < j
      BY <1>2, <1>3, <2>2
    <3> QED
      BY <1>2, <1>3, <3>1 DEF Follows
  <2>3. Follows(i + 1, j + 1) /\ i + 1 \in DOMAIN pipe /\ j + 1 \in DOMAIN pipe
    BY <1>2, <1>3, <2>1, <2>2 DEF Follows
  <2> QED
    BY <1>2, <1>3, <2>3, OrderIs
<1>4. ASSUME NEW i \in DOMAIN pipe', LastOf(i)'
      PROVE  pipe'[i].status = "closed" <=> ~Sender(pipe[i].source)'
  <2>1. ASSUME NEW j \in DOMAIN pipe, i + 1 < j PROVE pipe[j].source # pipe[i + 1].source
    <3>1. j - 1 \in DOMAIN pipe' /\ pipe'[j - 1] = pipe[j] /\ i < j - 1
      BY <1>2, <1>4, <2>1
    <3> QED
      BY <1>2, <1>4, <3>1 DEF LastOf
  <2>2. LastOf(i + 1) /\ i + 1 \in DOMAIN pipe /\ pipe'[i] = pipe[i + 1]
    BY <1>2, <1>4, <2>1 DEF LastOf
  <2>3. PICK q \in Sources : q = pipe[i + 1].source
    BY <2>2, Places
  <2>4. pipe[i + 1].status = "closed" <=> ~Sender(q)
    BY <2>2, <2>3, OrderIs
  <2>5. Sender(pipe[i].source)' <=> Sender(q)'
    BY <2>2, <2>3 DEF Sender
  <2> QED
    BY <2>2, <2>4, <2>5
<1>5. OrderInvariant'
  BY <1>3, <1>4 DEF OrderInvariant, Follows, LastOf
<1>6. InSession(m.source) <=> m.status # "new"
  <2>1. FirstMessage(1, m.source)
    <3>1. \A j \in DOMAIN pipe : ~(j < 1)
      BY <1>2
    <3> QED
      BY <1>2, <3>1 DEF FirstMessage
  <2> QED
    BY <1>2, <2>1, FirstMessageIs, InSessionIs
<1>7. ASSUME NEW q \in Sources, q # m.source PROVE InSession(q)' <=> InSession(q)
  <2>1. ASSUME NEW i \in DOMAIN pipe', FirstMessage(i, q)' PROVE FirstMessage(i + 1, q)
    <3>1. ASSUME NEW j \in DOMAIN pipe, j < i + 1 PROVE pipe[j].source # q
      <4>1. CASE j = 1
        BY <1>2, <1>7, <4>1
      <4>2. CASE j # 1
        <5>1. j - 1 \in DOMAIN pipe' /\ pipe'[j - 1] = pipe[j] /\ j - 1 < i
          BY <1>2, <2>1, <3>1, <4>2
        <5> QED
          BY <2>1, <5>1 DEF FirstMessage
      <4> QED
        BY <4>1, <4>2
    <3> QED
      BY <1>2, <2>1, <3>1 DEF FirstMessage
  <2>2. ASSUME NEW i \in DOMAIN pipe, FirstMessage(i, q) PROVE i # 1 /\ FirstMessage(i - 1, q)'
    <3>1. i # 1
      BY <1>2, <1>7, <2>2 DEF FirstMessage
    <3>2. ASSUME NEW j \in DOMAIN pipe', j < i - 1 PROVE pipe'[j].source # q
      <4>1. j + 1 \in DOMAIN pipe /\ pipe'[j] = pipe[j + 1] /\ j + 1 < i
        BY <1>2, <2>2, <3>2
      <4> QED
        BY <2>2, <4>1 DEF FirstMessage
    <3> QED
      BY <1>2, <2>2, <3>1, <3>2 DEF FirstMessage
  <2>3. (\A i \in DOMAIN pipe' : pipe'[i].source # q) <=> (\A i \in DOMAIN pipe : pipe[i].source # q)
    <3>1. ASSUME NEW i \in DOMAIN pipe', pipe'[i].source = q PROVE \E j \in DOMAIN pipe : pipe[j].source = q
      BY <1>2, <3>1
    <3>2. ASSUME NEW i \in DOMAIN pipe, pipe[i].source = q PROVE \E j \in DOMAIN pipe' : pipe'[j].source = q
      BY <1>2, <1>7, <3>2
    <3> QED
      BY <3>1, <3>2
  <2>4. (\E i \in DOMAIN pipe' : FirstMessage(i, q)' /\ pipe'[i].status # "new") <=>
        (\E i \in DOMAIN pipe : FirstMessage(i, q) /\ pipe[i].status # "new")
    <3>1. ASSUME NEW i \in DOMAIN pipe', FirstMessage(i, q)', pipe'[i].status # "new"
          PROVE  \E j \in DOMAIN pipe : FirstMessage(j, q) /\ pipe[j].status # "new"
      BY <1>2, <2>1, <3>1
    <3>2. ASSUME NEW i \in DOMAIN pipe, FirstMessage(i, q), pipe[i].status # "new"
          PROVE  \E j \in DOMAIN pipe' : FirstMessage(j, q)' /\ pipe'[j].status # "new"
      <4>1. i # 1 /\ FirstMessage(i - 1, q)' /\ i - 1 \in DOMAIN pipe' /\ pipe'[i - 1] = pipe[i]
        BY <1>2, <2>2, <3>2
      <4> QED
        BY <3>2, <4>1
    <3> QED
      BY <3>1, <3>2
  <2>5. InSession(q)' <=>
           \/ \E i \in DOMAIN pipe' : FirstMessage(i, q)' /\ pipe'[i].status # "new"
           \/ Sender(q)' /\ \A i \in DOMAIN pipe' : pipe'[i].source # q
    BY DEF InSession, FirstMessage
  <2> QED
    BY <2>3, <2>4, <2>5, InSessionIs
<1>8. ASSUME NEW q \in Sources, q = m.source PROVE InSession(q)' <=> m.status # "closed"
  <2>1. CASE \A i \in DOMAIN pipe' : pipe'[i].source # q
    <3>1. InSession(q)' <=> Sender(q)'
      BY <2>1 DEF InSession
    <3>2. LastOf(1)
      <4>1. ASSUME NEW j \in DOMAIN pipe, 1 < j PROVE pipe[j].source # m.source
        <5>1. j # 1
          BY <4>1
        <5>2. j - 1 \in DOMAIN pipe' /\ pipe'[j - 1] = pipe[j]
          BY <1>2, <5>1
        <5> QED
          BY <1>8, <2>1, <5>2
      <4> QED
        BY <1>2, <4>1 DEF LastOf
    <3>3. m.status = "closed" <=> ~Sender(q)
      BY <1>2, <1>8, <3>2, OrderIs
    <3> QED
      BY <3>1, <3>3
  <2>2. CASE \E i \in DOMAIN pipe' : pipe'[i].source = q
    <3>1. PICK i \in DOMAIN pipe' : FirstMessage(i, q)'
      <4> DEFINE S == {i \in DOMAIN pipe' : pipe'[i].source = q}
      <4>1. S \in SUBSET Nat /\ S # {}
        BY <1>2, <2>2
      <4>2. PICK i \in S : \A k \in S : i <= k
        BY <4>1, LeastNumber
      <4>3. FirstMessage(i, q)'
        BY <1>2, <4>2 DEF FirstMessage
      <4> QED
        BY <4>2, <4>3
    <3>2. Follows(1, i + 1)
      <4>1. ASSUME NEW k \in DOMAIN pipe, 1 < k, k < i + 1 PROVE pipe[k].source # q
        <5>1. k - 1 \in DOMAIN pipe' /\ pipe'[k - 1] = pipe[k] /\ k - 1 < i
          BY <1>2, <3>1, <4>1
        <5> QED
          BY <3>1, <5>1 DEF FirstMessage
      <4> QED
        BY <1>2, <1>8, <3>1, <4>1 DEF Follows, FirstMessage
    <3>3. m.status = "closed" <=> pipe'[i].status = "new"
      BY <1>2, <3>1, <3>2, OrderIs
    <3>4. \A j \in DOMAIN pipe' : FirstMessage(j, q)' => j = i
      <4>1. ASSUME NEW j \in DOMAIN pipe', FirstMessage(j, q)' PROVE j = i
        <5>1. ~(i < j) /\ ~(j < i)
          BY <3>1, <4>1 DEF FirstMessage
        <5> QED
          BY <1>2, <3>1, <4>1, <5>1
      <4> QED
        BY <4>1
    <3>5. InSession(q)' <=> pipe'[i].status # "new"
      BY <2>2, <3>1, <3>4 DEF InSession, FirstMessage
    <3> QED
      BY <3>3, <3>5
  <2> QED
    BY <2>1, <2>2
<1> QED
  BY <1>1, <1>5, <1>6, <1>7, <1>8

\* The sources of a Data Manager are finitely many.
LEMMA OpenFinite ==
  ASSUME NEW o
  PROVE  /\ IsFiniteSet(Open(o)) /\ Cardinality(Open(o)) \in Nat
         /\ Cardinality(Open(o)) = 0 <=> Open(o) = {}
<1>1. Open(o) \subseteq Sources
  BY DEF Open
<1>2. IsFiniteSet(Open(o))
  BY <1>1, TemplateAssumption, FS_Subset
<1> QED
  BY <1>2, FS_CardinalityType, FS_EmptySet

LEMMA ManagersKept ==
  ASSUME ManagersInvariant, \A q \in Sources : InSession(q)' <=> InSession(q),
         UNCHANGED <<data_managers, closing>>
  PROVE  ManagersInvariant'
<1>1. ASSUME NEW o \in Odids PROVE Open(o)' = Open(o)
  BY DEF Open
<1> QED
  BY <1>1 DEF ManagersInvariant

LEMMA ForwardManagers ==
  ASSUME TypeOK, ManagersInvariant, Forward,
         InSession(Head(pipe).source) <=> Head(pipe).status # "new",
         \A q \in Sources : q = Head(pipe).source => InSession(q)',
         \A q \in Sources : q # Head(pipe).source => (InSession(q)' <=> InSession(q))
  PROVE  ManagersInvariant'
<1>1. PICK m \in Message, s \in Sources, o \in Odids : m = Head(pipe) /\ s = m.source /\ o = OdidOf[s]
  BY TakenIs DEF Forward
<1>2. /\ closing = {} /\ closing' = {} /\ data_managers \in [Odids -> {Closed} \cup Nat]
      /\ data_managers' = [data_managers EXCEPT ![o] =
           IF m.status = "new" THEN Opened(o) + 1 ELSE Opened(o)]
  BY <1>1 DEF Forward, OutputIdle, TypeOK
<1>3. \A p \in Odids : data_managers[p] = IF Open(p) = {} THEN Closed ELSE Cardinality(Open(p))
  BY <1>2 DEF ManagersInvariant
<1>4. Opened(o) = Cardinality(Open(o)) /\ Opened(o) \in Nat
  <2>1. Cardinality(Open(o)) # Closed
    BY OpenFinite DEF Closed
  <2> QED
    BY <1>3, <2>1, OpenFinite DEF Opened
<1>5. Open(o)' = Open(o) \cup {s}
  BY <1>1 DEF Open
<1>6. \A p \in Odids : p # o => Open(p)' = Open(p)
  BY <1>1 DEF Open
<1>7. data_managers'[o] = Cardinality(Open(o)')
  <2>1. CASE m.status = "new"
    <3>1. s \notin Open(o)
      BY <1>1, <2>1 DEF Open
    <3> QED
      BY <1>2, <1>4, <1>5, <2>1, <3>1, OpenFinite, FS_AddElement, ZenonT(30)
  <2>2. CASE m.status # "new"
    <3>1. Open(o)' = Open(o)
      BY <1>1, <1>5, <2>2 DEF Open
    <3> QED
      BY <1>2, <1>4, <2>2, <3>1
  <2> QED
    BY <2>1, <2>2
<1>8. \A p \in Odids : p # o => data_managers'[p] = data_managers[p]
  BY <1>2
<1>9. ASSUME NEW p \in Odids
      PROVE  data_managers'[p] = IF Open(p)' = {} THEN Closed ELSE Cardinality(Open(p)')
  <2>1. CASE p = o
    <3>1. Open(p)' = Open(o)'
      BY <2>1
    <3> QED
      BY <1>5, <1>7, <2>1, <3>1
  <2>2. CASE p # o
    <3>1. Open(p)' = Open(p) /\ data_managers'[p] = data_managers[p]
      BY <1>6, <1>8, <2>2
    <3> QED
      BY <1>3, <3>1
  <2> QED
    BY <2>1, <2>2
<1> QED
  BY <1>2, <1>9 DEF ManagersInvariant

LEMMA ClosedManagers ==
  ASSUME TypeOK, ManagersInvariant, SourceClosed,
         InSession(Head(pipe).source),
         \A q \in Sources : q = Head(pipe).source => ~InSession(q)',
         \A q \in Sources : q # Head(pipe).source => (InSession(q)' <=> InSession(q))
  PROVE  ManagersInvariant'
<1>1. PICK m \in Message, s \in Sources, o \in Odids : m = Head(pipe) /\ s = m.source /\ o = OdidOf[s]
  BY TakenIs DEF SourceClosed
<1>2. /\ closing = {} /\ closing' = (IF Opened(o) - 1 = 0 THEN {o} ELSE {})
      /\ data_managers \in [Odids -> {Closed} \cup Nat]
      /\ data_managers' = [data_managers EXCEPT ![o] = Opened(o) - 1]
  BY <1>1 DEF SourceClosed, OutputIdle, TypeOK
<1>3. \A p \in Odids : data_managers[p] = IF Open(p) = {} THEN Closed ELSE Cardinality(Open(p))
  BY <1>2 DEF ManagersInvariant
<1>4. Opened(o) = Cardinality(Open(o)) /\ Opened(o) \in Nat
  <2>1. Cardinality(Open(o)) # Closed
    BY OpenFinite DEF Closed
  <2> QED
    BY <1>3, <2>1, OpenFinite DEF Opened
<1>5. Open(o)' = Open(o) \ {s} /\ s \in Open(o)
  BY <1>1 DEF Open
<1>6. \A p \in Odids : p # o => Open(p)' = Open(p)
  BY <1>1 DEF Open
<1>7. Cardinality(Open(o)') = Opened(o) - 1 /\ (Cardinality(Open(o)') = 0 <=> Open(o)' = {})
  <2>1. PICK S : S = Open(o)
    OBVIOUS
  <2>2. IsFiniteSet(S \ {s}) /\ Cardinality(S \ {s}) = Cardinality(S) - 1
    BY <1>5, <2>1, OpenFinite, FS_RemoveElement
  <2>3. Cardinality(S \ {s}) = 0 <=> S \ {s} = {}
    BY <2>2, FS_EmptySet
  <2> QED
    BY <1>4, <1>5, <2>1, <2>2, <2>3
<1>8. data_managers'[o] = Opened(o) - 1 /\ \A p \in Odids : p # o => data_managers'[p] = data_managers[p]
  BY <1>2
<1>9. ASSUME NEW p \in Odids
      PROVE  IF p \in closing' THEN data_managers'[p] = 0 /\ Open(p)' = {}
             ELSE data_managers'[p] = IF Open(p)' = {} THEN Closed ELSE Cardinality(Open(p)')
  <2>1. CASE p = o
    <3>1. Open(p)' = Open(o)'
      BY <2>1
    <3> QED
      BY <1>2, <1>7, <1>8, <2>1, <3>1
  <2>2. CASE p # o
    <3>1. Open(p)' = Open(p) /\ data_managers'[p] = data_managers[p] /\ p \notin closing'
      BY <1>2, <1>6, <1>8, <2>2
    <3> QED
      BY <1>3, <3>1
  <2> QED
    BY <2>1, <2>2
<1> QED
  BY <1>2, <1>9 DEF ManagersInvariant

\* The steps of the Preprocessor between the receipt of a packet and its sending.
Working ==
  \/ Register \/ CountRegistration \/ Walk \/ FindRecord \/ AddTemplate
  \/ UpdateTemplate \/ WithdrawTemplate \/ GetTemplate \/ CoupleData

LEMMA WorkGoesOn ==
  ASSUME TypeOK, Working
  PROVE  /\ pre.pc # "idle" /\ pre.pc # "send" /\ pre'.pc # "idle"
         /\ pre'.source = pre.source /\ pre'.status = pre.status /\ pre'.item = pre.item
         /\ pre'.pc \in {"register", "count"} => pre.pc \in {"register", "count"}
         /\ UNCHANGED <<pipe, data_managers, store_queue, closing, session, connected, sent, packets>>
<1> USE DEF output_vars, exporter_vars, Go, WalkEnds
<1>1. CASE Register
  BY <1>1, TaskType DEF Register, Tasks
<1>2. CASE CountRegistration
  BY <1>2, TaskType DEF CountRegistration, Tasks
<1>3. CASE Walk
  BY <1>3, TaskType DEF Walk, Tasks
<1>4. CASE FindRecord
  BY <1>4, TaskType DEF FindRecord, Tasks
<1>5. CASE AddTemplate
  BY <1>5, TaskType DEF AddTemplate, Tasks
<1>6. CASE UpdateTemplate
  BY <1>6, TaskType DEF UpdateTemplate, Tasks
<1>7. CASE WithdrawTemplate
  BY <1>7, TaskType DEF WithdrawTemplate, Tasks
<1>8. CASE GetTemplate
  BY <1>8, TaskType DEF GetTemplate, Tasks
<1>9. CASE CoupleData
  BY <1>9, TaskType DEF CoupleData, Tasks
<1> QED
  BY <1>1, <1>2, <1>3, <1>4, <1>5, <1>6, <1>7, <1>8, <1>9 DEF Working

\* The pipe stays as it is, and the stages behind it know the same connections.
LEMMA OrderKept ==
  ASSUME OrderInvariant, ManagersInvariant, pipe' = pipe, UNCHANGED <<data_managers, closing>>,
         TypeOK, \A q \in Sources : Sender(q)' <=> Sender(q)
  PROVE  OrderInvariant' /\ ManagersInvariant'
<1>1. ASSUME NEW i \in DOMAIN pipe PROVE Sender(pipe[i].source)' <=> Sender(pipe[i].source)
  <2>1. PICK q \in Sources : q = pipe[i].source
    BY Places
  <2>2. Sender(pipe[i].source)' <=> Sender(q)'
    BY <2>1 DEF Sender
  <2> QED
    BY <2>1, <2>2
<1>2. OrderInvariant'
  BY <1>1 DEF OrderInvariant
<1>3. \A q \in Sources : InSession(q)' <=> InSession(q)
  BY DEF InSession
<1> QED
  BY <1>2, <1>3, ManagersKept

LEMMA ReceiveNewSession ==
  ASSUME TypeOK, SessionInvariant, NEW s \in Sources, NEW item \in Items, ReceiveNew(s, item)
  PROVE  SessionInvariant'
<1> USE DEF SessionInvariant
<1>1. /\ pre = Idle /\ ~connected[s] /\ item.type = "template" /\ item.id \in Ids
      /\ connected' = [connected EXCEPT ![s] = TRUE]
      /\ pre' = [pc |-> "register", status |-> "new", source |-> s, item |-> item, cur |-> NULL]
      /\ sent' = [sent EXCEPT ![s] = Described([i \in Ids |-> Unsent], item)]
      /\ UNCHANGED <<pipe, data_managers, closing>>
  BY ItemType DEF ReceiveNew, output_vars
<1>2. ASSUME NEW q \in Sources PROVE Sender(q)' <=> Sender(q)
  <2>1. pre.pc = "idle"
    BY <1>1 DEF Idle
  <2> QED
    BY <1>1, <2>1 DEF Sender, TypeOK
<1>3. OrderInvariant' /\ ManagersInvariant'
  BY <1>1, <1>2, OrderKept
<1>4. sent'[s][item.id] = item.version
  BY <1>1 DEF Described, TypeOK
<1>5. connected'[s]
  BY <1>1 DEF TypeOK
<1>6. WorkInvariant'
  BY <1>1, <1>4, <1>5 DEF WorkInvariant
<1> QED
  BY <1>3, <1>6

LEMMA ReceivePacketSession ==
  ASSUME TypeOK, SessionInvariant, NEW s \in Sources, NEW item \in Items, ReceivePacket(s, item)
  PROVE  SessionInvariant'
<1> USE DEF SessionInvariant
<1>1. /\ pre = Idle /\ connected[s] /\ item.id \in Ids /\ connected' = connected
      /\ item.type \in {"template", "withdrawal", "data"}
      /\ item.type = "data" => sent[s][item.id] # Unsent
      /\ pre' = [pc |-> "lookup", status |-> "opened", source |-> s, item |-> item, cur |-> first]
      /\ sent' = [sent EXCEPT ![s] = Described(sent[s], item)]
      /\ UNCHANGED <<pipe, data_managers, closing>>
  BY ItemType DEF ReceivePacket, output_vars, MaySend
<1>2. ASSUME NEW q \in Sources PROVE Sender(q)' <=> Sender(q)
  <2>1. pre.pc = "idle" /\ pre'.status # "new"
    BY <1>1 DEF Idle
  <2> QED
    BY <1>1, <2>1 DEF Sender
<1>3. OrderInvariant' /\ ManagersInvariant'
  BY <1>1, <1>2, OrderKept
<1>4. sent'[s] = Described(sent[s], item) /\ sent[s] \in [Ids -> Versions \cup {Unsent}]
  BY <1>1 DEF TypeOK
<1>5. /\ item.type = "data" => sent'[s][item.id] # Unsent
      /\ item.type = "template" => sent'[s][item.id] = item.version
  BY <1>1, <1>4 DEF Described
<1>6. WorkInvariant'
  BY <1>1, <1>5 DEF WorkInvariant
<1> QED
  BY <1>3, <1>6

LEMMA ReceiveClosedSession ==
  ASSUME TypeOK, SessionInvariant, NEW s \in Sources, ReceiveClosed(s)
  PROVE  SessionInvariant'
<1> USE DEF SessionInvariant
<1>1. PICK m : m = [status |-> "closed", source |-> s, type |-> "none",
                    template |-> NULL, described |-> Unsent]
  OBVIOUS
<1>2. /\ pre = Idle /\ pre' = pre /\ connected[s]
      /\ connected' = [connected EXCEPT ![s] = FALSE] /\ pipe' = Append(pipe, m)
      /\ UNCHANGED <<data_managers, closing>> /\ pre.pc = "idle"
  BY <1>1 DEF ReceiveClosed, output_vars, Idle
<1>3. m \in Message /\ m.status = "closed" /\ m.source = s
  BY <1>1 DEF Message, NULL
<1>4. Sender(s) /\ ~Sender(s)' /\ \A q \in Sources : q # s => (Sender(q)' <=> Sender(q))
  BY <1>2 DEF Sender, TypeOK
<1>5. (Sender(m.source) <=> Sender(s)) /\ (Sender(m.source)' <=> Sender(s)')
  BY <1>3 DEF Sender
<1>6. OrderInvariant' /\ \A q \in Sources : InSession(q)' <=> InSession(q)
  BY <1>2, <1>3, <1>4, <1>5, OrderAppended
<1>7. ManagersInvariant'
  BY <1>2, <1>6, ManagersKept
<1>8. WorkInvariant'
  BY <1>2 DEF WorkInvariant
<1> QED
  BY <1>6, <1>7, <1>8

LEMMA SendSession ==
  ASSUME TypeOK, SessionInvariant, Send
  PROVE  SessionInvariant'
<1> USE DEF SessionInvariant
<1>1. PICK m \in Message, s \in Sources : m = Sent /\ s = pre.source
  BY SentType, TaskType DEF Send
<1>2. /\ m.source = s /\ m.status = pre.status /\ pre.status \in {"new", "opened"}
      /\ pipe' = Append(pipe, m) /\ pre' = Idle /\ pre.pc = "send" /\ pre.source = s
      /\ UNCHANGED <<connected, data_managers, closing>> /\ pre'.pc = "idle"
      /\ connected[s]
  BY <1>1, SentType, TaskType DEF Sent, Send, Idle, output_vars, exporter_vars, WorkInvariant
<1>3. /\ Sender(s) <=> m.status # "new"
      /\ Sender(s)' /\ \A q \in Sources : q # s => (Sender(q)' <=> Sender(q))
  BY <1>2 DEF Sender
<1>4. (Sender(m.source) <=> Sender(s)) /\ (Sender(m.source)' <=> Sender(s)')
  BY <1>2 DEF Sender
<1>5. OrderInvariant' /\ \A q \in Sources : InSession(q)' <=> InSession(q)
  BY <1>2, <1>3, <1>4, OrderAppended
<1>6. ManagersInvariant'
  BY <1>2, <1>5, ManagersKept
<1>7. WorkInvariant'
  BY <1>2 DEF WorkInvariant
<1> QED
  BY <1>5, <1>6, <1>7

LEMMA WorkingSession ==
  ASSUME TypeOK, SessionInvariant, Working
  PROVE  SessionInvariant'
<1> USE DEF SessionInvariant
<1>1. \A q \in Sources : Sender(q)' <=> Sender(q)
  BY WorkGoesOn DEF Sender
<1>2. OrderInvariant' /\ ManagersInvariant'
  BY <1>1, WorkGoesOn, OrderKept
<1>3. WorkInvariant'
  BY WorkGoesOn DEF WorkInvariant
<1> QED
  BY <1>2, <1>3

LEMMA ForwardSession ==
  ASSUME TypeOK, SessionInvariant, Forward
  PROVE  SessionInvariant'
<1> USE DEF SessionInvariant
<1>1. /\ OutputIdle /\ Head(pipe).status # "closed" /\ pipe' = Tail(pipe)
      /\ UNCHANGED <<pre, connected, sent>>
  BY DEF Forward, exporter_vars
<1>2. \A q \in Sources : Sender(q)' <=> Sender(q)
  BY <1>1 DEF Sender
<1>3. /\ OrderInvariant'
      /\ InSession(Head(pipe).source) <=> Head(pipe).status # "new"
      /\ \A q \in Sources : q = Head(pipe).source => InSession(q)'
      /\ \A q \in Sources : q # Head(pipe).source => (InSession(q)' <=> InSession(q))
  BY <1>1, <1>2, OrderTaken
<1>4. ManagersInvariant'
  BY <1>3, ForwardManagers
<1>5. WorkInvariant'
  BY <1>1 DEF WorkInvariant
<1> QED
  BY <1>3, <1>4, <1>5

LEMMA SourceClosedSession ==
  ASSUME TypeOK, SessionInvariant, SourceClosed
  PROVE  SessionInvariant'
<1> USE DEF SessionInvariant
<1>1. /\ OutputIdle /\ Head(pipe).status = "closed" /\ pipe' = Tail(pipe)
      /\ UNCHANGED <<pre, connected, sent>>
  BY DEF SourceClosed, exporter_vars
<1>2. \A q \in Sources : Sender(q)' <=> Sender(q)
  BY <1>1 DEF Sender
<1>3. /\ OrderInvariant'
      /\ InSession(Head(pipe).source)
      /\ \A q \in Sources : q = Head(pipe).source => ~InSession(q)'
      /\ \A q \in Sources : q # Head(pipe).source => (InSession(q)' <=> InSession(q))
  BY <1>1, <1>2, OrderTaken
<1>4. ManagersInvariant'
  BY <1>3, ClosedManagers
<1>5. WorkInvariant'
  BY <1>1 DEF WorkInvariant
<1> QED
  BY <1>3, <1>4, <1>5

LEMMA RemoveManagerSession ==
  ASSUME TypeOK, SessionInvariant, NEW o \in Odids, RemoveManager(o)
  PROVE  SessionInvariant'
<1> USE DEF SessionInvariant
<1>1. /\ o \in closing /\ closing' = {} /\ data_managers' = [data_managers EXCEPT ![o] = Closed]
      /\ UNCHANGED <<pre, pipe, connected, sent>>
      /\ data_managers \in [Odids -> {Closed} \cup Nat] /\ closing \subseteq Odids
  BY DEF RemoveManager, exporter_vars, TypeOK
<1>2. \A q \in Sources : Sender(q)' <=> Sender(q)
  BY <1>1 DEF Sender
<1>3. OrderInvariant'
  BY <1>1 DEF OrderInvariant, Sender
<1>4. \A q \in Sources : InSession(q)' <=> InSession(q)
  BY <1>1, <1>2 DEF InSession
<1>5. \A p \in Odids : Open(p)' = Open(p)
  BY <1>4 DEF Open
<1>6. Open(o) = {} /\ \A p \in Odids : p # o => p \notin closing
  BY <1>1 DEF ManagersInvariant
<1>7. ASSUME NEW p \in Odids
      PROVE  data_managers'[p] = IF Open(p)' = {} THEN Closed ELSE Cardinality(Open(p)')
  <2>1. CASE p = o
    BY <1>1, <1>5, <1>6, <2>1
  <2>2. CASE p # o
    BY <1>1, <1>5, <1>6, <2>2 DEF ManagersInvariant
  <2> QED
    BY <2>1, <2>2
<1>8. ManagersInvariant'
  BY <1>1, <1>7 DEF ManagersInvariant
<1>9. WorkInvariant'
  BY <1>1 DEF WorkInvariant
<1> QED
  BY <1>3, <1>8, <1>9

LEMMA IdleSession ==
  ASSUME TypeOK, SessionInvariant, UNCHANGED <<pre, pipe, data_managers, closing, connected, sent>>
  PROVE  SessionInvariant'
<1> USE DEF SessionInvariant
<1>1. \A q \in Sources : Sender(q)' <=> Sender(q)
  BY DEF Sender
<1>2. OrderInvariant' /\ ManagersInvariant'
  BY <1>1, OrderKept
<1>3. WorkInvariant'
  BY DEF WorkInvariant
<1> QED
  BY <1>2, <1>3

LEMMA InitSession == Init => SessionInvariant
<1> SUFFICES ASSUME Init PROVE SessionInvariant
  OBVIOUS
<1>1. /\ pre.pc = "idle" /\ pipe = <<>> /\ closing = {}
      /\ \A s \in Sources : ~connected[s]
      /\ \A o \in Odids : data_managers[o] = Closed
  BY DEF Init, Idle
<1>2. WorkInvariant /\ OrderInvariant
  BY <1>1 DEF WorkInvariant, OrderInvariant
<1>3. \A o \in Odids : Open(o) = {}
  BY <1>1 DEF Open, InSession, Sender
<1>4. ManagersInvariant
  BY <1>1, <1>3 DEF ManagersInvariant
<1> QED
  BY <1>2, <1>4 DEF SessionInvariant

LEMMA NextSession == BaseInvariant /\ SessionInvariant /\ [Next]_vars => SessionInvariant'
<1> SUFFICES ASSUME BaseInvariant, SessionInvariant, [Next]_vars PROVE SessionInvariant'
  OBVIOUS
<1>0. TypeOK
  BY DEF BaseInvariant
<1>1. ASSUME NEW s \in Sources, Exporter(s) PROVE SessionInvariant'
  BY <1>0, <1>1, ReceiveNewSession, ReceivePacketSession, ReceiveClosedSession DEF Exporter
<1>2. CASE Preprocessor
  BY <1>0, <1>2, WorkingSession, SendSession DEF Preprocessor, Working
<1>3. CASE OutputManager
  BY <1>0, <1>3, ForwardSession, SourceClosedSession, RemoveManagerSession DEF OutputManager
<1>4. ASSUME NEW o \in Odids, TestReferences(o) \/ ReleaseMessage(o) PROVE SessionInvariant'
  BY <1>0, <1>4, IdleSession DEF TestReferences, ReleaseMessage, exporter_vars
<1>5. CASE UNCHANGED vars
  BY <1>0, <1>5, IdleSession DEF vars, output_vars, exporter_vars
<1> QED
  BY <1>1, <1>2, <1>3, <1>4, <1>5 DEF Next

\* The Output Manager's Data Managers count the sources whose NEW it has seen
\* and whose CLOSED it has not, in every behaviour.
THEOREM SessionsCounted == Spec => [](BaseInvariant /\ SessionInvariant)
<1>1. BaseInvariant /\ SessionInvariant /\ [Next]_vars => (BaseInvariant /\ SessionInvariant)'
  BY NextBase, NextSession
<1>2. Init => BaseInvariant /\ SessionInvariant
  BY InitBase, InitSession
<1> QED
  BY <1>1, <1>2, PTL DEF Spec

-----------------------------------------------------------------------------
(***************************************************************************)
(* Registrations.                                                          *)
(***************************************************************************)

\* The places of a queue, counted again when its first message is taken.
LEMMA ShiftedCount ==
  ASSUME NEW S \in SUBSET (Nat \ {0}), IsFiniteSet(S),
         NEW T \in SUBSET (Nat \ {0}), \A i \in Nat \ {0} : i \in T <=> i + 1 \in S
  PROVE  /\ IsFiniteSet(T)
         /\ Cardinality(T) = IF 1 \in S THEN Cardinality(S) - 1 ELSE Cardinality(S)
<1> DEFINE R == S \ {1}
           f == [i \in R |-> i - 1]
<1>1. IsFiniteSet(R) /\ Cardinality(R) = IF 1 \in S THEN Cardinality(S) - 1 ELSE Cardinality(S)
  BY FS_RemoveElement
<1>2. ASSUME NEW i \in R PROVE i - 1 \in T /\ i \in Nat
  <2>1. i \in Nat \ {0} /\ i # 1 /\ i \in S
    OBVIOUS
  <2>2. i - 1 \in Nat \ {0} /\ i - 1 + 1 = i
    BY ONLY <2>1
  <2> QED
    BY <2>1, <2>2
<1>3. f \in [R -> T]
  BY <1>2
<1>4. \A a, b \in R : f[a] = f[b] => a = b
  BY <1>2
<1>5. ASSUME NEW t \in T PROVE \E i \in R : f[i] = t
  <2>1. t \in Nat \ {0} /\ t + 1 \in S
    OBVIOUS
  <2>2. t + 1 # 1 /\ t + 1 - 1 = t
    BY ONLY <2>1
  <2>3. t + 1 \in R /\ f[t + 1] = t
    BY <2>1, <2>2
  <2> QED
    BY <2>3
<1>6. f \in Bijection(R, T)
  <2> HIDE DEF f
  <2>1. DOMAIN f = R
    BY <1>3
  <2> QED
    BY <1>3, <1>4, <1>5, <2>1 DEF Bijection, Injection, Surjection, IsInjective
<1>7. ExistsBijection(R, T)
  BY <1>6 DEF ExistsBijection
<1> QED
  BY <1>1, <1>7, FS_Bijection

LEMMA ClosedFinite ==
  ASSUME TypeOK, NEW s
  PROVE  IsFiniteSet(ClosedOf(s)) /\ Cardinality(ClosedOf(s)) \in Nat
<1>1. ClosedOf(s) \subseteq 1 .. Len(pipe) /\ Len(pipe) \in Nat
  BY Places DEF ClosedOf
<1>2. IsFiniteSet(1 .. Len(pipe))
  BY <1>1, FS_Interval
<1> QED
  BY <1>1, <1>2, FS_Subset, FS_CardinalityType

LEMMA OutstandingType ==
  ASSUME TypeOK, NEW s
  PROVE  /\ Outstanding(s) \in Nat
         /\ Registered(s) => Outstanding(s) > 0
         /\ ClosedOf(s) # {} => Outstanding(s) > 0
<1>1. Cardinality(ClosedOf(s)) # 0 \/ ClosedOf(s) = {}
  BY ClosedFinite, FS_EmptySet
<1> QED
  BY <1>1, ClosedFinite DEF Outstanding

LEMMA ClosedAppended ==
  ASSUME TypeOK, NEW m \in Message, pipe' = Append(pipe, m), NEW q
  PROVE  /\ ClosedOf(q)' = IF m.status = "closed" /\ m.source = q
                           THEN ClosedOf(q) \cup {Len(pipe) + 1} ELSE ClosedOf(q)
         /\ Cardinality(ClosedOf(q)') = IF m.status = "closed" /\ m.source = q
                                        THEN Cardinality(ClosedOf(q)) + 1
                                        ELSE Cardinality(ClosedOf(q))
<1>1. PICK n : n = Len(pipe) + 1
  OBVIOUS
<1>2. /\ DOMAIN pipe' = DOMAIN pipe \cup {n} /\ n \notin DOMAIN pipe
      /\ \A i \in DOMAIN pipe : pipe'[i] = pipe[i]
      /\ pipe'[n] = m
  BY <1>1, Places, Appended DEF TypeOK
<1>3. ClosedOf(q)' = IF m.status = "closed" /\ m.source = q THEN ClosedOf(q) \cup {n} ELSE ClosedOf(q)
  BY <1>2 DEF ClosedOf
<1>4. n \notin ClosedOf(q)
  BY <1>2 DEF ClosedOf
<1> QED
  BY <1>1, <1>3, <1>4, ClosedFinite, FS_AddElement

LEMMA ClosedTaken ==
  ASSUME TypeOK, OutputIdle, pipe' = Tail(pipe), NEW q
  PROVE  /\ \A i \in Nat \ {0} : i \in ClosedOf(q)' <=> i + 1 \in ClosedOf(q)
         /\ Cardinality(ClosedOf(q)') =
              IF Head(pipe).status = "closed" /\ Head(pipe).source = q
              THEN Cardinality(ClosedOf(q)) - 1 ELSE Cardinality(ClosedOf(q))
<1>1. /\ pipe \in Seq(Message) /\ pipe # <<>>
      /\ Head(pipe) = pipe[1]
  BY TakenIs
<1>2. /\ DOMAIN pipe = 1 .. Len(pipe) /\ Len(pipe) \in Nat \ {0}
      /\ DOMAIN pipe' = 1 .. (Len(pipe) - 1)
      /\ \A i \in DOMAIN pipe' : i + 1 \in DOMAIN pipe /\ pipe'[i] = pipe[i + 1]
  BY <1>1, Shortened
<1>3. \A i \in Nat \ {0} : i \in DOMAIN pipe' <=> i + 1 \in DOMAIN pipe
  BY ONLY <1>2
<1>4. \A i \in Nat \ {0} : i \in ClosedOf(q)' <=> i + 1 \in ClosedOf(q)
  BY <1>2, <1>3 DEF ClosedOf
<1>5. ClosedOf(q) \in SUBSET (Nat \ {0}) /\ ClosedOf(q)' \in SUBSET (Nat \ {0})
  <2>1. DOMAIN pipe \subseteq Nat \ {0} /\ DOMAIN pipe' \subseteq Nat \ {0}
    BY ONLY <1>2
  <2> QED
    BY <2>1 DEF ClosedOf
<1>6. 1 \in ClosedOf(q) <=> Head(pipe).status = "closed" /\ Head(pipe).source = q
  BY <1>1, <1>2 DEF ClosedOf
<1>7. PICK S, T : S = ClosedOf(q) /\ T = ClosedOf(q)'
  OBVIOUS
<1>8. Cardinality(T) = IF 1 \in S THEN Cardinality(S) - 1 ELSE Cardinality(S)
  BY <1>4, <1>5, <1>7, ClosedFinite, ShiftedCount
<1> QED
  BY <1>4, <1>6, <1>7, <1>8

\* The parts of the invariant, with the sources named.
LEMMA RegistrationIs ==
  ASSUME BaseInvariant, RegistrationInvariant
  PROVE  /\ \A i \in DOMAIN pipe : \A q \in Sources : pipe[i].source = q /\ pipe[i].status # "closed" =>
              Registered(q) \/ \E j \in ClosedOf(q) : i < j
         /\ \A r \in Linked : \A q \in Sources : record[r].key = q =>
              /\ record[r].registrations <= Outstanding(q)
              /\ q \notin refused => record[r].registrations = Outstanding(q)
              /\ \/ data_managers[OdidOf[q]] # Closed
                 \/ Outstanding(q) > 0
                 \/ pre.pc = "count" /\ pre.source = q
         /\ \A q \in Sources : q \notin refused /\ (\A r \in Linked : record[r].key # q) => Outstanding(q) = 0
<1>1. ASSUME NEW i \in DOMAIN pipe, NEW q \in Sources, pipe[i].source = q, pipe[i].status # "closed"
      PROVE  Registered(q) \/ \E j \in ClosedOf(q) : i < j
  BY <1>1 DEF RegistrationInvariant, FollowedInvariant
<1>2. ASSUME NEW r \in Linked, NEW q \in Sources, record[r].key = q
      PROVE  /\ record[r].registrations <= Outstanding(q)
             /\ q \notin refused => record[r].registrations = Outstanding(q)
             /\ \/ data_managers[OdidOf[q]] # Closed
                \/ Outstanding(q) > 0
                \/ pre.pc = "count" /\ pre.source = q
  <2>1. /\ record[r].registrations <= Outstanding(record[r].key)
        /\ record[r].key \notin refused => record[r].registrations = Outstanding(record[r].key)
        /\ \/ data_managers[OdidOf[record[r].key]] # Closed
           \/ Outstanding(record[r].key) > 0
           \/ pre.pc = "count" /\ pre.source = record[r].key
    BY DEF RegistrationInvariant, CountedInvariant, RemovedInvariant
  <2>2. Outstanding(record[r].key) = Outstanding(q)
    BY <1>2
  <2> QED
    BY <1>2, <2>1, <2>2
<1> QED
  BY <1>1, <1>2 DEF RegistrationInvariant, CountedInvariant

\* The invariant of the next state, with the sources named.
LEMMA RegistrationNext ==
  ASSUME BaseInvariant',
         \A i \in DOMAIN pipe' : \A q \in Sources : pipe'[i].source = q /\ pipe'[i].status # "closed" =>
           Registered(q)' \/ \E j \in ClosedOf(q)' : i < j,
         \A r \in Linked' : \A q \in Sources : record'[r].key = q =>
           /\ record'[r].registrations <= Outstanding(q)'
           /\ q \notin refused' => record'[r].registrations = Outstanding(q)'
           /\ \/ data_managers'[OdidOf[q]] # Closed
              \/ Outstanding(q)' > 0
              \/ pre'.pc = "count" /\ pre'.source = q,
         \A q \in Sources : q \notin refused' /\ (\A r \in Linked' : record'[r].key # q) => Outstanding(q)' = 0
  PROVE  RegistrationInvariant'
<1>1. \A r \in Linked' : record'[r].key \in Sources
  <2>1. record' \in Seq(Record) /\ Linked' \subseteq DOMAIN record'
    BY DEF BaseInvariant, TypeOK, Linked
  <2>2. \A r \in DOMAIN record' : record'[r] \in Record
    BY ONLY <2>1
  <2> QED
    BY <2>1, <2>2 DEF Record
<1>2. \A i \in DOMAIN pipe' : pipe'[i].source \in Sources
  <2>1. pipe' \in Seq(Message)
    BY DEF BaseInvariant, TypeOK
  <2>2. \A i \in DOMAIN pipe' : pipe'[i] \in Message
    BY ONLY <2>1
  <2> QED
    BY <2>2 DEF Message
<1>3. ASSUME NEW i \in DOMAIN pipe', pipe'[i].status # "closed"
      PROVE  Registered(pipe[i].source)' \/ \E j \in ClosedOf(pipe[i].source)' : i < j
  <2>1. PICK q \in Sources : q = pipe'[i].source
    BY <1>2, <1>3
  <2>2. (Registered(pipe[i].source)' <=> Registered(q)') /\ ClosedOf(pipe[i].source)' = ClosedOf(q)'
    BY <2>1 DEF Registered, ClosedOf
  <2> QED
    BY <1>3, <2>1, <2>2
<1>4. ASSUME NEW r \in Linked'
      PROVE  /\ record'[r].registrations <= Outstanding(record[r].key)'
             /\ record'[r].key \notin refused' => record'[r].registrations = Outstanding(record[r].key)'
             /\ \/ data_managers'[OdidOf[record'[r].key]] # Closed
                \/ Outstanding(record[r].key)' > 0
                \/ pre'.pc = "count" /\ pre'.source = record'[r].key
  <2>1. PICK q \in Sources : q = record'[r].key
    BY <1>1, <1>4
  <2>2. Outstanding(record[r].key)' = Outstanding(q)'
    BY <2>1 DEF Outstanding, Registered, ClosedOf
  <2>3. /\ record'[r].registrations <= Outstanding(q)'
        /\ q \notin refused' => record'[r].registrations = Outstanding(q)'
        /\ \/ data_managers'[OdidOf[q]] # Closed
           \/ Outstanding(q)' > 0
           \/ pre'.pc = "count" /\ pre'.source = q
    BY <1>4, <2>1
  <2> QED
    BY <2>1, <2>2, <2>3
<1>5. FollowedInvariant'
  BY <1>3 DEF FollowedInvariant
<1>6. CountedInvariant'
  BY <1>4 DEF CountedInvariant
<1>7. RemovedInvariant'
  BY <1>4 DEF RemovedInvariant
<1> QED
  BY <1>5, <1>6, <1>7 DEF RegistrationInvariant
\* The registrations stay when the list of records, the pipe and the
\* connections do.
LEMMA RegistrationKept ==
  ASSUME BaseInvariant, BaseInvariant', RegistrationInvariant,
         \A q \in Sources : Registered(q)' <=> Registered(q), pipe' = pipe,
         UNCHANGED <<data_managers, refused>>, ListUnchanged,
         \A r \in DOMAIN record : record'[r].registrations = record[r].registrations,
         pre'.pc = "count" <=> pre.pc = "count", pre.pc = "count" => pre' = pre
  PROVE  RegistrationInvariant'
<1>1. /\ Linked' = Linked
      /\ \A r \in Linked : /\ record'[r].key = record[r].key
                           /\ record'[r].registrations = record[r].registrations
  BY ListFrame, RecordNumbers DEF BaseInvariant, ListUnchanged
<1>2. \A q : ClosedOf(q)' = ClosedOf(q)
  BY DEF ClosedOf
<1>3. \A q \in Sources : Outstanding(q)' = Outstanding(q)
  BY <1>2 DEF Outstanding
<1> QED
  BY <1>1, <1>2, <1>3, RegistrationIs, RegistrationNext
\* A step on the array of the record at hand keeps the list and the registrations.
LEMMA ArrayChanged ==
  ASSUME BaseInvariant, AddTemplate \/ UpdateTemplate \/ WithdrawTemplate
  PROVE  /\ ListUnchanged
         /\ \A r \in DOMAIN record : record'[r].registrations = record[r].registrations
<1> USE DEF BaseInvariant, RecordInvariant
<1>1. ASSUME NEW c \in DOMAIN record, NEW rec \in Record, record' = [record EXCEPT ![c] = rec],
             freed_records' = freed_records, rec.key = record[c].key, rec.next = record[c].next,
             rec.registrations = record[c].registrations
      PROVE  /\ ListUnchanged
             /\ \A r \in DOMAIN record : record'[r].registrations = record[r].registrations
  <2>1. /\ DOMAIN record' = DOMAIN record
        /\ \A r \in DOMAIN record : record'[r] = IF r = c THEN rec ELSE record[r]
    BY <1>1, ExceptInSeq DEF TypeOK
  <2> QED
    BY <1>1, <2>1 DEF ListUnchanged
<1>2. ASSUME record' = record, freed_records' = freed_records
      PROVE  /\ ListUnchanged
             /\ \A r \in DOMAIN record : record'[r].registrations = record[r].registrations
  BY <1>2 DEF ListUnchanged
<1>3. CASE AddTemplate
  <2>1. PICK c, n : c = pre.cur /\ n = Len(template) + 1
    OBVIOUS
  <2>2. PICK rec : rec = Insert(record[c], n)
    OBVIOUS
  <2>3. c \in DOMAIN record /\ record' = [record EXCEPT ![c] = rec] /\ n \in Nat
    BY <1>3, <2>1, <2>2, AddedIs, TemplateNumbers
  <2>4. /\ rec \in Record /\ rec.key = record[c].key /\ rec.next = record[c].next
        /\ rec.registrations = record[c].registrations
    BY <2>2, <2>3, ArrayOf, InsertIs
  <2>5. freed_records' = freed_records
    BY <1>3 DEF AddTemplate
  <2> QED
    BY <1>1, <2>3, <2>4, <2>5
<1>4. CASE UpdateTemplate
  <2>1. freed_records' = freed_records
    BY <1>4 DEF UpdateTemplate
  <2>2. CASE template[Current].version = pre.item.version
    BY <1>2, <1>4, <2>1, <2>2 DEF UpdateTemplate
  <2>3. CASE template[Current].version # pre.item.version
    BY <1>1, <1>4, <2>1, <2>3, UpdateIs
  <2> QED
    BY <2>2, <2>3
<1>5. CASE WithdrawTemplate
  <2>1. freed_records' = freed_records
    BY <1>5 DEF WithdrawTemplate
  <2>2. CASE Current = NULL
    BY <1>2, <1>5, <2>1, <2>2 DEF WithdrawTemplate
  <2>3. CASE Current # NULL
    <3>1. PICK c, slot : c = pre.cur /\ slot = SlotOf(pre.cur, pre.item.id)
      OBVIOUS
    <3>2. c \in DOMAIN record
      BY <1>5, <2>3, <3>1, CurrentIs, WalkFinds DEF WithdrawTemplate
    <3>3. slot \in Used(c)
      BY <2>3, <3>1, <3>2, FoundIs DEF Current
    <3>4. PICK rec : rec = Emptied(record[c], slot)
      OBVIOUS
    <3>5. record' = [record EXCEPT ![c] = rec]
      BY <1>5, <2>3, <3>1, <3>2, <3>4 DEF WithdrawTemplate
    <3>6. /\ rec \in Record /\ rec.key = record[c].key /\ rec.next = record[c].next
          /\ rec.registrations = record[c].registrations
      BY <3>2, <3>3, <3>4, ArrayOf, EmptiedIs
    <3> QED
      BY <1>1, <2>1, <3>2, <3>5, <3>6
  <2> QED
    BY <2>2, <2>3
<1> QED
  BY <1>3, <1>4, <1>5

LEMMA ReceiveRegistration ==
  ASSUME BaseInvariant, BaseInvariant', RegistrationInvariant,
         NEW s \in Sources, NEW item \in Items, ReceiveNew(s, item) \/ ReceivePacket(s, item)
  PROVE  RegistrationInvariant'
<1>1. /\ pre.pc = "idle" /\ UNCHANGED <<record, freed_records, pipe, data_managers, refused>>
      /\ pre'.pc # "count"
  BY DEF ReceiveNew, ReceivePacket, manager_vars, history, output_vars, Idle
<1>2. ASSUME NEW q \in Sources PROVE Registered(q)' <=> Registered(q)
  <2>1. CASE ReceiveNew(s, item)
    BY <1>1, <2>1 DEF ReceiveNew, Registered, BaseInvariant, TypeOK
  <2>2. CASE ReceivePacket(s, item)
    BY <1>1, <2>2 DEF ReceivePacket, Registered
  <2> QED
    BY <2>1, <2>2
<1>3. ListUnchanged
  BY <1>1 DEF ListUnchanged
<1> QED
  BY <1>1, <1>2, <1>3, RegistrationKept

\* The steps that leave the list and the registrations alone.
LEMMA WorkingRegistration ==
  ASSUME BaseInvariant, BaseInvariant', RegistrationInvariant,
         \/ Walk \/ GetTemplate \/ CoupleData
         \/ AddTemplate \/ UpdateTemplate \/ WithdrawTemplate
  PROVE  RegistrationInvariant'
<1>1. Working
  BY DEF Working
<1>2. pre.pc \notin {"register", "count"}
  BY DEF Walk, GetTemplate, CoupleData, AddTemplate, UpdateTemplate, WithdrawTemplate, WalkEnds
<1>3. /\ pre'.pc \notin {"register", "count"}
      /\ UNCHANGED <<pipe, data_managers, connected>>
  BY <1>1, <1>2, WorkGoesOn DEF BaseInvariant
<1>4. \A q \in Sources : Registered(q)' <=> Registered(q)
  BY <1>2, <1>3 DEF Registered
<1>5. /\ ListUnchanged
      /\ \A r \in DOMAIN record : record'[r].registrations = record[r].registrations
  <2>1. CASE Walk \/ GetTemplate \/ CoupleData
    BY <2>1 DEF Walk, GetTemplate, CoupleData, manager_vars, ListUnchanged
  <2> QED
    BY <2>1, ArrayChanged
<1>6. refused' = refused
  BY DEF Walk, GetTemplate, CoupleData, AddTemplate, UpdateTemplate, WithdrawTemplate,
         manager_vars, history
<1> QED
  BY <1>2, <1>3, <1>4, <1>5, <1>6, RegistrationKept

LEMMA IdleRegistration ==
  ASSUME BaseInvariant, BaseInvariant', RegistrationInvariant,
         UNCHANGED <<record, freed_records, pre, pipe, data_managers, connected, refused>>
  PROVE  RegistrationInvariant'
<1>1. ListUnchanged
  BY DEF ListUnchanged
<1>2. \A q \in Sources : Registered(q)' <=> Registered(q)
  BY DEF Registered
<1> QED
  BY <1>1, <1>2, RegistrationKept
LEMMA RegisterRegistration ==
  ASSUME BaseInvariant, BaseInvariant', RegistrationInvariant, Register
  PROVE  RegistrationInvariant'
<1>1. PICK s \in Sources : s = pre.source
  BY TaskType DEF Register, BaseInvariant
<1>2. PICK l : l = LookupInserted(s)
  OBVIOUS
<1>3. /\ pre.pc = "register" /\ pre'.pc = "count" /\ pre'.source = s
      /\ UNCHANGED <<freed_records, pipe, data_managers, connected, refused>>
      /\ tm_record_lookup_insert(s)
  BY <1>1, TaskType DEF Register, BaseInvariant, Tasks, history, output_vars, exporter_vars
<1>4. /\ \A r \in DOMAIN record : record'[r] = record[r]
      /\ l \in Linked' /\ record'[l].key = s
      /\ Linked' = Linked \cup {l}
      /\ l \notin DOMAIN record =>
           record'[l] = NewRecord(s) /\ \A r \in Linked : record[r].key # s
  BY <1>2, <1>3, InsertedIs DEF BaseInvariant, RecordInvariant
<1>5. \A q : ClosedOf(q)' = ClosedOf(q)
  BY <1>3 DEF ClosedOf
<1>6. \A q \in Sources : Registered(q)' <=> Registered(q)
  BY <1>1, <1>3 DEF Registered
<1>7. \A q \in Sources : Outstanding(q)' = Outstanding(q)
  BY <1>5, <1>6 DEF Outstanding
<1>8. Linked \subseteq DOMAIN record
  BY RecordNumbers DEF BaseInvariant
<1>9. ASSUME NEW r \in Linked', NEW q \in Sources, record'[r].key = q
      PROVE  /\ record'[r].registrations <= Outstanding(q)'
             /\ q \notin refused' => record'[r].registrations = Outstanding(q)'
             /\ \/ data_managers'[OdidOf[q]] # Closed
                \/ Outstanding(q)' > 0
                \/ pre'.pc = "count" /\ pre'.source = q
  <2>1. CASE r \in Linked
    BY <1>3, <1>4, <1>7, <1>8, <1>9, <2>1, RegistrationIs
  <2>2. CASE r \notin Linked
    <3>1. r = l /\ l \notin DOMAIN record
      BY <1>3, <1>4, <1>8, <2>2, RecordNumbers DEF Linked, BaseInvariant
    <3>2. (s \notin refused => Outstanding(s) = 0) /\ Outstanding(s) \in Nat /\ q = s
      BY <1>4, <1>9, <3>1, RegistrationIs, OutstandingType DEF BaseInvariant
    <3>3. record'[r].registrations = 0
      BY <1>4, <3>1, NewRecordIs
    <3> QED
      BY <1>3, <1>7, <3>2, <3>3
  <2> QED
    BY <2>1, <2>2
<1>10. \A q \in Sources : q \notin refused' /\ (\A r \in Linked' : record'[r].key # q) => Outstanding(q)' = 0
  BY <1>3, <1>4, <1>7, <1>8, RegistrationIs
<1>11. \A i \in DOMAIN pipe' : \A q \in Sources : pipe'[i].source = q /\ pipe'[i].status # "closed" =>
         Registered(q)' \/ \E j \in ClosedOf(q)' : i < j
  BY <1>3, <1>5, <1>6, RegistrationIs
<1> QED
  BY <1>9, <1>10, <1>11, RegistrationNext

\* The record that the lookup finds is the only one of the source.
LEMMA LookupOnly ==
  ASSUME TypeOK, ListInvariant, NEW s
  PROVE  \A r \in Linked : record[r].key = s <=> r = tm_record_lookup(s)
<1>1. PICK l : l = tm_record_lookup(s)
  OBVIOUS
<1>2. CASE l = NULL
  BY <1>1, <1>2, LookupIs, RecordNumbers DEF NULL
<1>3. CASE l # NULL
  <2>1. l \in Linked /\ record[l].key = s
    BY <1>1, <1>3, LookupIs
  <2> QED
    BY <1>1, <2>1 DEF ListInvariant
<1> QED
  BY <1>2, <1>3

LEMMA CountRegistrationRegistration ==
  ASSUME BaseInvariant, BaseInvariant', SessionInvariant, RegistrationInvariant, CountRegistration
  PROVE  RegistrationInvariant'
<1> USE DEF BaseInvariant, RecordInvariant
<1>1. PICK s \in Sources : s = pre.source
  BY TaskType DEF CountRegistration
<1>2. PICK l : l = tm_record_lookup(s)
  OBVIOUS
<1>3. /\ pre.pc = "count" /\ pre'.pc = "lookup" /\ pre'.source = s
      /\ UNCHANGED <<freed_records, pipe, data_managers, connected>>
  BY <1>1, TaskType DEF CountRegistration, Tasks, output_vars, exporter_vars
<1>4. /\ RegistrationsOnly
      /\ \A r \in DOMAIN record : record'[r].registrations =
              IF r = l THEN record[r].registrations + 1 ELSE record[r].registrations
  BY <1>1, <1>2, CountedIs
<1>5. connected[s]
  BY <1>1, <1>3 DEF SessionInvariant, WorkInvariant
<1>6. /\ \A r \in Linked : record[r].key = s <=> r = l
      /\ \A q \in Sources : q \notin refused' =>
           q \notin refused /\ (q = s => l \in Linked)
  <2>1. refused' = IF l = NULL THEN refused \cup {s} ELSE refused
    BY <1>1, <1>2 DEF CountRegistration
  <2>2. l # NULL => l \in Linked
    BY <1>2, LookupIs
  <2>3. \A r \in Linked : record[r].key = s <=> r = l
    BY <1>2, LookupOnly
  <2> QED
    BY <2>1, <2>2, <2>3
<1>7. /\ Linked' = Linked /\ Linked \subseteq DOMAIN record
      /\ \A r \in Linked : record'[r].key = record[r].key
  BY <1>3, <1>4, RecordNumbers DEF RegistrationsOnly, Linked
<1>8. \A q : ClosedOf(q)' = ClosedOf(q)
  BY <1>3 DEF ClosedOf
<1>9. /\ ~Registered(s) /\ Registered(s)'
      /\ \A q \in Sources : q # s => (Registered(q)' <=> Registered(q))
  BY <1>1, <1>3, <1>5 DEF Registered
<1>10. /\ Outstanding(s)' = Outstanding(s) + 1
       /\ \A q \in Sources : q # s => Outstanding(q)' = Outstanding(q)
  BY <1>8, <1>9, ClosedFinite DEF Outstanding
<1>11. ASSUME NEW r \in Linked', NEW q \in Sources, record'[r].key = q
       PROVE  /\ record'[r].registrations <= Outstanding(q)'
              /\ q \notin refused' => record'[r].registrations = Outstanding(q)'
              /\ \/ data_managers'[OdidOf[q]] # Closed
                 \/ Outstanding(q)' > 0
                 \/ pre'.pc = "count" /\ pre'.source = q
  <2>1. /\ record[r].registrations <= Outstanding(q)
        /\ q \notin refused => record[r].registrations = Outstanding(q)
        /\ \/ data_managers[OdidOf[q]] # Closed
           \/ Outstanding(q) > 0
           \/ pre.pc = "count" /\ pre.source = q
    BY <1>7, <1>11, RegistrationIs
  <2>4. record[r].registrations \in Nat
    BY <1>7, <1>11, RecordNumbers DEF Record
  <2>2. CASE q = s
    <3>1. record'[r].registrations = record[r].registrations + 1
      BY <1>4, <1>6, <1>7, <1>11, <2>2
    <3> QED
      BY <1>6, <1>10, <2>1, <2>2, <2>4, <3>1, OutstandingType
  <2>3. CASE q # s
    BY <1>1, <1>3, <1>4, <1>6, <1>7, <1>10, <1>11, <2>1, <2>3
  <2> QED
    BY <2>2, <2>3
<1>12. \A q \in Sources : q \notin refused' /\ (\A r \in Linked' : record'[r].key # q) => Outstanding(q)' = 0
  BY <1>6, <1>7, <1>10, RegistrationIs
<1>13. \A i \in DOMAIN pipe' : \A q \in Sources : pipe'[i].source = q /\ pipe'[i].status # "closed" =>
         Registered(q)' \/ \E j \in ClosedOf(q)' : i < j
  BY <1>3, <1>8, <1>9, RegistrationIs
<1> QED
  BY <1>3, <1>11, <1>12, <1>13, RegistrationNext

\* A source whose registration is counted has a record.
LEMMA RegisteredHasRecord ==
  ASSUME BaseInvariant, RegistrationInvariant, NEW s \in Sources \ refused, Registered(s)
  PROVE  /\ tm_record_lookup(s) # NULL /\ tm_record_lookup(s) \in Linked
         /\ record[tm_record_lookup(s)].key = s
         /\ record[tm_record_lookup(s)].registrations > 0
<1>1. Outstanding(s) > 0 /\ Outstanding(s) \in Nat
  BY OutstandingType DEF BaseInvariant
<1>2. \E r \in Linked : record[r].key = s
  BY <1>1, RegistrationIs
<1>3. PICK l : l = tm_record_lookup(s)
  OBVIOUS
<1>4. l # NULL /\ l \in Linked /\ record[l].key = s
  BY <1>2, <1>3, LookupIs DEF BaseInvariant
<1>5. record[l].registrations = Outstanding(s)
  BY <1>4, RegistrationIs
<1> QED
  BY <1>1, <1>3, <1>4, <1>5

\* The packet's source is registered once the Preprocessor looks for templates.
LEMMA WorkingRegistered ==
  ASSUME BaseInvariant, SessionInvariant, pre.pc \notin {"idle", "register", "count"}
  PROVE  pre.source \in Sources /\ Registered(pre.source)
BY TaskType DEF BaseInvariant, SessionInvariant, WorkInvariant, Registered

\* Only for a source whose registration has failed a record is made here.
LEMMA FindRecordRegistration ==
  ASSUME BaseInvariant, BaseInvariant', SessionInvariant, RegistrationInvariant, FindRecord
  PROVE  /\ RegistrationInvariant'
         /\ pre.source \notin refused =>
              record' = record /\ LookupInserted(pre.source) = tm_record_lookup(pre.source)
<1>1. PICK s \in Sources : s = pre.source
  BY TaskType DEF FindRecord, WalkEnds, BaseInvariant
<1>2. /\ pre.pc = "lookup" /\ pre'.pc \notin {"register", "count"}
      /\ UNCHANGED <<freed_records, pipe, data_managers, connected, refused>>
      /\ tm_record_lookup_insert(s)
  BY <1>1, TaskType
     DEF FindRecord, WalkEnds, Go, BaseInvariant, Tasks, history, output_vars, exporter_vars
<1>3. Registered(s)
  BY <1>1, <1>2, WorkingRegistered
<1>4. s \notin refused => record' = record /\ LookupInserted(s) = tm_record_lookup(s)
  BY <1>2, <1>3, RegisteredHasRecord DEF tm_record_lookup_insert, LookupInserted
<1>5. PICK l : l = LookupInserted(s)
  OBVIOUS
<1>6. /\ \A r \in DOMAIN record : record'[r] = record[r]
      /\ l \in Linked' /\ record'[l].key = s
      /\ Linked' = Linked \cup {l}
      /\ l \notin DOMAIN record =>
           record'[l] = NewRecord(s) /\ \A r \in Linked : record[r].key # s
  BY <1>2, <1>5, InsertedIs DEF BaseInvariant, RecordInvariant
<1>7. \A q \in Sources : (Registered(q)' <=> Registered(q)) /\ ClosedOf(q)' = ClosedOf(q)
  BY <1>2 DEF Registered, ClosedOf
<1>8. \A q \in Sources : Outstanding(q)' = Outstanding(q)
  BY <1>7 DEF Outstanding
<1>9. Linked \subseteq DOMAIN record
  BY RecordNumbers DEF BaseInvariant
<1>10. Outstanding(s) > 0 /\ Outstanding(s) \in Nat
  BY <1>3, OutstandingType DEF BaseInvariant
<1>11. ASSUME NEW r \in Linked', NEW q \in Sources, record'[r].key = q
       PROVE  /\ record'[r].registrations <= Outstanding(q)'
              /\ q \notin refused' => record'[r].registrations = Outstanding(q)'
              /\ \/ data_managers'[OdidOf[q]] # Closed
                 \/ Outstanding(q)' > 0
                 \/ pre'.pc = "count" /\ pre'.source = q
  <2>1. CASE r \in Linked
    BY <1>2, <1>6, <1>8, <1>9, <1>11, <2>1, RegistrationIs
  <2>2. CASE r \notin Linked
    <3>1. r = l /\ l \notin DOMAIN record
      BY <1>2, <1>6, <1>9, <2>2, RecordNumbers DEF Linked, BaseInvariant
    <3>2. s \in refused /\ q = s
      BY <1>4, <1>6, <1>11, <3>1, RecordNumbers DEF Linked, BaseInvariant
    <3>3. record'[r].registrations = 0
      BY <1>6, <3>1, NewRecordIs
    <3> QED
      BY <1>2, <1>8, <1>10, <3>2, <3>3
  <2> QED
    BY <2>1, <2>2
<1>12. \A q \in Sources : q \notin refused' /\ (\A r \in Linked' : record'[r].key # q) => Outstanding(q)' = 0
  BY <1>2, <1>6, <1>8, <1>9, RegistrationIs
<1>13. \A i \in DOMAIN pipe' : \A q \in Sources : pipe'[i].source = q /\ pipe'[i].status # "closed" =>
         Registered(q)' \/ \E j \in ClosedOf(q)' : i < j
  BY <1>2, <1>7, RegistrationIs
<1> QED
  BY <1>1, <1>4, <1>11, <1>12, <1>13, RegistrationNext
LEMMA ReceiveClosedRegistration ==
  ASSUME BaseInvariant, BaseInvariant', RegistrationInvariant, NEW s \in Sources, ReceiveClosed(s)
  PROVE  RegistrationInvariant'
<1>1. PICK m, n : /\ m = [status |-> "closed", source |-> s, type |-> "none",
                          template |-> NULL, described |-> Unsent]
                  /\ n = Len(pipe) + 1
  OBVIOUS
<1>2. /\ pre = Idle /\ pre' = pre /\ connected[s] /\ pre.pc = "idle"
      /\ connected' = [connected EXCEPT ![s] = FALSE] /\ pipe' = Append(pipe, m)
      /\ UNCHANGED <<record, freed_records, data_managers, refused>>
  BY <1>1 DEF ReceiveClosed, output_vars, manager_vars, history, Idle
<1>3. m \in Message /\ m.status = "closed" /\ m.source = s
  BY <1>1 DEF Message, NULL
<1>4. /\ Registered(s) /\ ~Registered(s)'
      /\ \A q \in Sources : q # s => (Registered(q)' <=> Registered(q))
  BY <1>2 DEF Registered, BaseInvariant, TypeOK
<1>5. /\ ClosedOf(s)' = ClosedOf(s) \cup {n} /\ Cardinality(ClosedOf(s)') = Cardinality(ClosedOf(s)) + 1
      /\ \A q \in Sources : q # s =>
           ClosedOf(q)' = ClosedOf(q) /\ Cardinality(ClosedOf(q)') = Cardinality(ClosedOf(q))
  BY <1>1, <1>2, <1>3, ClosedAppended DEF BaseInvariant
<1>6. \A q \in Sources : Outstanding(q)' = Outstanding(q)
  <2>1. Cardinality(ClosedOf(s)) \in Nat
    BY ClosedFinite DEF BaseInvariant
  <2>2. Outstanding(s)' = Outstanding(s)
    BY <1>4, <1>5, <2>1 DEF Outstanding
  <2>3. \A q \in Sources : q # s => Outstanding(q)' = Outstanding(q)
    BY <1>4, <1>5 DEF Outstanding
  <2> QED
    BY <2>2, <2>3
<1>7. /\ DOMAIN pipe' = DOMAIN pipe \cup {n} /\ pipe'[n] = m
      /\ \A i \in DOMAIN pipe : pipe'[i] = pipe[i] /\ i < n
  BY <1>1, <1>2, <1>3, Places, Appended DEF TypeOK, BaseInvariant
<1>8. ASSUME NEW i \in DOMAIN pipe', NEW q \in Sources, pipe'[i].source = q, pipe'[i].status # "closed"
      PROVE  Registered(q)' \/ \E j \in ClosedOf(q)' : i < j
  <2>1. i \in DOMAIN pipe /\ i < n /\ pipe[i].source = q /\ pipe[i].status # "closed"
    BY <1>3, <1>7, <1>8
  <2>2. Registered(q) \/ \E j \in ClosedOf(q) : i < j
    BY <2>1, RegistrationIs
  <2>3. CASE q = s
    BY <1>5, <2>1, <2>3
  <2>4. CASE q # s
    BY <1>4, <1>5, <2>2, <2>4
  <2> QED
    BY <2>3, <2>4
<1>9. Linked' = Linked
  BY <1>2 DEF Linked
<1> QED
  BY <1>2, <1>6, <1>8, <1>9, RegistrationIs, RegistrationNext

LEMMA SendRegistration ==
  ASSUME BaseInvariant, BaseInvariant', SessionInvariant, RegistrationInvariant, Send
  PROVE  RegistrationInvariant'
<1>1. PICK m \in Message, s \in Sources : m = Sent /\ s = pre.source
  BY SentType, TaskType DEF Send, BaseInvariant
<1>2. /\ m.source = s /\ m.status # "closed"
      /\ pipe' = Append(pipe, m) /\ pre.pc = "send" /\ pre'.pc = "idle"
      /\ UNCHANGED <<record, freed_records, connected, data_managers, refused>>
  BY <1>1, SentType, TaskType
     DEF Sent, Send, Idle, output_vars, exporter_vars, manager_vars, history, BaseInvariant
<1>3. Registered(s)
  BY <1>1, <1>2, WorkingRegistered
<1>4. \A q \in Sources : Registered(q)' <=> Registered(q)
  BY <1>2 DEF Registered
<1>5. \A q \in Sources : ClosedOf(q)' = ClosedOf(q)
  BY <1>2, ClosedAppended DEF BaseInvariant
<1>6. \A q \in Sources : Outstanding(q)' = Outstanding(q)
  BY <1>4, <1>5 DEF Outstanding
<1>7. PICK n : n = Len(pipe) + 1
  OBVIOUS
<1>8. /\ DOMAIN pipe' = DOMAIN pipe \cup {n} /\ pipe'[n] = m
      /\ \A i \in DOMAIN pipe : pipe'[i] = pipe[i]
  BY <1>2, <1>7, Places, Appended DEF TypeOK, BaseInvariant
<1>9. ASSUME NEW i \in DOMAIN pipe', NEW q \in Sources, pipe'[i].source = q, pipe'[i].status # "closed"
      PROVE  Registered(q)' \/ \E j \in ClosedOf(q)' : i < j
  <2>1. CASE i = n
    BY <1>2, <1>3, <1>4, <1>8, <1>9, <2>1
  <2>2. CASE i # n
    BY <1>4, <1>5, <1>8, <1>9, <2>2, RegistrationIs
  <2> QED
    BY <2>1, <2>2
<1>10. Linked' = Linked
  BY <1>2 DEF Linked
<1> QED
  BY <1>2, <1>6, <1>9, <1>10, RegistrationIs, RegistrationNext

\* What follows a message does so when the first one is taken.
LEMMA FollowedTaken ==
  ASSUME BaseInvariant, RegistrationInvariant, OutputIdle, pipe' = Tail(pipe),
         \A q \in Sources : Registered(q)' <=> Registered(q),
         NEW i \in DOMAIN pipe', NEW q \in Sources, pipe'[i].source = q, pipe'[i].status # "closed"
  PROVE  Registered(q)' \/ \E j \in ClosedOf(q)' : i < j
<1>1. i + 1 \in DOMAIN pipe /\ pipe'[i] = pipe[i + 1]
  BY TakenIs DEF BaseInvariant
<1>2. i \in Nat
  <2>1. pipe' \in Seq(Message)
    BY TakenIs DEF BaseInvariant
  <2> QED
    BY ONLY <2>1, i \in DOMAIN pipe'
<1>3. Registered(q) \/ \E j \in ClosedOf(q) : i + 1 < j
  BY <1>1, RegistrationIs
<1>4. ASSUME NEW j \in ClosedOf(q), i + 1 < j PROVE \E k \in ClosedOf(q)' : i < k
  <2>1. j \in Nat \ {0}
    BY Places DEF ClosedOf, BaseInvariant
  <2>2. j - 1 \in Nat \ {0} /\ j - 1 + 1 = j /\ i < j - 1
    BY ONLY <1>2, <1>4, <2>1
  <2>3. j - 1 \in ClosedOf(q)'
    BY <2>2, ClosedTaken DEF BaseInvariant
  <2> QED
    BY <2>2, <2>3
<1> QED
  BY <1>3, <1>4

LEMMA ForwardRegistration ==
  ASSUME BaseInvariant, BaseInvariant', RegistrationInvariant, Forward
  PROVE  RegistrationInvariant'
<1>1. PICK s \in Sources, o \in Odids : s = Head(pipe).source /\ o = OdidOf[s]
  BY TakenIs, ManagerOf DEF Forward, BaseInvariant
<1>2. /\ OutputIdle /\ Head(pipe).status # "closed" /\ pipe' = Tail(pipe)
      /\ UNCHANGED <<record, freed_records, pre, connected, refused>>
      /\ data_managers' = [data_managers EXCEPT ![o] =
           IF Head(pipe).status = "new" THEN Opened(o) + 1 ELSE Opened(o)]
  BY <1>1 DEF Forward, exporter_vars, manager_vars, history
<1>3. data_managers'[o] # Closed /\ \A p \in Odids : p # o => data_managers'[p] = data_managers[p]
  BY <1>2 DEF Opened, Closed, BaseInvariant, TypeOK
<1>4. \A q \in Sources : Registered(q)' <=> Registered(q)
  BY <1>2 DEF Registered
<1>5. \A q \in Sources : Cardinality(ClosedOf(q)') = Cardinality(ClosedOf(q))
  BY <1>2, ClosedTaken DEF BaseInvariant
<1>6. \A q \in Sources : Outstanding(q)' = Outstanding(q)
  BY <1>4, <1>5 DEF Outstanding
<1>7. \A i \in DOMAIN pipe' : \A q \in Sources : pipe'[i].source = q /\ pipe'[i].status # "closed" =>
         Registered(q)' \/ \E j \in ClosedOf(q)' : i < j
  BY <1>2, <1>4, FollowedTaken
<1>8. Linked' = Linked
  BY <1>2 DEF Linked
<1>9. ASSUME NEW r \in Linked', NEW q \in Sources, record'[r].key = q
      PROVE  /\ record'[r].registrations <= Outstanding(q)'
             /\ q \notin refused' => record'[r].registrations = Outstanding(q)'
             /\ \/ data_managers'[OdidOf[q]] # Closed
                \/ Outstanding(q)' > 0
                \/ pre'.pc = "count" /\ pre'.source = q
  <2>1. /\ record[r].registrations <= Outstanding(q)
        /\ q \notin refused => record[r].registrations = Outstanding(q)
        /\ \/ data_managers[OdidOf[q]] # Closed
           \/ Outstanding(q) > 0
           \/ pre.pc = "count" /\ pre.source = q
    BY <1>2, <1>8, <1>9, RegistrationIs
  <2> QED
    BY <1>2, <1>3, <1>6, <2>1, ManagerOf
<1> QED
  BY <1>2, <1>6, <1>7, <1>8, <1>9, RegistrationIs, RegistrationNext

LEMMA SourceClosedRegistration ==
  ASSUME BaseInvariant, BaseInvariant', SessionInvariant, SessionInvariant',
         RegistrationInvariant, SourceClosed
  PROVE  RegistrationInvariant'
<1> USE DEF BaseInvariant, RecordInvariant
<1>1. PICK s \in Sources, o \in Odids : s = Head(pipe).source /\ o = OdidOf[s]
  BY TakenIs, ManagerOf DEF SourceClosed
<1>2. PICK l : l = tm_record_lookup(s)
  OBVIOUS
<1>3. /\ OutputIdle /\ Head(pipe).status = "closed" /\ pipe' = Tail(pipe)
      /\ UNCHANGED <<freed_records, pre, connected, refused>>
      /\ record' = Unregistered(s)
      /\ data_managers' = [data_managers EXCEPT ![o] = Opened(o) - 1]
  BY <1>1 DEF SourceClosed, exporter_vars, history
<1>4. \A q \in Sources : Registered(q)' <=> Registered(q)
  BY <1>3 DEF Registered
<1>5. /\ Cardinality(ClosedOf(s)') = Cardinality(ClosedOf(s)) - 1
      /\ \A q \in Sources : q # s => Cardinality(ClosedOf(q)') = Cardinality(ClosedOf(q))
  BY <1>1, <1>3, ClosedTaken
<1>6. /\ Outstanding(s)' = Outstanding(s) - 1
      /\ \A q \in Sources : q # s => Outstanding(q)' = Outstanding(q)
  BY <1>4, <1>5, ClosedFinite DEF Outstanding
<1>7. Outstanding(s) > 0 /\ Outstanding(s) \in Nat
  <2>1. 1 \in ClosedOf(s)
    BY <1>1, <1>3, TakenIs DEF ClosedOf
  <2> QED
    BY <2>1, OutstandingType
<1>8. /\ \A r \in Linked : record[r].key = s <=> r = l
      /\ s \notin refused => l \in Linked
  <2>1. s \notin refused => \E r \in Linked : record[r].key = s
    BY <1>7, RegistrationIs
  <2>2. \A r \in Linked : record[r].key = s <=> r = l
    BY <1>2, LookupOnly
  <2> QED
    BY <2>1, <2>2
<1>9. /\ RegistrationsOnly
      /\ \A r \in DOMAIN record : record'[r].registrations =
           IF r = l /\ record[r].registrations # 0
           THEN record[r].registrations - 1 ELSE record[r].registrations
  BY <1>2, <1>3, UnregisteredIs
<1>10. /\ Linked' = Linked /\ Linked \subseteq DOMAIN record
       /\ \A r \in Linked : record'[r].key = record[r].key
  BY <1>3, <1>9, RecordNumbers DEF RegistrationsOnly, Linked
<1>11. data_managers'[o] # Closed /\ \A p \in Odids : p # o => data_managers'[p] = data_managers[p]
  <2>1. data_managers[o] # Closed /\ data_managers[o] # 0
    <3>1. s \in Open(o) /\ o \notin closing
      <4>1. InSession(s)
        BY <1>1, <1>3, TakenIs, Places DEF InSession
      <4> QED
        BY <1>1, <1>3, <4>1 DEF Open, OutputIdle
    <3>2. IsFiniteSet(Open(o)) /\ Cardinality(Open(o)) # 0 /\ Cardinality(Open(o)) \in Nat
      BY <3>1, OpenFinite, FS_EmptySet, FS_CardinalityType
    <3> QED
      BY <3>1, <3>2 DEF SessionInvariant, ManagersInvariant, Closed
  <2>2. data_managers[o] \in {Closed} \cup Nat
    BY DEF TypeOK
  <2> QED
    BY <1>3, <2>1, <2>2 DEF Opened, Closed, TypeOK
<1>12. ASSUME NEW r \in Linked', NEW q \in Sources, record'[r].key = q
       PROVE  /\ record'[r].registrations <= Outstanding(q)'
              /\ q \notin refused' => record'[r].registrations = Outstanding(q)'
              /\ \/ data_managers'[OdidOf[q]] # Closed
                 \/ Outstanding(q)' > 0
                 \/ pre'.pc = "count" /\ pre'.source = q
  <2>1. /\ record[r].registrations <= Outstanding(q)
        /\ q \notin refused => record[r].registrations = Outstanding(q)
        /\ \/ data_managers[OdidOf[q]] # Closed
           \/ Outstanding(q) > 0
           \/ pre.pc = "count" /\ pre.source = q
    BY <1>10, <1>12, RegistrationIs
  <2>2. CASE q = s
    <3>1. r = l /\ r \in DOMAIN record /\ record[r].registrations \in Nat
      BY <1>8, <1>10, <1>12, <2>2, RecordNumbers DEF Record
    <3>2. /\ record'[r].registrations <= Outstanding(q)'
          /\ q \notin refused' => record'[r].registrations = Outstanding(q)'
      BY <1>3, <1>6, <1>7, <1>9, <2>1, <2>2, <3>1
    <3> QED
      BY <1>1, <1>11, <2>2, <3>2
  <2>3. CASE q # s
    <3>1. r # l /\ r \in DOMAIN record
      BY <1>8, <1>10, <1>12, <2>3
    <3>2. record'[r].registrations = record[r].registrations /\ Outstanding(q)' = Outstanding(q)
      BY <1>6, <1>9, <2>3, <3>1
    <3> QED
      BY <1>3, <1>11, <2>1, <3>2, ManagerOf
  <2> QED
    BY <2>2, <2>3
<1>13. \A q \in Sources : q \notin refused' /\ (\A r \in Linked' : record'[r].key # q) => Outstanding(q)' = 0
  BY <1>3, <1>6, <1>8, <1>10, RegistrationIs
<1>14. \A i \in DOMAIN pipe' : \A q \in Sources : pipe'[i].source = q /\ pipe'[i].status # "closed" =>
         Registered(q)' \/ \E j \in ClosedOf(q)' : i < j
  BY <1>3, <1>4, FollowedTaken
<1> QED
  BY <1>12, <1>13, <1>14, RegistrationNext

LEMMA RemoveManagerRegistration ==
  ASSUME BaseInvariant, BaseInvariant', RegistrationInvariant, NEW o \in Odids, RemoveManager(o)
  PROVE  RegistrationInvariant'
<1> USE DEF BaseInvariant, RecordInvariant
<1>1. /\ freed_records' = freed_records \cup Gone(o)
      /\ Gone(o) \subseteq Linked /\ Linked' = Linked \ Gone(o)
      /\ \A r \in DOMAIN record : /\ record'[r].key = record[r].key
                                  /\ record'[r].registrations = record[r].registrations
  BY DestroyedIs
<1>2. /\ UNCHANGED <<pre, pipe, connected, refused>>
      /\ data_managers' = [data_managers EXCEPT ![o] = Closed]
  BY DEF RemoveManager, exporter_vars, history
<1>3. \A p \in Odids : p # o => data_managers'[p] = data_managers[p]
  BY <1>2 DEF TypeOK
<1>4. Linked \subseteq DOMAIN record
  BY RecordNumbers
<1>6. \A q \in Sources : (Registered(q)' <=> Registered(q)) /\ ClosedOf(q)' = ClosedOf(q)
  BY <1>2 DEF Registered, ClosedOf
<1>7. \A q \in Sources : Outstanding(q)' = Outstanding(q)
  BY <1>6 DEF Outstanding
<1>8. ASSUME NEW r \in Linked', NEW q \in Sources, record'[r].key = q
      PROVE  /\ record'[r].registrations <= Outstanding(q)'
             /\ q \notin refused' => record'[r].registrations = Outstanding(q)'
             /\ \/ data_managers'[OdidOf[q]] # Closed
                \/ Outstanding(q)' > 0
                \/ pre'.pc = "count" /\ pre'.source = q
  <2>1. r \in Linked /\ r \notin Gone(o) /\ record[r].key = q
    BY <1>1, <1>4, <1>8
  <2>2. /\ record[r].registrations <= Outstanding(q)
        /\ q \notin refused => record[r].registrations = Outstanding(q)
        /\ \/ data_managers[OdidOf[q]] # Closed
           \/ Outstanding(q) > 0
           \/ pre.pc = "count" /\ pre.source = q
    BY <2>1, RegistrationIs
  <2>3. CASE OdidOf[q] = o
    <3>1. record[r].registrations # 0 /\ record[r].registrations \in Nat
      BY <1>4, <2>1, <2>3, RecordNumbers DEF Gone, Record
    <3>2. Outstanding(q)' > 0
      BY <1>7, <2>2, <3>1, OutstandingType
    <3> QED
      BY <1>1, <1>2, <1>4, <1>7, <2>1, <2>2, <3>2
  <2>4. CASE OdidOf[q] # o
    BY <1>1, <1>2, <1>3, <1>4, <1>7, <2>1, <2>2, <2>4, ManagerOf
  <2> QED
    BY <2>3, <2>4
<1>9. ASSUME NEW q \in Sources, q \notin refused', \A r \in Linked' : record'[r].key # q
      PROVE  Outstanding(q)' = 0
  <2>1. CASE \E r \in Gone(o) : record[r].key = q
    BY <1>1, <1>2, <1>7, <1>9, <2>1, RegistrationIs DEF Gone
  <2>2. CASE ~\E r \in Gone(o) : record[r].key = q
    BY <1>1, <1>2, <1>4, <1>7, <1>9, <2>2, RegistrationIs
  <2> QED
    BY <2>1, <2>2
<1>10. \A i \in DOMAIN pipe' : \A q \in Sources : pipe'[i].source = q /\ pipe'[i].status # "closed" =>
         Registered(q)' \/ \E j \in ClosedOf(q)' : i < j
  BY <1>2, <1>6, RegistrationIs
<1> QED
  BY <1>8, <1>9, <1>10, RegistrationNext

LEMMA InitRegistration == Init => RegistrationInvariant
<1> SUFFICES ASSUME Init PROVE RegistrationInvariant
  OBVIOUS
<1>1. /\ pre.pc = "idle" /\ pipe = <<>> /\ record = <<>> /\ Linked = {}
      /\ \A s \in Sources : ~connected[s]
  BY DEF Init, Idle, Linked
<1>2. \A s \in Sources : ClosedOf(s) = {} /\ ~Registered(s)
  BY <1>1 DEF ClosedOf, Registered
<1>3. \A s \in Sources : Outstanding(s) = 0
  BY <1>2, FS_EmptySet DEF Outstanding
<1> QED
  BY <1>1, <1>3 DEF RegistrationInvariant, FollowedInvariant, CountedInvariant, RemovedInvariant

LEMMA NextRegistration ==
  BaseInvariant /\ SessionInvariant /\ RegistrationInvariant /\ [Next]_vars
    => RegistrationInvariant'
<1> SUFFICES ASSUME BaseInvariant, SessionInvariant, RegistrationInvariant, [Next]_vars
             PROVE  RegistrationInvariant'
  OBVIOUS
<1>0. BaseInvariant' /\ SessionInvariant'
  BY NextBase, NextSession
<1>1. ASSUME NEW s \in Sources, Exporter(s) PROVE RegistrationInvariant'
  BY <1>0, <1>1, ReceiveRegistration, ReceiveClosedRegistration DEF Exporter
<1>2. CASE Preprocessor
  BY <1>0, <1>2, RegisterRegistration, CountRegistrationRegistration, FindRecordRegistration,
     WorkingRegistration, SendRegistration DEF Preprocessor
<1>3. CASE OutputManager
  BY <1>0, <1>3, ForwardRegistration, SourceClosedRegistration, RemoveManagerRegistration
     DEF OutputManager
<1>4. ASSUME NEW o \in Odids, TestReferences(o) \/ ReleaseMessage(o) PROVE RegistrationInvariant'
  BY <1>0, <1>4, IdleRegistration DEF TestReferences, ReleaseMessage, exporter_vars, manager_vars, history
<1>5. CASE UNCHANGED vars
  BY <1>0, <1>5, IdleRegistration DEF vars, manager_vars, history, output_vars, exporter_vars
<1> QED
  BY <1>1, <1>2, <1>3, <1>4, <1>5 DEF Next

\* A record counts the connections of its source whose CLOSED the Output
\* Manager has not seen, or at most these once a registration of the source has
\* failed; it is in the list only as long as a Data Manager or a connection
\* keeps it there.
THEOREM RegistrationsCounted ==
  Spec => [](BaseInvariant /\ SessionInvariant /\ RegistrationInvariant)
<1> DEFINE I == BaseInvariant /\ SessionInvariant /\ RegistrationInvariant
<1>1. I /\ [Next]_vars => I'
  BY NextBase, NextSession, NextRegistration
<1>2. Init => I
  BY InitBase, InitSession, InitRegistration
<1> QED
  BY <1>1, <1>2, PTL DEF Spec

-----------------------------------------------------------------------------
(***************************************************************************)
(* What is in the arrays.                                                  *)
(***************************************************************************)

LEMMA PlacedStored ==
  ASSUME NEW old \in Seq(Seq(Nat)), NEW new \in Seq(Seq(Nat)), NEW h, NEW n \in Nat,
         Placed(old, new, h, n), Once(old), ~Stored(old, n)
  PROVE  /\ \A t : Stored(new, t) <=> Stored(old, t) \/ t = n
         /\ Once(new)
         /\ Newest(new, n) /\ \A t : Newest(old, t) => Newest(new, t)
<1>0. DOMAIN <<n>> = {1} /\ <<n>>[1] = n /\ DOMAIN Hole = {}
  BY DEF Hole
<1>1. \A i \in DOMAIN new : \A k \in DOMAIN new[i] :
        \/ i = h /\ k = 1 /\ new[i][k] = n
        \/ i # h /\ i \in DOMAIN old /\ k \in DOMAIN old[i] /\ new[i][k] = old[i][k]
  BY <1>0 DEF Placed
<1>2. \A i \in DOMAIN old : \A k \in DOMAIN old[i] :
        i # h /\ i \in DOMAIN new /\ k \in DOMAIN new[i] /\ new[i][k] = old[i][k]
  BY <1>0 DEF Placed
<1>3. h \in DOMAIN new /\ 1 \in DOMAIN new[h] /\ new[h][1] = n
  BY <1>0 DEF Placed
<1>4. ASSUME NEW t PROVE Stored(new, t) <=> Stored(old, t) \/ t = n
  BY <1>1, <1>2, <1>3 DEF Stored
<1>5. Once(new)
  <2>1. \A i \in DOMAIN old : \A k \in DOMAIN old[i] : old[i][k] # n
    BY DEF Stored
  <2>2. ASSUME NEW i \in DOMAIN new, NEW j \in DOMAIN new,
               NEW k \in DOMAIN new[i], NEW l \in DOMAIN new[j], new[i][k] = new[j][l]
        PROVE  i = j /\ k = l
    <3>1. CASE i = h
      BY <1>1, <2>1, <2>2, <3>1
    <3>2. CASE i # h
      <4>1. i \in DOMAIN old /\ k \in DOMAIN old[i] /\ new[i][k] = old[i][k]
        BY <1>1, <3>2
      <4>2. j # h /\ j \in DOMAIN old /\ l \in DOMAIN old[j] /\ new[j][l] = old[j][l]
        BY <1>1, <2>1, <2>2, <4>1, ZenonT(30)
      <4>3. old[i][k] = old[j][l]
        BY <2>2, <4>1, <4>2
      <4> QED
        BY ONLY Once(old), <4>1, <4>2, <4>3 DEF Once
    <3> QED
      BY <3>1, <3>2
  <2> QED
    BY <2>2 DEF Once
<1>6. UsedIn(new) = UsedIn(old) \cup {h} /\ h \notin UsedIn(old)
  BY PlacedUsed
<1>7. \A i \in UsedIn(old) : new[i] = old[i]
  BY <1>6 DEF Placed, UsedIn
<1> QED
  BY <1>3, <1>4, <1>5, <1>6, <1>7 DEF Newest

LEMMA ClearedStored ==
  ASSUME NEW old \in Seq(Seq(Nat)), NEW new \in Seq(Seq(Nat)), NEW h \in UsedIn(old),
         Cleared(old, new, h), Once(old)
  PROVE  /\ \A t : Stored(new, t) <=> Stored(old, t) /\ t \notin ToSet(old[h])
         /\ Once(new)
         /\ \A t : Newest(old, t) /\ t # old[h][1] => Newest(new, t)
<1>0. DOMAIN Hole = {} /\ h \in DOMAIN old
  BY DEF Hole, UsedIn
<1>1. \A i \in DOMAIN new : \A k \in DOMAIN new[i] :
        i # h /\ i \in DOMAIN old /\ k \in DOMAIN old[i] /\ new[i][k] = old[i][k]
  BY <1>0 DEF Cleared
<1>2. \A i \in DOMAIN old : i # h => i \in DOMAIN new /\ new[i] = old[i]
  BY DEF Cleared
<1>3. \A t : t \in ToSet(old[h]) <=> \E k \in DOMAIN old[h] : old[h][k] = t
  BY DEF ToSet
<1>4. ASSUME NEW t PROVE Stored(new, t) <=> Stored(old, t) /\ t \notin ToSet(old[h])
  <2>1. ASSUME Stored(new, t) PROVE Stored(old, t) /\ t \notin ToSet(old[h])
    <3>1. PICK i \in DOMAIN new : \E k \in DOMAIN new[i] : new[i][k] = t
      BY <2>1 DEF Stored
    <3>2. PICK k \in DOMAIN new[i] : new[i][k] = t
      BY <3>1
    <3>3. i # h /\ i \in DOMAIN old /\ k \in DOMAIN old[i] /\ old[i][k] = t
      BY <1>1, <3>2
    <3> QED
      BY <1>0, <1>3, <3>3, SMTT(30) DEF Stored, Once
  <2>2. ASSUME Stored(old, t), t \notin ToSet(old[h]) PROVE Stored(new, t)
    BY <1>2, <1>3, <2>2 DEF Stored
  <2> QED
    BY <2>1, <2>2
<1>5. Once(new)
  BY <1>1 DEF Once
<1>6. \A i \in UsedIn(old) : i # h => i \in UsedIn(new) /\ new[i] = old[i]
  BY <1>2 DEF UsedIn
<1> QED
  BY <1>4, <1>5, <1>6 DEF Newest

\* What is in the array of a record whose template was updated.
LEMMA UpdatedStored ==
  ASSUME NEW old \in Seq(Seq(Nat)), NEW new \in Seq(Seq(Nat)), NEW slot \in UsedIn(old),
         NEW n \in Nat, NEW unused \in BOOLEAN, UpdatedIs(old, new, slot, n, unused),
         Once(old), ~Stored(old, n)
  PROVE  /\ \A t : Stored(new, t) <=> (Stored(old, t) /\ ~(unused /\ t = old[slot][1])) \/ t = n
         /\ Once(new)
         /\ Newest(new, n) /\ \A t : Newest(old, t) /\ t # old[slot][1] => Newest(new, t)
<1>0. PICK was : was = old[slot]
  OBVIOUS
<1>1. was \in Seq(Nat) /\ was # <<>> /\ slot \in DOMAIN old /\ 1 \in DOMAIN was
  BY <1>0, HeadOf
<1>2. CASE unused /\ Len(old[slot]) = 1
  <2>1. PICK mid \in Seq(Seq(Nat)), h \in Nat : Cleared(old, mid, slot) /\ Placed(mid, new, h, n)
    BY <1>2 DEF UpdatedIs
  <2>2. \A t : t \in ToSet(was) <=> t = was[1]
    <3>1. DOMAIN was = {1}
      <4>1. Len(was) = 1
        BY <1>0, <1>2
      <4> QED
        BY ONLY <1>1, <4>1
    <3> QED
      BY <3>1 DEF ToSet
  <2>3. /\ \A t : Stored(mid, t) <=> Stored(old, t) /\ t \notin ToSet(was)
        /\ Once(mid)
        /\ \A t : Newest(old, t) /\ t # was[1] => Newest(mid, t)
    BY <1>0, <2>1, ClearedStored
  <2>4. /\ \A t : Stored(new, t) <=> Stored(mid, t) \/ t = n
        /\ Once(new)
        /\ Newest(new, n) /\ \A t : Newest(mid, t) => Newest(new, t)
    BY <2>1, <2>3, PlacedStored
  <2> QED
    BY <1>0, <1>2, <2>2, <2>3, <2>4
<1>3. CASE ~(unused /\ Len(old[slot]) = 1)
  <2>0. PICK rest : rest = IF unused THEN Tail(was) ELSE was
    OBVIOUS
  <2>1. PICK chain : chain = <<n>> \o rest
    OBVIOUS
  <2>2. new = [old EXCEPT ![slot] = chain]
    BY <1>0, <1>3, <2>0, <2>1 DEF UpdatedIs
  <2>3. PICK d \in {0, 1} : d = IF unused THEN 0 ELSE 1
    OBVIOUS
  <2>4. /\ chain \in Seq(Nat) /\ chain # <<>> /\ chain[1] = n /\ 1 \in DOMAIN chain
        /\ \A k \in DOMAIN chain : k # 1 => k - d \in DOMAIN was /\ chain[k] = was[k - d]
        /\ \A k \in DOMAIN was : (unused => k # 1) =>
             k + d \in DOMAIN chain /\ k + d # 1 /\ chain[k + d] = was[k]
        /\ \A k \in DOMAIN chain : k # 1 => (unused => k - d # 1)
    <3>1. Renewed(chain, was, n, unused, d)
      BY <1>1, <2>0, <2>1, <2>3 DEF Renewed
    <3> QED
      BY ONLY <3>1, RenewedChain
  <2>5. /\ DOMAIN new = DOMAIN old /\ UsedIn(new) = UsedIn(old)
        /\ \A i \in DOMAIN old : new[i] = IF i = slot THEN chain ELSE old[i]
    <3>1. chain \in Seq(Nat) /\ chain # <<>>
      BY <2>4
    <3> QED
      BY <2>2, <3>1, Chained
  <2>6. \A k, l \in DOMAIN was : was[k] = was[l] => k = l
    BY <1>0, <1>1 DEF Once
  <2>7. \A i \in DOMAIN old : \A k \in DOMAIN old[i] : \A l \in DOMAIN was :
          old[i][k] = was[l] => i = slot /\ k = l
    BY <1>0, <1>1 DEF Once
  <2>8. DOMAIN chain \subseteq Nat /\ DOMAIN was \subseteq Nat
    BY ONLY <1>1, <2>4
  <2>9. ASSUME NEW t, Stored(new, t)
        PROVE  (Stored(old, t) /\ ~(unused /\ t = was[1])) \/ t = n
    <3>1. PICK i \in DOMAIN old : \E k \in DOMAIN new[i] : new[i][k] = t
      BY <2>5, <2>9 DEF Stored
    <3>2. PICK k \in DOMAIN new[i] : new[i][k] = t
      BY <3>1
    <3>3. CASE i # slot
      <4>1. k \in DOMAIN old[i] /\ old[i][k] = t
        BY <2>5, <3>2, <3>3
      <4>2. t # was[1]
        BY <1>1, <2>7, <3>3, <4>1
      <4> QED
        BY <4>1, <4>2 DEF Stored
    <3>4. CASE i = slot /\ k = 1
      BY <2>4, <2>5, <3>2, <3>4
    <3>5. CASE i = slot /\ k # 1
      <4>1. k \in DOMAIN chain /\ k - d \in DOMAIN was /\ t = was[k - d] /\ (unused => k - d # 1)
        BY <2>4, <2>5, <3>2, <3>5
      <4>2. unused => t # was[1]
        BY <1>1, <2>6, <4>1
      <4> QED
        BY <1>0, <1>1, <4>1, <4>2 DEF Stored
    <3> QED
      BY <3>3, <3>4, <3>5
  <2>10. ASSUME NEW t, Stored(old, t), ~(unused /\ t = was[1]) PROVE Stored(new, t)
    <3>1. PICK i \in DOMAIN old : \E k \in DOMAIN old[i] : old[i][k] = t
      BY <2>10 DEF Stored
    <3>2. PICK k \in DOMAIN old[i] : old[i][k] = t
      BY <3>1
    <3>3. CASE i # slot
      BY <2>5, <3>2, <3>3 DEF Stored
    <3>4. CASE i = slot
      <4>1. k \in DOMAIN was /\ was[k] = t /\ (unused => k # 1)
        BY <1>0, <2>10, <3>2, <3>4
      <4>2. k + d \in DOMAIN chain /\ chain[k + d] = t
        BY <2>4, <4>1
      <4> QED
        BY <1>1, <2>5, <4>2 DEF Stored
    <3> QED
      BY <3>3, <3>4
  <2>11. Stored(new, n)
    BY <1>1, <2>4, <2>5 DEF Stored
  <2>12. ASSUME NEW i \in DOMAIN new, NEW j \in DOMAIN new,
                NEW k \in DOMAIN new[i], NEW l \in DOMAIN new[j], new[i][k] = new[j][l]
         PROVE  i = j /\ k = l
    <3>1. ASSUME NEW p \in DOMAIN new, NEW m \in DOMAIN new[p]
          PROVE  \/ p = slot /\ m = 1 /\ new[p][m] = n
                 \/ p = slot /\ m # 1 /\ m - d \in DOMAIN was /\ new[p][m] = was[m - d] /\ m \in Nat
                 \/ p # slot /\ p \in DOMAIN old /\ m \in DOMAIN old[p] /\ new[p][m] = old[p][m]
      BY <2>4, <2>5, <2>8, <3>1
    <3>2. \A p \in DOMAIN old : \A m \in DOMAIN old[p] : old[p][m] # n
      BY DEF Stored
    <3>3. \A m \in DOMAIN was : was[m] # n
      BY <1>0, <1>1, <3>2
    <3>4. CASE i = slot /\ k = 1
      <4>1. new[j][l] = n
        BY <2>4, <2>5, <2>12, <3>4
      <4> QED
        BY <3>1, <3>2, <3>3, <3>4, <4>1
    <3>5. CASE j = slot /\ l = 1
      <4>1. new[i][k] = n
        BY <2>4, <2>5, <2>12, <3>5
      <4> QED
        BY <3>1, <3>2, <3>3, <3>5, <4>1
    <3>6. CASE i = slot /\ k # 1 /\ j = slot /\ l # 1
      <4>1. k - d = l - d /\ k \in Nat /\ l \in Nat
        BY <2>6, <2>12, <3>1, <3>6
      <4> QED
        BY ONLY <2>3, <3>6, <4>1
    <3>7. CASE i = slot /\ k # 1 /\ j # slot
      BY <2>7, <2>12, <3>1, <3>7
    <3>8. CASE i # slot /\ j = slot /\ l # 1
      BY <2>7, <2>12, <3>1, <3>8
    <3>9. CASE i # slot /\ j # slot
      BY <2>12, <3>1, <3>9 DEF Once
    <3> QED
      BY <3>4, <3>5, <3>6, <3>7, <3>8, <3>9
  <2>13. Once(new)
    BY <2>12 DEF Once
  <2>14. Newest(new, n) /\ \A t : Newest(old, t) /\ t # was[1] => Newest(new, t)
    <3>1. slot \in UsedIn(new) /\ new[slot][1] = n
      BY <1>1, <2>4, <2>5
    <3>2. \A i \in UsedIn(old) : i \in DOMAIN old
      BY DEF UsedIn
    <3> QED
      BY <1>0, <2>5, <3>1, <3>2 DEF Newest
  <2> QED
    BY <1>0, <2>9, <2>10, <2>11, <2>13, <2>14
<1> QED
  BY <1>2, <1>3
-----------------------------------------------------------------------------
(***************************************************************************)
(* Templates are freed or in a record.                                     *)
(***************************************************************************)

LEMMA ExcusedKept ==
  ASSUME BaseInvariant, ListUnchanged, refused \subseteq refused', NEW r \in DOMAIN record, Excused(r)
  PROVE  Excused(r)'
BY ListFrame DEF Excused, BaseInvariant, ListUnchanged

\* The record to be changed stays in the list.
LEMMA AtHandKept ==
  ASSUME BaseInvariant, OwnedInvariant, ListUnchanged, refused \subseteq refused',
         pre' = pre \/ pre'.pc \notin {"add", "update"}
  PROVE  ChangedInvariant'
<1>1. Linked' = Linked /\ Linked \subseteq DOMAIN record
  BY ListFrame, RecordNumbers DEF BaseInvariant
<1> QED
  BY <1>1 DEF OwnedInvariant, ChangedInvariant, ListUnchanged

LEMMA OwnedKept ==
  ASSUME BaseInvariant, OwnedInvariant, ListUnchanged, refused \subseteq refused',
         \A r \in DOMAIN record : record'[r].templates = record[r].templates,
         DOMAIN template' = DOMAIN template, freed_templates' = freed_templates,
         pre' = pre \/ pre'.pc \notin {"add", "update"}
  PROVE  OwnedInvariant' /\ \A r \in DOMAIN record : \A t : Has(r, t)' <=> Has(r, t)
<1>1. Linked' = Linked /\ Linked \subseteq DOMAIN record /\ DOMAIN record' = DOMAIN record
  BY ListFrame, RecordNumbers DEF BaseInvariant, ListUnchanged
<1>2. \A r \in DOMAIN record : \A t : Has(r, t)' <=> Has(r, t)
  BY DEF Has
<1>3. \A r \in DOMAIN record : Once(record'[r].templates)
  BY DEF OwnedInvariant
<1>4. ChangedInvariant'
  BY AtHandKept
<1>5. /\ \A r, q \in DOMAIN record' : \A t \in DOMAIN template' : Has(r, t)' /\ Has(q, t)' => r = q
      /\ \A r \in Linked' : \A t \in DOMAIN template' : Has(r, t)' => t \notin freed_templates'
      /\ \A t \in DOMAIN template' :
           t \in freed_templates' \/ \E r \in DOMAIN record' : Has(r, t)' /\ Excused(r)'
  BY <1>1, <1>2, ExcusedKept DEF OwnedInvariant
<1>6. \A r \in DOMAIN record' : Once(record[r].templates)'
  BY <1>1, <1>3 DEF Once
<1> QED
  BY <1>2, <1>4, <1>5, <1>6 DEF OwnedInvariant

\* The array of record c changes: the templates in F are freed, those in A are new.
LEMMA OwnedChanged ==
  ASSUME BaseInvariant, OwnedInvariant, ListUnchanged, refused' = refused,
         NEW c \in DOMAIN record, NEW A, NEW F, A = {} \/ Excused(c),
         \A r \in DOMAIN record : r # c => record'[r].templates = record[r].templates,
         Once(record'[c].templates),
         \A t : Stored(record'[c].templates, t) <=> (Has(c, t) /\ t \notin F) \/ t \in A,
         DOMAIN template' = DOMAIN template \cup A, A \cap DOMAIN template = {},
         \A t \in F : Has(c, t), F \subseteq DOMAIN template,
         freed_templates' = freed_templates \cup F, pre'.pc \notin {"add", "update"}
  PROVE  /\ OwnedInvariant'
         /\ \A r \in DOMAIN record, t \in DOMAIN template : Has(r, t)' <=> Has(r, t) /\ t \notin F
<1>1. Linked' = Linked /\ Linked \subseteq DOMAIN record /\ DOMAIN record' = DOMAIN record
  BY ListFrame, RecordNumbers DEF BaseInvariant, ListUnchanged
<1>2. \A t : Has(c, t)' <=> (Has(c, t) /\ t \notin F) \/ t \in A
  BY DEF Has
<1>3. \A r \in DOMAIN record : r # c => \A t : Has(r, t)' <=> Has(r, t)
  BY DEF Has
<1>4. \A r \in DOMAIN record : \A t : Has(r, t) => t \in DOMAIN template
  BY DEF Has, Stored, BaseInvariant, RecordInvariant, SlotsInvariant
<1>5. \A r \in DOMAIN record : r # c => \A t \in F : ~Has(r, t)
  BY <1>4 DEF OwnedInvariant
<1>6. \A r \in DOMAIN record' : Once(record[r].templates)'
  <2>1. ASSUME NEW r \in DOMAIN record PROVE Once(record'[r].templates)
    <3>1. CASE r = c
      BY <3>1
    <3>2. CASE r # c
      BY <3>2 DEF OwnedInvariant
    <3> QED
      BY <3>1, <3>2
  <2> QED
    BY <1>1, <2>1 DEF Once
<1>7. ASSUME NEW r \in DOMAIN record, NEW q \in DOMAIN record, NEW t, Has(r, t)', Has(q, t)'
      PROVE  r = q
  <2>1. CASE t \in A
    BY <1>2, <1>3, <1>4, <1>7, <2>1
  <2>2. CASE t \notin A
    <3>1. Has(r, t) /\ Has(q, t)
      BY <1>2, <1>3, <1>7, <2>2
    <3> QED
      BY <1>4, <3>1 DEF OwnedInvariant
  <2> QED
    BY <2>1, <2>2
<1>8. ASSUME NEW r \in Linked, NEW t, Has(r, t)' PROVE t \notin freed_templates'
  <2>0. freed_templates \subseteq DOMAIN template
    BY DEF BaseInvariant, TypeOK
  <2>1. CASE t \in A
    BY <2>0, <2>1
  <2>2. CASE t \notin A
    <3>1. Has(r, t) /\ t \notin F
      BY <1>1, <1>2, <1>3, <1>5, <1>8, <2>2
    <3> QED
      BY <1>1, <1>4, <3>1 DEF OwnedInvariant
  <2> QED
    BY <2>1, <2>2
<1>9. ASSUME NEW t \in DOMAIN template', t \notin freed_templates'
      PROVE  \E r \in DOMAIN record : Has(r, t)' /\ Excused(r)'
  <2>1. CASE t \in A
    BY <1>2, <2>1, ExcusedKept
  <2>2. CASE t \notin A
    <3>1. PICK r \in DOMAIN record : Has(r, t) /\ Excused(r)
      BY <1>9, <2>2 DEF OwnedInvariant
    <3> QED
      BY <1>2, <1>3, <1>9, <2>2, <3>1, ExcusedKept
  <2> QED
    BY <2>1, <2>2
<1>10. \A r \in DOMAIN record, t \in DOMAIN template : Has(r, t)' <=> Has(r, t) /\ t \notin F
  BY <1>2, <1>3, <1>5
<1>11. ChangedInvariant'
  BY DEF ChangedInvariant
<1> QED
  BY <1>1, <1>6, <1>7, <1>8, <1>9, <1>10, <1>11 DEF OwnedInvariant

\* What is in the arrays once a template was added: the new one is the newest
\* of its ID, and nothing is freed.
LEMMA AddOwned ==
  ASSUME BaseInvariant, OwnedInvariant, AddTemplate
  PROVE  /\ OwnedInvariant' /\ pre.cur \in DOMAIN record /\ record[pre.cur].key = pre.source
         /\ pre.source \notin refused => pre.cur \in Linked
         /\ \A r \in DOMAIN record, t \in DOMAIN template : Has(r, t)' <=> Has(r, t)
         /\ Newest(record'[pre.cur].templates, Len(template) + 1)
         /\ \A t : Newest(record[pre.cur].templates, t) => Newest(record'[pre.cur].templates, t)
         /\ \A r \in DOMAIN record : r # pre.cur => record'[r].templates = record[r].templates
<1>1. PICK c, n : c = pre.cur /\ n = Len(template) + 1
  OBVIOUS
<1>2. /\ c \in DOMAIN record /\ record[c].key = pre.source
      /\ pre.source \notin refused => c \in Linked
  BY <1>1 DEF AddTemplate, OwnedInvariant, ChangedInvariant
<1>3. PICK rec : rec = Insert(record[c], n)
  OBVIOUS
<1>4. record' = [record EXCEPT ![c] = rec] /\ template' = Append(template, NewTemplate)
  BY <1>1, <1>3, AddedIs
<1>5. /\ DOMAIN template' = DOMAIN template \cup {n} /\ n \notin DOMAIN template /\ n \in Nat
  BY <1>1, <1>4, NewTemplateIs DEF AddTemplate
<1>6. PICK old : old = record[c].templates
  OBVIOUS
<1>7. old \in Seq(Seq(Nat)) /\ Once(old) /\ ~Stored(old, n)
  <2>1. old \in Seq(Seq(Nat)) /\ ArrayFine(old)
    BY <1>2, <1>6, ArrayOf, ArrayIsFine
  <2>2. ~Stored(old, n)
    BY <1>5, <2>1 DEF ArrayFine, Stored
  <2> QED
    BY <1>2, <1>6, <2>1, <2>2 DEF OwnedInvariant
<1>8. /\ rec \in Record /\ \E h \in Nat : Placed(old, rec.templates, h, n)
  BY <1>2, <1>3, <1>5, <1>6, ArrayOf, InsertIs
<1>9. PICK h \in Nat : Placed(old, rec.templates, h, n)
  BY <1>8
<1>10. PICK new : new = rec.templates /\ new \in Seq(Seq(Nat))
  BY <1>8 DEF Record
<1>11. /\ \A t : Stored(new, t) <=> Stored(old, t) \/ t = n
       /\ Once(new)
       /\ Newest(new, n) /\ \A t : Newest(old, t) => Newest(new, t)
  BY <1>5, <1>7, <1>9, <1>10, PlacedStored
<1>12. /\ record'[c].templates = new
       /\ \A r \in DOMAIN record : r # c => record'[r].templates = record[r].templates
  BY <1>2, <1>4, <1>8, <1>10, ExceptInSeq DEF BaseInvariant, TypeOK
<1>13. ListUnchanged
  BY ArrayChanged
<1>14. /\ OwnedInvariant'
       /\ \A r \in DOMAIN record, t \in DOMAIN template : Has(r, t)' <=> Has(r, t)
  <2>1. PICK A, F : A = {n} /\ F = {}
    OBVIOUS
  <2>2. \A t : Stored(record'[c].templates, t) <=> (Has(c, t) /\ t \notin F) \/ t \in A
    BY <1>6, <1>11, <1>12, <2>1 DEF Has
  <2>3. /\ DOMAIN template' = DOMAIN template \cup A /\ A \cap DOMAIN template = {}
        /\ F \subseteq DOMAIN template /\ \A t \in F : Has(c, t)
        /\ freed_templates' = freed_templates \cup F /\ pre'.pc \notin {"add", "update"}
    BY <1>5, <2>1, AddedIs DEF AddTemplate
  <2>6. refused' = refused /\ Excused(c)
    BY <1>2 DEF AddTemplate, history, Excused
  <2>4. Once(record'[c].templates)
    BY <1>11, <1>12
  <2>5. /\ OwnedInvariant'
        /\ \A r \in DOMAIN record, t \in DOMAIN template :
             Has(r, t)' <=> Has(r, t) /\ t \notin F
    BY <1>2, <1>12, <1>13, <2>2, <2>3, <2>4, <2>6, OwnedChanged
  <2> QED
    BY <2>1, <2>5
<1> QED
  BY <1>1, <1>2, <1>6, <1>11, <1>12, <1>14

\* The same when a template was replaced: the one before it is freed if nobody
\* refers to it.
LEMMA UpdateOwned ==
  ASSUME BaseInvariant, OwnedInvariant, UpdateTemplate, template[Current].version # pre.item.version
  PROVE  /\ OwnedInvariant' /\ pre.cur \in DOMAIN record /\ record[pre.cur].key = pre.source
         /\ pre.source \notin refused => pre.cur \in Linked
         /\ Current \in DOMAIN template /\ template[Current].id = pre.item.id
         /\ \A r \in DOMAIN record, t \in DOMAIN template : Has(r, t)' <=>
              Has(r, t) /\ ~(t = Current /\ template[t].references = 0)
         /\ Newest(record'[pre.cur].templates, Len(template) + 1)
         /\ \A t : Newest(record[pre.cur].templates, t) /\ t # Current =>
              Newest(record'[pre.cur].templates, t)
         /\ \A r \in DOMAIN record : r # pre.cur => record'[r].templates = record[r].templates
         /\ template' = Append(template, NewTemplate)
<1>1. PICK n : n = Len(template) + 1
  OBVIOUS
<1>2. PICK c \in DOMAIN record, slot \in Nat, rec \in Record, unused \in BOOLEAN :
         /\ c = pre.cur /\ slot \in Used(c) /\ IdAt(c, slot) = pre.item.id
         /\ record[c].templates[slot][1] = Current
         /\ unused <=> template[Current].references = 0
         /\ template' = Append(template, NewTemplate)
         /\ record' = [record EXCEPT ![c] = rec]
         /\ UpdatedIs(record[c].templates, rec.templates, slot, n, unused)
         /\ freed_templates' = IF unused THEN freed_templates \cup {Current} ELSE freed_templates
  BY <1>1, UpdateIs
<1>3. record[c].key = pre.source /\ (pre.source \notin refused => c \in Linked)
  BY <1>2 DEF UpdateTemplate, OwnedInvariant, ChangedInvariant
<1>4. /\ DOMAIN template' = DOMAIN template \cup {n} /\ n \notin DOMAIN template /\ n \in Nat
  BY <1>1, <1>2, NewTemplateIs DEF UpdateTemplate
<1>5. PICK old, new : old = record[c].templates /\ new = rec.templates
  OBVIOUS
<1>6. /\ old \in Seq(Seq(Nat)) /\ slot \in UsedIn(old) /\ new \in Seq(Seq(Nat))
      /\ ArrayFine(old) /\ old[slot][1] = Current
  BY <1>2, <1>5, ArrayOf, ArrayIsFine DEF Record
<1>7. Once(old) /\ ~Stored(old, n)
  <2>1. ~Stored(old, n)
    BY <1>4, <1>6 DEF ArrayFine, Stored
  <2> QED
    BY <1>3, <1>5, <2>1 DEF OwnedInvariant
<1>8. Current \in DOMAIN template /\ Stored(old, Current) /\ template[Current].id = pre.item.id
  <2>1. slot \in DOMAIN old /\ 1 \in DOMAIN old[slot] /\ Current \in DOMAIN template
    BY <1>6, HeadOf
  <2> QED
    BY <1>2, <1>6, <2>1 DEF Stored, IdAt
<1>9. /\ \A t : Stored(new, t) <=> (Stored(old, t) /\ ~(unused /\ t = Current)) \/ t = n
      /\ Once(new)
      /\ Newest(new, n) /\ \A t : Newest(old, t) /\ t # Current => Newest(new, t)
  <2>1. UpdatedIs(old, new, slot, n, unused)
    BY <1>2, <1>5
  <2>2. /\ \A t : Stored(new, t) <=> (Stored(old, t) /\ ~(unused /\ t = old[slot][1])) \/ t = n
        /\ Once(new)
        /\ Newest(new, n) /\ \A t : Newest(old, t) /\ t # old[slot][1] => Newest(new, t)
    BY ONLY unused \in BOOLEAN, <1>4, <1>6, <1>7, <2>1, UpdatedStored
  <2> QED
    BY <1>6, <2>2
<1>10. /\ record'[c].templates = new
       /\ \A r \in DOMAIN record : r # c => record'[r].templates = record[r].templates
  BY <1>2, <1>5, ExceptInSeq DEF BaseInvariant, TypeOK
<1>11. ListUnchanged
  BY ArrayChanged
<1>12. PICK A, F : A = {n} /\ F = IF unused THEN {Current} ELSE {}
  OBVIOUS
<1>13. \A t : Stored(record'[c].templates, t) <=> (Has(c, t) /\ t \notin F) \/ t \in A
  BY <1>5, <1>9, <1>10, <1>12 DEF Has
<1>14. /\ DOMAIN template' = DOMAIN template \cup A /\ A \cap DOMAIN template = {}
       /\ F \subseteq DOMAIN template /\ \A t \in F : Has(c, t)
       /\ freed_templates' = freed_templates \cup F /\ pre'.pc \notin {"add", "update"}
  BY <1>2, <1>4, <1>5, <1>8, <1>12, UpdateTemplateTask DEF Has
<1>15. Once(record'[c].templates)
  BY <1>9, <1>10
<1>18. refused' = refused /\ Excused(c)
  BY <1>3 DEF UpdateTemplate, history, Excused
<1>16. /\ OwnedInvariant'
       /\ \A r \in DOMAIN record, t \in DOMAIN template : Has(r, t)' <=> Has(r, t) /\ t \notin F
  BY <1>3, <1>10, <1>11, <1>13, <1>14, <1>15, <1>18, OwnedChanged
<1>17. \A r \in DOMAIN record, t \in DOMAIN template : Has(r, t)' <=>
         Has(r, t) /\ ~(t = Current /\ template[t].references = 0)
  BY <1>2, <1>12, <1>16
<1> QED
  BY <1>1, <1>2, <1>3, <1>5, <1>8, <1>9, <1>10, <1>16, <1>17

\* A withdrawal takes the template and the older ones behind it.
LEMMA WithdrawOwned ==
  ASSUME BaseInvariant, OwnedInvariant, WithdrawTemplate
  PROVE  /\ OwnedInvariant'
         /\ \A r \in DOMAIN record, t \in DOMAIN template :
              Has(r, t) => Has(r, t)' \/ t \in withdrawn'
         /\ \A r \in DOMAIN record, t \in DOMAIN template :
              /\ Newest(record[r].templates, t)
              /\ ~(record[r].key = pre.source /\ template[t].id = pre.item.id)
              => Newest(record'[r].templates, t)
<1>0. WalkEnds /\ pre.pc = "lookup"
  BY DEF WithdrawTemplate, WalkEnds
<1>1. pre'.pc \notin {"add", "update"}
  BY <1>0, TaskType DEF WithdrawTemplate, Go, Tasks, BaseInvariant
<1>2. ListUnchanged
  BY ArrayChanged
<1>5. refused' = refused
  BY DEF WithdrawTemplate
<1>3. CASE Current = NULL
  <2>1. UNCHANGED <<record, template, freed_templates>>
    BY <1>3 DEF WithdrawTemplate
  <2> QED
    BY <1>1, <1>2, <1>5, <2>1, OwnedKept DEF Has
<1>4. CASE Current # NULL
  <2>1. PICK c, slot : c = pre.cur /\ slot = SlotOf(pre.cur, pre.item.id)
    OBVIOUS
  <2>2. c \in DOMAIN record /\ record[c].key = pre.source
    BY <1>0, <1>4, <2>1, WalkFinds
       DEF BaseInvariant, RecordInvariant, Current, tm_record_get_template
  <2>3. slot \in Used(c) /\ IdAt(c, slot) = pre.item.id
    BY <1>4, <2>1, <2>2, FoundIs DEF Current, BaseInvariant, RecordInvariant
  <2>4. PICK old, rec : old = record[c].templates /\ rec = Emptied(record[c], slot)
    OBVIOUS
  <2>5. /\ record' = [record EXCEPT ![c] = rec] /\ template' = template
        /\ freed_templates' = freed_templates \cup ToSet(old[slot])
        /\ withdrawn' = withdrawn \cup ToSet(old[slot])
    BY <1>4, <2>1, <2>2, <2>4 DEF WithdrawTemplate
  <2>6. /\ old \in Seq(Seq(Nat)) /\ slot \in UsedIn(old) /\ ArrayFine(old) /\ Once(old)
    BY <2>2, <2>3, <2>4, ArrayOf, ArrayIsFine DEF OwnedInvariant
  <2>7. rec \in Record /\ Cleared(old, rec.templates, slot)
    BY <2>2, <2>3, <2>4, ArrayOf, EmptiedIs
  <2>8. rec.templates \in Seq(Seq(Nat))
    BY <2>7 DEF Record
  <2>9. /\ \A t : Stored(rec.templates, t) <=> Stored(old, t) /\ t \notin ToSet(old[slot])
        /\ Once(rec.templates)
        /\ \A t : Newest(old, t) /\ t # old[slot][1] => Newest(rec.templates, t)
    BY <2>6, <2>7, <2>8, ClearedStored
  <2>10. /\ record'[c] = rec
         /\ \A r \in DOMAIN record : r # c => record'[r].templates = record[r].templates
    BY <2>2, <2>5, <2>7, ExceptInSeq DEF BaseInvariant, TypeOK
  <2>11. PICK F, A : F = ToSet(old[slot]) /\ A = {}
    OBVIOUS
  <2>12. F \subseteq DOMAIN template /\ \A t \in F : Has(c, t)
    <3>1. slot \in DOMAIN old
      BY <2>6 DEF UsedIn
    <3>2. \A t \in F : \E k \in DOMAIN old[slot] : old[slot][k] = t
      BY <2>11 DEF ToSet
    <3> QED
      BY <2>4, <2>6, <3>1, <3>2 DEF ArrayFine, Has, Stored
  <2>13. \A t : Stored(record'[c].templates, t) <=> (Has(c, t) /\ t \notin F) \/ t \in A
    BY <2>4, <2>9, <2>10, <2>11 DEF Has
  <2>14. /\ DOMAIN template' = DOMAIN template \cup A /\ A \cap DOMAIN template = {}
         /\ freed_templates' = freed_templates \cup F /\ Once(record'[c].templates)
    BY <2>5, <2>9, <2>10, <2>11
  <2>15. /\ OwnedInvariant'
         /\ \A r \in DOMAIN record, t \in DOMAIN template : Has(r, t)' <=> Has(r, t) /\ t \notin F
    BY <1>1, <1>2, <1>5, <2>2, <2>10, <2>11, <2>12, <2>13, <2>14, OwnedChanged
  <2>16. \A r \in DOMAIN record, t \in DOMAIN template : Has(r, t) => Has(r, t)' \/ t \in withdrawn'
    BY <2>5, <2>11, <2>15
  <2>17. ASSUME NEW r \in DOMAIN record, NEW t \in DOMAIN template,
                Newest(record[r].templates, t),
                ~(record[r].key = pre.source /\ template[t].id = pre.item.id)
         PROVE  Newest(record'[r].templates, t)
    <3>1. CASE r # c
      BY <2>10, <2>17, <3>1
    <3>2. CASE r = c
      <4>1. template[old[slot][1]].id = pre.item.id
        BY <2>3, <2>4 DEF IdAt
      <4>2. t # old[slot][1]
        BY <2>2, <2>17, <3>2, <4>1
      <4> QED
        BY <2>4, <2>9, <2>10, <2>17, <3>2, <4>2
    <3> QED
      BY <3>1, <3>2
  <2> QED
    BY <2>15, <2>16, <2>17
<1> QED
  BY <1>3, <1>4

\* A new record has no templates.
LEMMA InsertedOwned ==
  ASSUME BaseInvariant, OwnedInvariant, NEW s \in Sources, tm_record_lookup_insert(s),
         UNCHANGED <<freed_records, template, freed_templates, refused>>, ChangedInvariant'
  PROVE  /\ OwnedInvariant' /\ Linked \subseteq Linked'
         /\ \A r \in DOMAIN record : r \in DOMAIN record' /\ record'[r] = record[r]
<1>2. PICK l : l = LookupInserted(s)
  OBVIOUS
<1>4. /\ \A r \in DOMAIN record : record'[r] = record[r]
      /\ Linked' = Linked \cup {l} /\ DOMAIN record' = DOMAIN record \cup {l}
      /\ l \notin DOMAIN record => record'[l] = NewRecord(s)
  BY <1>2, InsertedIs DEF BaseInvariant, RecordInvariant
<1>5. Linked \subseteq DOMAIN record
  BY RecordNumbers DEF BaseInvariant
<1>6. l \in Linked \/ l \notin DOMAIN record
  BY <1>4 DEF Linked
<1>7. \A r \in DOMAIN record : \A t : Has(r, t)' <=> Has(r, t)
  BY <1>4 DEF Has
<1>8. l \notin DOMAIN record => (\A t : ~Has(l, t)') /\ Once(record'[l].templates)
  <2> SUFFICES ASSUME l \notin DOMAIN record
               PROVE  (\A t : ~Has(l, t)') /\ Once(record'[l].templates)
    OBVIOUS
  <2>1. \A i \in DOMAIN record'[l].templates : record'[l].templates[i] = <<>>
    BY <1>4, NewRecordIs
  <2>2. DOMAIN <<>> = {}
    OBVIOUS
  <2> QED
    BY <2>1, <2>2 DEF Has, Stored, Once
<1>9. \A r \in DOMAIN record' : Once(record[r].templates)'
  <2>1. \A r \in DOMAIN record' : Once(record'[r].templates)
    BY <1>4, <1>8 DEF OwnedInvariant
  <2> QED
    BY <2>1 DEF Once
<1>10. \A r \in DOMAIN record : Excused(r) => Excused(r)'
  BY <1>4 DEF Excused
<1>11. \A r, q \in DOMAIN record' : \A t \in DOMAIN template' : Has(r, t)' /\ Has(q, t)' => r = q
  BY <1>4, <1>7, <1>8 DEF OwnedInvariant
<1>12. \A r \in Linked' : \A t \in DOMAIN template' : Has(r, t)' => t \notin freed_templates'
  BY <1>4, <1>5, <1>6, <1>7, <1>8 DEF OwnedInvariant
<1>13. \A t \in DOMAIN template' :
         t \in freed_templates' \/ \E r \in DOMAIN record' : Has(r, t)' /\ Excused(r)'
  BY <1>4, <1>7, <1>10 DEF OwnedInvariant
<1> QED
  BY <1>4, <1>9, <1>11, <1>12, <1>13 DEF OwnedInvariant

LEMMA RegisterOwned ==
  ASSUME BaseInvariant, OwnedInvariant, Register
  PROVE  /\ OwnedInvariant' /\ Linked \subseteq Linked'
         /\ \A r \in DOMAIN record : r \in DOMAIN record' /\ record'[r] = record[r]
<1>1. PICK s \in Sources : s = pre.source
  BY TaskType DEF Register, BaseInvariant
<1>2. /\ pre'.pc = "count" /\ UNCHANGED <<freed_records, template, freed_templates, refused>>
      /\ tm_record_lookup_insert(s)
  BY <1>1, TaskType DEF Register, BaseInvariant, Tasks, history
<1>3. ChangedInvariant'
  BY <1>2 DEF ChangedInvariant
<1> QED
  BY <1>2, <1>3, InsertedOwned

\* The records that are removed, and the templates with them.
LEMMA RemoveOwned ==
  ASSUME BaseInvariant, SessionInvariant, RegistrationInvariant, OwnedInvariant,
         NEW o \in Odids, RemoveManager(o)
  PROVE  /\ OwnedInvariant' /\ Linked' = Linked \ Gone(o)
         /\ \A r \in DOMAIN record : \A t : Has(r, t)' <=> Has(r, t)
<1> USE DEF BaseInvariant, RecordInvariant
<1>1. /\ Gone(o) \subseteq Linked /\ Linked' = Linked \ Gone(o) /\ DOMAIN record' = DOMAIN record
      /\ freed_templates' = freed_templates \cup UNION {TemplatesOf(r) : r \in Gone(o)}
      /\ \A r \in DOMAIN record :
           record'[r].key = record[r].key /\ record'[r].templates = record[r].templates
  BY DestroyedIs
<1>2. UNCHANGED <<pre, template, refused>>
  BY DEF RemoveManager, history
<1>3. Linked \subseteq DOMAIN record
  BY RecordNumbers
<1>4. \A r \in DOMAIN record : \A t : Has(r, t)' <=> Has(r, t)
  BY <1>1 DEF Has
<1>5. \A r \in Linked : \A t : t \in TemplatesOf(r) <=> Has(r, t)
  BY DEF TemplatesOf, Has, Stored, ToSet
<1>6. \A t : t \in freed_templates' <=> t \in freed_templates \/ \E r \in Gone(o) : Has(r, t)
  BY <1>1, <1>5
<1>7. \A r \in DOMAIN record' : Once(record[r].templates)'
  <2>1. \A r \in DOMAIN record' : Once(record'[r].templates)
    BY <1>1 DEF OwnedInvariant
  <2> QED
    BY <2>1 DEF Once
<1>8. \A r, q \in DOMAIN record' : \A t \in DOMAIN template' : Has(r, t)' /\ Has(q, t)' => r = q
  BY <1>1, <1>2, <1>4 DEF OwnedInvariant
<1>9. ASSUME NEW r \in Linked', NEW t \in DOMAIN template', Has(r, t)' PROVE t \notin freed_templates'
  <2>1. r \in Linked /\ r \notin Gone(o) /\ Has(r, t) /\ t \in DOMAIN template
    BY <1>1, <1>2, <1>3, <1>4, <1>9
  <2>2. t \notin freed_templates /\ \A q \in Gone(o) : ~Has(q, t)
    BY <1>1, <1>3, <2>1 DEF OwnedInvariant
  <2> QED
    BY <1>6, <2>2
<1>10. ASSUME NEW t \in DOMAIN template', t \notin freed_templates'
       PROVE  \E r \in DOMAIN record' : Has(r, t)' /\ Excused(r)'
  <2>1. PICK r \in DOMAIN record : Has(r, t) /\ Excused(r)
    BY <1>2, <1>6, <1>10 DEF OwnedInvariant
  <2>2. r \notin Gone(o)
    BY <1>6, <1>10, <2>1
  <2> QED
    BY <1>1, <1>2, <1>4, <2>1, <2>2 DEF Excused
<1>11. ASSUME pre'.pc \in {"add", "update"}
       PROVE  /\ pre'.cur \in DOMAIN record' /\ record'[pre'.cur].key = pre'.source
              /\ pre'.source \notin refused' => pre'.cur \in Linked'
  <2>1. pre.pc \in {"add", "update"} /\ pre.cur \in DOMAIN record /\ record[pre.cur].key = pre.source
    BY <1>2, <1>11 DEF OwnedInvariant, ChangedInvariant
  <2>2. PICK s \in Sources : s = pre.source /\ Registered(s)
    BY <2>1, WorkingRegistered
  <2>3. ASSUME s \notin refused PROVE pre.cur \in Linked /\ pre.cur \notin Gone(o)
    <3>1. pre.cur \in Linked
      BY <2>1, <2>2, <2>3 DEF OwnedInvariant, ChangedInvariant
    <3>2. Outstanding(s) > 0 /\ Outstanding(s) \in Nat
      BY <2>2, OutstandingType
    <3>3. record[pre.cur].registrations = Outstanding(s)
      BY <2>1, <2>2, <2>3, <3>1, RegistrationIs
    <3> QED
      BY <3>1, <3>2, <3>3 DEF Gone
  <2> QED
    BY <1>1, <1>2, <2>1, <2>2, <2>3
<1> QED
  BY <1>1, <1>4, <1>7, <1>8, <1>9, <1>10, <1>11 DEF OwnedInvariant, ChangedInvariant

LEMMA FindRecordOwned ==
  ASSUME BaseInvariant, OwnedInvariant, FindRecord
  PROVE  /\ OwnedInvariant' /\ Linked \subseteq Linked'
         /\ \A r \in DOMAIN record : r \in DOMAIN record' /\ record'[r] = record[r]
<1>1. PICK s \in Sources : s = pre.source
  BY TaskType DEF FindRecord, WalkEnds, BaseInvariant
<1>2. /\ UNCHANGED <<freed_records, template, freed_templates, refused>>
      /\ tm_record_lookup_insert(s)
      /\ pre'.cur = LookupInserted(s) /\ pre'.source = s
  BY <1>1, TaskType DEF FindRecord, WalkEnds, Go, Tasks, BaseInvariant, history
<1>5. freed_records' = freed_records /\ TypeOK /\ ListInvariant
  BY <1>2 DEF BaseInvariant, RecordInvariant
<1>6. tm_record_lookup_insert(s)
  BY <1>2
<1>7. /\ LookupInserted(s) \in Linked' /\ record'[LookupInserted(s)].key = s
      /\ DOMAIN record' = DOMAIN record \cup {LookupInserted(s)}
  BY ONLY <1>5, <1>6, InsertedIs
<1>8. PICK l : l = LookupInserted(s)
  OBVIOUS
<1>3. l \in Linked' /\ record'[l].key = s /\ l \in DOMAIN record' /\ pre'.cur = l
  BY <1>2, <1>7, <1>8
<1>4. ChangedInvariant'
  BY <1>2, <1>3 DEF ChangedInvariant
<1> QED
  BY <1>2, <1>4, InsertedOwned

\* A registration that failed is remembered.
LEMMA RefusedGrows ==
  ASSUME [Next]_vars
  PROVE  refused \subseteq refused'
<1> USE DEF history, manager_vars
<1>1. ASSUME NEW s \in Sources, Exporter(s) PROVE refused' = refused
  BY <1>1 DEF Exporter, ReceiveNew, ReceivePacket, ReceiveClosed
<1>2. CASE Preprocessor
  <2>1. ASSUME CountRegistration PROVE refused \subseteq refused'
    BY <2>1 DEF CountRegistration
  <2>2. ASSUME \/ Register \/ Walk \/ FindRecord \/ AddTemplate
               \/ UpdateTemplate \/ WithdrawTemplate \/ GetTemplate \/ CoupleData \/ Send
        PROVE  refused' = refused
    BY <2>2 DEF Register, Walk, FindRecord, AddTemplate, UpdateTemplate, WithdrawTemplate,
                GetTemplate, CoupleData, Send
  <2> QED
    BY <1>2, <2>1, <2>2 DEF Preprocessor
<1>3. CASE OutputManager
  BY <1>3 DEF OutputManager, Forward, SourceClosed, RemoveManager
<1>4. ASSUME NEW o \in Odids, TestReferences(o) \/ ReleaseMessage(o) PROVE refused' = refused
  BY <1>4 DEF TestReferences, ReleaseMessage
<1>5. CASE UNCHANGED vars
  BY <1>5 DEF vars
<1> QED
  BY <1>1, <1>2, <1>3, <1>4, <1>5 DEF Next

\* The steps that leave the arrays alone.
LEMMA ArraysKept ==
  ASSUME BaseInvariant,
         \/ \E s \in Sources : Exporter(s)
         \/ CountRegistration \/ Walk \/ GetTemplate \/ CoupleData \/ Send
         \/ Forward \/ SourceClosed \/ \E o \in Odids : TestReferences(o) \/ ReleaseMessage(o)
         \/ UNCHANGED vars
  PROVE  /\ ListUnchanged /\ DOMAIN template' = DOMAIN template
         /\ \A r \in DOMAIN record : record'[r].templates = record[r].templates
         /\ freed_templates' = freed_templates
         /\ pre' = pre \/ pre'.pc \notin {"add", "update"}
<1> USE DEF BaseInvariant, RecordInvariant
<1>1. CASE UNCHANGED <<record, freed_records>>
  <2>0. /\ ListUnchanged
        /\ \A r \in DOMAIN record : record'[r].templates = record[r].templates
    BY <1>1 DEF ListUnchanged
  <2>1. ASSUME NEW s \in Sources, Exporter(s)
        PROVE  /\ UNCHANGED <<template, freed_templates>>
               /\ pre' = pre \/ pre'.pc \notin {"add", "update"}
    BY <2>1 DEF Exporter, ReceiveNew, ReceivePacket, ReceiveClosed, manager_vars
  <2>2. ASSUME Walk \/ GetTemplate \/ Send
        PROVE  /\ UNCHANGED <<template, freed_templates>>
               /\ pre' = pre \/ pre'.pc \notin {"add", "update"}
    <3>1. CASE Walk
      BY <3>1, TaskType DEF Walk, manager_vars, Tasks
    <3>2. CASE GetTemplate
      BY <3>2, TaskType DEF GetTemplate, WalkEnds, Go, manager_vars, Tasks
    <3>3. CASE Send
      BY <3>3 DEF Send, Idle, manager_vars
    <3> QED
      BY <2>2, <3>1, <3>2, <3>3
  <2>3. CASE CoupleData
    <3>1. DOMAIN template' = DOMAIN template
      BY <2>3, CoupledIs DEF ReferencesOnly
    <3> QED
      BY <2>0, <2>3, <3>1, TaskType DEF CoupleData, Go, Tasks
  <2>4. CASE Forward
    BY <2>0, <2>4 DEF Forward, manager_vars
  <2>5. ASSUME NEW o \in Odids, TestReferences(o) \/ ReleaseMessage(o)
        PROVE  DOMAIN template' = DOMAIN template /\ freed_templates' = freed_templates /\ pre' = pre
    BY <2>5, ReleasedIs DEF ReferencesOnly, TestReferences, ReleaseMessage, manager_vars
  <2>6. CASE UNCHANGED vars
    BY <2>0, <2>6 DEF vars, manager_vars
  <2>7. CASE CountRegistration
    BY <2>0, <2>7, TaskType DEF CountRegistration, Tasks
  <2>8. CASE SourceClosed
    BY <2>0, <2>8 DEF SourceClosed
  <2> QED
    BY <2>0, <2>1, <2>2, <2>3, <2>4, <2>5, <2>6, <2>7, <2>8
<1>2. CASE CountRegistration
  <2>1. RegistrationsOnly
    BY <1>2, CountedIs
  <2>2. /\ UNCHANGED <<template, freed_records, freed_templates>> /\ pre'.pc = "lookup"
    BY <1>2, TaskType DEF CountRegistration, Tasks
  <2> QED
    BY <2>1, <2>2 DEF RegistrationsOnly, ListUnchanged
<1>3. CASE SourceClosed
  <2>1. PICK s : s = Head(pipe).source
    OBVIOUS
  <2>2. RegistrationsOnly
    BY <1>3, <2>1, UnregisteredIs DEF SourceClosed
  <2> QED
    BY <1>3, <2>2 DEF RegistrationsOnly, ListUnchanged, SourceClosed
<1>4. CountRegistration \/ SourceClosed \/ UNCHANGED <<record, freed_records>>
  BY DEF Exporter, ReceiveNew, ReceivePacket, ReceiveClosed, manager_vars, Walk, GetTemplate,
         CoupleData, Send, Forward, TestReferences, ReleaseMessage, vars
<1> QED
  BY <1>1, <1>2, <1>3, <1>4

LEMMA InitOwned == Init => OwnedInvariant
<1> SUFFICES ASSUME Init PROVE OwnedInvariant
  OBVIOUS
<1>1. pre.pc = "idle" /\ DOMAIN record = {} /\ Linked = {} /\ DOMAIN template = {}
  BY DEF Init, Idle, Linked
<1> QED
  BY <1>1 DEF OwnedInvariant, ChangedInvariant

LEMMA NextOwned ==
  BaseInvariant /\ SessionInvariant /\ RegistrationInvariant /\ OwnedInvariant /\ [Next]_vars
    => OwnedInvariant'
<1> SUFFICES ASSUME BaseInvariant, SessionInvariant, RegistrationInvariant, OwnedInvariant,
                    [Next]_vars
             PROVE  OwnedInvariant'
  OBVIOUS
<1>0. BaseInvariant'
  BY NextBase
<1>1. CASE \/ \E s \in Sources : Exporter(s)
           \/ CountRegistration \/ Walk \/ GetTemplate \/ CoupleData \/ Send
           \/ Forward \/ SourceClosed \/ \E o \in Odids : TestReferences(o) \/ ReleaseMessage(o)
           \/ UNCHANGED vars
  BY <1>1, ArraysKept, RefusedGrows, OwnedKept
<1>2. CASE Register
  BY <1>2, RegisterOwned
<1>3. CASE FindRecord
  BY <1>3, FindRecordOwned
<1>4. CASE AddTemplate
  BY <1>4, AddOwned
<1>5. CASE UpdateTemplate
  <2>1. CASE template[Current].version = pre.item.version
    <3>1. UNCHANGED <<template, record, freed_templates>> /\ pre'.pc = "send"
      BY <1>5, <2>1, UpdateTemplateTask DEF UpdateTemplate
    <3>2. ListUnchanged
      BY <1>5, ArrayChanged
    <3> QED
      BY <3>1, <3>2, RefusedGrows, OwnedKept
  <2>2. CASE template[Current].version # pre.item.version
    BY <1>5, <2>2, UpdateOwned
  <2> QED
    BY <2>1, <2>2
<1>6. CASE WithdrawTemplate
  BY <1>6, WithdrawOwned
<1>7. ASSUME NEW o \in Odids, RemoveManager(o) PROVE OwnedInvariant'
  BY <1>7, RemoveOwned
<1> QED
  BY <1>1, <1>2, <1>3, <1>4, <1>5, <1>6, <1>7 DEF Next, Preprocessor, OutputManager

OwnershipInvariant ==
  BaseInvariant /\ SessionInvariant /\ RegistrationInvariant /\ OwnedInvariant

\* Every template is in one slot of one record until it is freed, and no
\* template is freed while it is in a record of the list.  The record is in the
\* list, except that a source with a registration that failed may leave a
\* template in a record that was removed.
THEOREM TemplatesOwned == Spec => []OwnershipInvariant
<1>1. OwnershipInvariant /\ [Next]_vars => OwnershipInvariant'
  BY NextBase, NextSession, NextRegistration, NextOwned DEF OwnershipInvariant
<1>2. Init => OwnershipInvariant
  BY InitBase, InitSession, InitRegistration, InitOwned DEF OwnershipInvariant
<1> QED
  BY <1>1, <1>2, PTL DEF Spec

\* Once every source is gone and the Output Manager has processed what they
\* sent, every record was freed, and every template, whatever was updated,
\* withdrawn or still referred to; only in a removed record of a source with a
\* registration that failed may a template be left.
THEOREM NothingLeaksCorrect == Spec => []NothingLeaks
<1>1. OwnershipInvariant => NothingLeaks
  <2> SUFFICES ASSUME OwnershipInvariant, \A s \in Sources : ~connected[s], pipe = <<>>, closing = {}
               PROVE  /\ Linked = {}
                      /\ \A t \in DOMAIN template \ freed_templates :
                           \E r \in freed_records : record[r].key \in refused /\ t \in TemplatesOf(r)
    BY DEF NothingLeaks
  <2> USE DEF OwnershipInvariant
  <2>1. pre.pc = "idle"
    BY TaskType DEF BaseInvariant, SessionInvariant, WorkInvariant
  <2>2. ASSUME NEW s \in Sources PROVE Outstanding(s) = 0 /\ ~InSession(s)
    <3>1. ClosedOf(s) = {} /\ ~Registered(s) /\ ~InSession(s)
      BY <2>2 DEF ClosedOf, Registered, InSession, Sender
    <3> QED
      BY <3>1, FS_EmptySet DEF Outstanding
  <2>3. \A o \in Odids : data_managers[o] = Closed
    <3>1. \A o \in Odids : Open(o) = {}
      BY <2>2 DEF Open
    <3> QED
      BY <3>1 DEF SessionInvariant, ManagersInvariant
  <2>4. ASSUME NEW r \in Linked PROVE FALSE
    <3>1. PICK q \in Sources : q = record[r].key
      BY <2>4, RecordNumbers DEF BaseInvariant, Record
    <3>2. data_managers[OdidOf[q]] # Closed \/ Outstanding(q) > 0
      BY <2>1, <2>4, <3>1, RegistrationIs
    <3> QED
      BY <2>2, <2>3, <3>2, ManagerOf
  <2>5. ASSUME NEW t \in DOMAIN template \ freed_templates
        PROVE  \E r \in freed_records : record[r].key \in refused /\ t \in TemplatesOf(r)
    <3>1. PICK r \in DOMAIN record : Has(r, t) /\ Excused(r)
      BY <2>5 DEF OwnedInvariant
    <3>2. r \in freed_records /\ record[r].key \in refused
      BY <2>4, <3>1 DEF Excused, Linked
    <3>3. t \in TemplatesOf(r)
      BY <3>1 DEF TemplatesOf, Has, Stored, ToSet
    <3> QED
      BY <3>2, <3>3
  <2> QED
    BY <2>4, <2>5
<1> QED
  BY <1>1, TemplatesOwned, PTL

-----------------------------------------------------------------------------
(***************************************************************************)
(* The templates that messages hold: they stay allocated, their references *)
(* are counted and they are the ones the exporter described its data by.   *)
(* A withdrawal frees templates whatever their reference count says, and   *)
(* the templates of a source with a registration that failed may go while  *)
(* it is connected.                                                        *)
(***************************************************************************)

\* What source s holds is in the record of s.
Kept(s, t) == t # NULL => \E r \in Linked : record[r].key = s /\ Has(r, t)

\* It is, unless it was withdrawn or a registration of s has failed.
Holds(s, t) == s \in refused \/ t \in withdrawn \/ Kept(s, t)

\* Messages hold templates of their source, and a CLOSED holds none; a storage
\* plugin has the messages of its Data Manager.
HeldInvariant ==
  /\ \A m \in Messages : Holds(m.source, m.template)
  /\ \A m \in Messages : m.status = "closed" => m.template = NULL
  /\ \A o \in Odids : \A i \in DOMAIN store_queue[o] : OdidOf[store_queue[o][i].source] = o
  /\ pre.pc \in {"couple", "send"} => Holds(pre.source, pre.cur)

\* The packet at hand is the template that source s has sent last for the ID.
Pending(s, id) ==
  /\ pre.pc \notin {"idle", "send"} /\ pre.source = s
  /\ pre.item.type = "template" /\ pre.item.id = id

\* The current template of source s with this ID is the one s has sent last.
Known(s, id) ==
  \E r \in Linked : \E t \in DOMAIN template :
    /\ record[r].key = s /\ Newest(record[r].templates, t)
    /\ template[t].id = id /\ template[t].version = sent[s][id]

\* What a connected source has described its data by is current, unless one of
\* its registrations has failed.
DescribedInvariant ==
  /\ \A s \in Sources \ refused, id \in Ids :
       Registered(s) /\ sent[s][id] # Unsent /\ ~Pending(s, id) => Known(s, id)
  /\ pre.pc \in {"register", "count"} =>
       \A id \in Ids : id # pre.item.id => sent[pre.source][id] = Unsent
  /\ pre.pc \in {"couple", "send"} /\ pre.item.type = "data" /\ pre.source \notin refused =>
       pre.cur # NULL /\ template[pre.cur].version = sent[pre.source][pre.item.id]
  /\ pre.pc = "couple" => pre.item.type = "data"
  /\ pre.pc # "idle" /\ pre.item.type = "withdrawal" => sent[pre.source][pre.item.id] = Unsent
  /\ DecodedAsDescribed

TemplateInvariant == HeldInvariant /\ ReferencesCounted /\ DescribedInvariant

-----------------------------------------------------------------------------
(***************************************************************************)
(* The references that messages hold.                                      *)
(***************************************************************************)

LEMMA HoldingFinite ==
  ASSUME NEW q \in Seq(Message), NEW t
  PROVE  /\ IsFiniteSet(Holding(q, t)) /\ Cardinality(Holding(q, t)) \in Nat
         /\ Holding(q, t) \in SUBSET (Nat \ {0})
         /\ Cardinality(Holding(q, t)) = 0 => Holding(q, t) = {}
<1>1. DOMAIN q = 1 .. Len(q) /\ Len(q) \in Nat
  OBVIOUS
<1>2. Holding(q, t) \subseteq 1 .. Len(q)
  BY <1>1 DEF Holding
<1>3. IsFiniteSet(1 .. Len(q))
  BY <1>1, FS_Interval
<1>4. IsFiniteSet(Holding(q, t))
  BY <1>2, <1>3, FS_Subset
<1> QED
  BY <1>1, <1>2, <1>4, FS_CardinalityType, FS_EmptySet

LEMMA HoldingAppended ==
  ASSUME NEW q \in Seq(Message), NEW m \in Message, NEW t
  PROVE  /\ Holding(Append(q, m), t) = IF m.template = t THEN Holding(q, t) \cup {Len(q) + 1}
                                       ELSE Holding(q, t)
         /\ Len(q) + 1 \notin Holding(q, t)
         /\ Cardinality(Holding(Append(q, m), t)) =
              IF m.template = t THEN Cardinality(Holding(q, t)) + 1 ELSE Cardinality(Holding(q, t))
<1>1. PICK n, a : n = Len(q) + 1 /\ a = Append(q, m)
  OBVIOUS
<1>2. /\ DOMAIN a = DOMAIN q \cup {n} /\ n \notin DOMAIN q /\ a[n] = m
      /\ \A i \in DOMAIN q : a[i] = q[i]
  BY <1>1, Appended
<1>3. Holding(a, t) = IF m.template = t THEN Holding(q, t) \cup {n} ELSE Holding(q, t)
  BY <1>2 DEF Holding
<1>4. n \notin Holding(q, t)
  BY <1>2 DEF Holding
<1>5. PICK S : S = Holding(q, t)
  OBVIOUS
<1>6. IsFiniteSet(S) /\ n \notin S
  BY <1>4, <1>5, HoldingFinite
<1>7. Cardinality(S \cup {n}) = Cardinality(S) + 1
  BY <1>6, FS_AddElement
<1> QED
  BY <1>1, <1>3, <1>4, <1>5, <1>7

LEMMA HoldingTaken ==
  ASSUME NEW q \in Seq(Message), q # <<>>, NEW t
  PROVE  /\ \A i \in Nat \ {0} : i \in Holding(Tail(q), t) <=> i + 1 \in Holding(q, t)
         /\ 1 \in Holding(q, t) <=> Head(q).template = t
         /\ Cardinality(Holding(Tail(q), t)) =
              IF Head(q).template = t THEN Cardinality(Holding(q, t)) - 1
              ELSE Cardinality(Holding(q, t))
<1>1. PICK a : a = Tail(q)
  OBVIOUS
<1>2. /\ a \in Seq(Message) /\ DOMAIN q = 1 .. Len(q) /\ Len(q) \in Nat \ {0}
      /\ DOMAIN a = 1 .. (Len(q) - 1)
      /\ \A i \in DOMAIN a : i + 1 \in DOMAIN q /\ a[i] = q[i + 1]
      /\ 1 \in DOMAIN q /\ Head(q) = q[1]
  BY <1>1, Shortened
<1>3. \A i \in Nat \ {0} : i \in DOMAIN a <=> i + 1 \in DOMAIN q
  BY ONLY <1>2
<1>4. \A i \in Nat \ {0} : i \in Holding(a, t) <=> i + 1 \in Holding(q, t)
  BY <1>2, <1>3 DEF Holding
<1>5. 1 \in Holding(q, t) <=> Head(q).template = t
  BY <1>2 DEF Holding
<1>6. PICK S, T : S = Holding(q, t) /\ T = Holding(a, t)
  OBVIOUS
<1>7. Cardinality(T) = IF 1 \in S THEN Cardinality(S) - 1 ELSE Cardinality(S)
  BY <1>2, <1>4, <1>6, HoldingFinite, ShiftedCount
<1> QED
  BY <1>1, <1>4, <1>5, <1>6, <1>7

\* The places of the storage plugins' queues with a message that holds t.
Queued(t) == UNION {{o} \X Holding(store_queue[o], t) : o \in Odids}

LEMMA QueuedIs ==
  ASSUME NEW t, NEW x
  PROVE  x \in Queued(t) <=> \E o \in Odids : \E i \in Holding(store_queue[o], t) : x = <<o, i>>
BY DEF Queued

LEMMA QueuedFinite ==
  ASSUME TypeOK, NEW t
  PROVE  /\ IsFiniteSet(Queued(t)) /\ Cardinality(Queued(t)) \in Nat
         /\ Cardinality(Queued(t)) = 0 => Queued(t) = {}
<1>1. IsFiniteSet(Odids)
  <2>1. PICK f : f = [s \in Sources |-> OdidOf[s]]
    OBVIOUS
  <2>2. f \in Surjection(Sources, Odids)
    BY <2>1 DEF Surjection, Odids
  <2> QED
    BY <2>2, FS_Surjection, TemplateAssumption
<1>2. PICK S : S = {{o} \X Holding(store_queue[o], t) : o \in Odids}
  OBVIOUS
<1>3. IsFiniteSet(S)
  <2>1. PICK f : f = [o \in Odids |-> {o} \X Holding(store_queue[o], t)]
    OBVIOUS
  <2>2. f \in Surjection(Odids, S)
    BY <1>2, <2>1 DEF Surjection
  <2> QED
    BY <1>1, <2>2, FS_Surjection
<1>4. ASSUME NEW T \in S PROVE IsFiniteSet(T)
  <2>1. PICK o \in Odids : T = {o} \X Holding(store_queue[o], t)
    BY <1>2, <1>4
  <2>2. IsFiniteSet(Holding(store_queue[o], t))
    BY HoldingFinite DEF TypeOK
  <2>3. IsFiniteSet({o})
    BY FS_Singleton
  <2> QED
    BY <2>1, <2>2, <2>3, FS_Product
<1>5. IsFiniteSet(Queued(t))
  BY <1>2, <1>3, <1>4, FS_UNION DEF Queued
<1> QED
  BY <1>5, FS_CardinalityType, FS_EmptySet

LEMMA QueuedAppended ==
  ASSUME TypeOK, NEW o \in Odids, NEW m \in Message, NEW t,
         store_queue' = [store_queue EXCEPT ![o] = Append(store_queue[o], m)]
  PROVE  Cardinality(Queued(t)') =
           IF m.template = t THEN Cardinality(Queued(t)) + 1 ELSE Cardinality(Queued(t))
<1>1. PICK q : q = store_queue[o]
  OBVIOUS
<1>2. q \in Seq(Message) /\ store_queue'[o] = Append(q, m)
      /\ \A p \in Odids : p # o => store_queue'[p] = store_queue[p]
  BY <1>1 DEF TypeOK
<1>3. PICK n : n = Len(q) + 1
  OBVIOUS
<1>4. /\ Holding(store_queue'[o], t) = IF m.template = t THEN Holding(q, t) \cup {n} ELSE Holding(q, t)
      /\ n \notin Holding(q, t)
  <2>1. /\ Holding(Append(q, m), t) = IF m.template = t THEN Holding(q, t) \cup {Len(q) + 1}
                                      ELSE Holding(q, t)
        /\ Len(q) + 1 \notin Holding(q, t)
    BY <1>2, HoldingAppended
  <2> QED
    BY <1>2, <1>3, <2>1
<1>5. \A x : x \in Queued(t)' <=> \E p \in Odids : \E i \in Holding(store_queue'[p], t) : x = <<p, i>>
  BY DEF Queued, Holding
<1>6. Queued(t)' = IF m.template = t THEN Queued(t) \cup {<<o, n>>} ELSE Queued(t)
  <2>1. ASSUME NEW x PROVE x \in Queued(t)' <=> x \in Queued(t) \/ (m.template = t /\ x = <<o, n>>)
    <3>1. ASSUME NEW p \in Odids, NEW i
          PROVE  i \in Holding(store_queue'[p], t) <=>
                   i \in Holding(store_queue[p], t) \/ (m.template = t /\ p = o /\ i = n)
      <4>1. CASE p = o
        BY <1>1, <1>4, <4>1
      <4>2. CASE p # o
        BY <1>2, <4>2
      <4> QED
        BY <4>1, <4>2
    <3> QED
      BY <1>5, <3>1, QueuedIs
  <2> QED
    BY <2>1
<1>7. <<o, n>> \notin Queued(t)
  BY <1>1, <1>4, QueuedIs
<1>8. PICK S, x : S = Queued(t) /\ x = <<o, n>>
  OBVIOUS
<1>9. IsFiniteSet(S) /\ x \notin S
  BY <1>7, <1>8, QueuedFinite
<1>10. Cardinality(S \cup {x}) = Cardinality(S) + 1
  BY <1>9, FS_AddElement
<1> QED
  BY <1>6, <1>8, <1>10

LEMMA QueuedTaken ==
  ASSUME TypeOK, NEW o \in Odids, NEW t, store_queue[o] # <<>>,
         store_queue' = [store_queue EXCEPT ![o] = Tail(store_queue[o])]
  PROVE  Cardinality(Queued(t)') =
           IF Head(store_queue[o]).template = t THEN Cardinality(Queued(t)) - 1
           ELSE Cardinality(Queued(t))
<1>1. PICK q : q = store_queue[o]
  OBVIOUS
<1>2. /\ q \in Seq(Message) /\ q # <<>> /\ store_queue'[o] = Tail(q)
      /\ \A p \in Odids : p # o => store_queue'[p] = store_queue[p]
      /\ \A p \in Odids : store_queue[p] \in Seq(Message)
  BY <1>1 DEF TypeOK
<1>3. /\ \A i \in Nat \ {0} : i \in Holding(store_queue'[o], t) <=> i + 1 \in Holding(q, t)
      /\ 1 \in Holding(q, t) <=> Head(q).template = t
  BY <1>2, HoldingTaken
<1>4. /\ Tail(q) \in Seq(Message)
      /\ \A p \in Odids : Holding(store_queue[p], t) \in SUBSET (Nat \ {0})
      /\ Holding(store_queue'[o], t) \in SUBSET (Nat \ {0})
  <2>1. Tail(q) \in Seq(Message)
    BY <1>2, Shortened
  <2> QED
    BY <1>2, <2>1, HoldingFinite
<1>5. \A x : x \in Queued(t)' <=> \E p \in Odids : \E i \in Holding(store_queue'[p], t) : x = <<p, i>>
  BY DEF Queued, Holding
<1>6. PICK S, T, R : S = Queued(t) /\ T = Queued(t)' /\ R = S \ {<<o, 1>>}
  OBVIOUS
<1>7. PICK f : f = [x \in T |-> IF x[1] = o THEN <<o, x[2] + 1>> ELSE x]
  OBVIOUS
<1>8. ASSUME NEW p \in Odids, NEW i \in Holding(store_queue'[p], t)
      PROVE  /\ <<p, i>> \in T
             /\ f[<<p, i>>] = IF p = o THEN <<o, i + 1>> ELSE <<p, i>>
             /\ f[<<p, i>>] \in R
  <2>1. <<p, i>> \in T
    BY <1>5, <1>6
  <2>2. f[<<p, i>>] = IF p = o THEN <<o, i + 1>> ELSE <<p, i>>
    BY <1>7, <2>1
  <2>3. CASE p = o
    <3>0. i \in Nat \ {0}
      BY <1>4, <2>3
    <3>1. i + 1 \in Holding(store_queue[o], t) /\ i + 1 # 1
      <4>1. i + 1 # 1
        BY ONLY <3>0
      <4> QED
        BY <1>1, <1>3, <2>3, <3>0, <4>1
    <3> QED
      BY <1>6, <2>1, <2>2, <2>3, <3>1, QueuedIs
  <2>4. CASE p # o
    <3>1. i \in Holding(store_queue[p], t)
      BY <1>2, <2>4
    <3> QED
      BY <1>6, <2>1, <2>2, <2>4, <3>1, QueuedIs
  <2> QED
    BY <2>3, <2>4
<1>9. \A x \in T : \E p \in Odids : \E i \in Holding(store_queue'[p], t) : x = <<p, i>>
  BY <1>5, <1>6
<1>10. f \in [T -> R]
  BY <1>7, <1>8, <1>9
<1>11. ASSUME NEW x \in T, NEW y \in T, f[x] = f[y] PROVE x = y
  <2>1. PICK p, i : p \in Odids /\ i \in Holding(store_queue'[p], t) /\ x = <<p, i>>
    BY <1>9
  <2>2. PICK r, j : r \in Odids /\ j \in Holding(store_queue'[r], t) /\ y = <<r, j>>
    BY <1>9
  <2>3. /\ f[x] = IF p = o THEN <<o, i + 1>> ELSE <<p, i>>
        /\ f[y] = IF r = o THEN <<o, j + 1>> ELSE <<r, j>>
    BY <1>8, <2>1, <2>2
  <2>4. CASE p = o /\ r = o
    <3>1. i \in Nat /\ j \in Nat /\ i + 1 = j + 1
      BY <1>4, <1>11, <2>1, <2>2, <2>3, <2>4
    <3> QED
      BY <2>1, <2>2, <2>4, <3>1
  <2>5. CASE ~(p = o /\ r = o)
    BY <1>11, <2>1, <2>2, <2>3, <2>5
  <2> QED
    BY <2>4, <2>5
<1>12. ASSUME NEW y \in R PROVE \E x \in T : f[x] = y
  <2>1. PICK p, j : p \in Odids /\ j \in Holding(store_queue[p], t) /\ y = <<p, j>>
    BY <1>6, QueuedIs
  <2>2. CASE p = o
    <3>1. j \in Nat \ {0} /\ j # 1
      BY <1>4, <1>6, <2>1, <2>2
    <3>2. j - 1 \in Nat \ {0} /\ j - 1 + 1 = j
      BY ONLY <3>1
    <3>3. j - 1 \in Holding(store_queue'[o], t)
      BY <1>1, <1>3, <2>1, <2>2, <3>2
    <3>4. <<o, j - 1>> \in T /\ f[<<o, j - 1>>] = <<o, j>>
      BY <1>8, <3>2, <3>3
    <3> QED
      BY <2>1, <2>2, <3>4
  <2>3. CASE p # o
    <3>1. j \in Holding(store_queue'[p], t)
      BY <1>2, <2>1, <2>3
    <3> QED
      BY <1>8, <2>1, <2>3, <3>1
  <2> QED
    BY <2>2, <2>3
<1>13. IsFiniteSet(R) /\ Cardinality(R) = IF <<o, 1>> \in S THEN Cardinality(S) - 1 ELSE Cardinality(S)
  BY <1>6, QueuedFinite, FS_RemoveElement
<1>14. <<o, 1>> \in S <=> Head(q).template = t
  BY <1>1, <1>3, <1>6, QueuedIs
<1>15. Cardinality(T) = Cardinality(R)
  <2>1. f \in Bijection(T, R)
    <3>1. DOMAIN f = T
      BY <1>10
    <3> QED
      BY <1>10, <1>11, <1>12, <3>1 DEF Bijection, Injection, Surjection, IsInjective
  <2>2. ExistsBijection(T, R)
    BY <2>1 DEF ExistsBijection
  <2>3. ExistsBijection(R, T)
    BY <2>2, Fun_ExistsBijSymmetric
  <2> QED
    BY <1>13, <2>3, FS_Bijection
<1> QED
  BY <1>1, <1>6, <1>13, <1>14, <1>15
\* The messages, by their places.
LEMMA MessagesAre ==
  ASSUME NEW m
  PROVE  m \in Messages <=> \/ \E i \in DOMAIN pipe : m = pipe[i]
                            \/ \E o \in Odids : \E i \in DOMAIN store_queue[o] : m = store_queue[o][i]
<1>1. m \in ToSet(pipe) <=> \E i \in DOMAIN pipe : m = pipe[i]
  BY DEF ToSet
<1>2. \A o \in Odids : m \in ToSet(store_queue[o]) <=> \E i \in DOMAIN store_queue[o] : m = store_queue[o][i]
  BY DEF ToSet
<1> QED
  BY <1>1, <1>2 DEF Messages

LEMMA MessageType ==
  ASSUME TypeOK, NEW m \in Messages
  PROVE  m \in Message /\ m.source \in Sources
<1>1. m \in Message
  <2>1. CASE \E i \in DOMAIN pipe : m = pipe[i]
    BY <2>1, Places
  <2>2. ASSUME NEW o \in Odids, NEW i \in DOMAIN store_queue[o], m = store_queue[o][i]
        PROVE  m \in Message
    <3>1. PICK q : q = store_queue[o]
      OBVIOUS
    <3>2. q \in Seq(Message)
      BY <3>1 DEF TypeOK
    <3>3. i \in DOMAIN q /\ m = q[i]
      BY <2>2, <3>1
    <3> QED
      BY ONLY <3>2, <3>3
  <2> QED
    BY <2>1, <2>2, MessagesAre
<1> QED
  BY <1>1 DEF Message

\* A template that a message holds is counted.
LEMMA HoldersAre ==
  ASSUME TypeOK, NEW t
  PROVE  /\ Holders(t) \in Nat
         /\ (\E m \in Messages : m.template = t) => Holders(t) > 0
         /\ (pre.pc = "send" /\ pre.cur = t) => Holders(t) > 0
         /\ (\A m \in Messages : m.template # t) /\ ~(pre.pc = "send" /\ pre.cur = t) => Holders(t) = 0
<1>1. PICK a, c : a = Cardinality(Holding(pipe, t)) /\ c = Cardinality(Queued(t))
  OBVIOUS
<1>2. a \in Nat /\ c \in Nat /\ (a = 0 => Holding(pipe, t) = {}) /\ (c = 0 => Queued(t) = {})
  BY <1>1, HoldingFinite, QueuedFinite DEF TypeOK
<1>3. Holders(t) = a + (IF pre.pc = "send" /\ pre.cur = t THEN 1 ELSE 0) + c
  BY <1>1 DEF Holders, Queued
<1>4. Holding(pipe, t) # {} <=> \E i \in DOMAIN pipe : pipe[i].template = t
  BY DEF Holding
<1>5. Queued(t) # {} <=> \E o \in Odids : \E i \in DOMAIN store_queue[o] : store_queue[o][i].template = t
  <2>1. Queued(t) # {} <=> \E o \in Odids : Holding(store_queue[o], t) # {}
    BY QueuedIs
  <2> QED
    BY <2>1 DEF Holding
<1>6. (\E m \in Messages : m.template = t) <=> Holding(pipe, t) # {} \/ Queued(t) # {}
  BY <1>4, <1>5, MessagesAre
<1>7. (Holding(pipe, t) = {} => a = 0) /\ (Queued(t) = {} => c = 0)
  BY <1>1, FS_EmptySet
<1> QED
  BY <1>2, <1>3, <1>6, <1>7

\* A message is new only when the Preprocessor sends one or a source closes.
LEMMA NewMessages ==
  ASSUME BaseInvariant, [Next]_vars, NEW x \in Messages', x \notin Messages
  PROVE  \/ Send /\ x = Sent
         \/ x.status = "closed" /\ x.template = NULL /\ x.type = "none"
<1> USE DEF BaseInvariant, RecordInvariant
<1>1. \/ \E i \in DOMAIN pipe' : x = pipe'[i]
      \/ \E o \in Odids : \E i \in DOMAIN store_queue'[o] : x = store_queue'[o][i]
  <2>1. x \in ToSet(pipe)' \/ \E o \in Odids : x \in ToSet(store_queue'[o])
    BY DEF Messages
  <2> QED
    BY <2>1 DEF ToSet
<1>2. ASSUME UNCHANGED <<pipe, store_queue>> PROVE FALSE
  BY <1>1, <1>2, MessagesAre
<1>3. ASSUME NEW m \in Message, pipe' = Append(pipe, m), store_queue' = store_queue
      PROVE  x = m
  <2>1. \A i \in DOMAIN pipe' : pipe'[i] = m \/ \E j \in DOMAIN pipe : pipe'[i] = pipe[j]
    BY <1>3, Appended DEF TypeOK
  <2> QED
    BY <1>1, <1>3, <2>1, MessagesAre
<1>4. CASE OutputIdle /\ pipe' = Tail(pipe) /\ store_queue' = store_queue
  <2>1. \A i \in DOMAIN pipe' : \E j \in DOMAIN pipe : pipe'[i] = pipe[j]
    BY <1>4, TakenIs
  <2> QED
    BY <1>1, <1>4, <2>1, MessagesAre
<1>5. CASE Forward
  <2>1. PICK o, m : o \in Odids /\ m = Head(pipe) /\ o = OdidOf[Head(pipe).source]
    BY <1>5, TakenIs DEF Forward
  <2>2. store_queue' = [store_queue EXCEPT ![o] = Append(store_queue[o], m)] /\ m \in Message
    BY <1>5, <2>1, TakenIs DEF Forward
  <2>3. \A i \in DOMAIN pipe' : \E j \in DOMAIN pipe : pipe'[i] = pipe[j]
    BY <1>5, TakenIs DEF Forward
  <2>4. \E j \in DOMAIN pipe : m = pipe[j]
    BY <1>5, <2>1, TakenIs DEF Forward
  <2>5. PICK q : q = store_queue[o] /\ q \in Seq(Message)
    BY <2>1 DEF TypeOK
  <2>6. store_queue'[o] = Append(q, m) /\ \A p \in Odids : p # o => store_queue'[p] = store_queue[p]
    BY <2>1, <2>2, <2>5 DEF TypeOK
  <2>7. \A i \in DOMAIN store_queue'[o] : store_queue'[o][i] = m \/ \E j \in DOMAIN q : store_queue'[o][i] = q[j]
    BY <2>2, <2>5, <2>6, Appended
  <2>8. \A i \in DOMAIN pipe' : pipe'[i] \in Messages
    BY <2>3, MessagesAre
  <2>9. \A i \in DOMAIN store_queue'[o] : store_queue'[o][i] \in Messages
    BY <2>1, <2>4, <2>5, <2>7, MessagesAre
  <2>10. \A p \in Odids : p # o => \A i \in DOMAIN store_queue'[p] : store_queue'[p][i] \in Messages
    BY <2>6, MessagesAre
  <2> QED
    BY <1>1, <2>1, <2>8, <2>9, <2>10
<1>6. ASSUME NEW o \in Odids, ReleaseMessage(o) PROVE FALSE
  <2>1. PICK q : q = store_queue[o]
    OBVIOUS
  <2>2. /\ q \in Seq(Message) /\ q # <<>>
        /\ store_queue' = [store_queue EXCEPT ![o] = Tail(q)] /\ pipe' = pipe
    BY <1>6, <2>1, ReleasedIs DEF ReleaseMessage
  <2>3. store_queue'[o] = Tail(q) /\ \A p \in Odids : p # o => store_queue'[p] = store_queue[p]
    BY <2>2 DEF TypeOK
  <2>4. \A i \in DOMAIN store_queue'[o] : \E j \in DOMAIN q : store_queue'[o][i] = q[j]
    BY <2>2, <2>3, Shortened
  <2> QED
    BY <1>1, <2>1, <2>2, <2>3, <2>4, MessagesAre
<1>7. ASSUME NEW s \in Sources, Exporter(s)
      PROVE  x.status = "closed" /\ x.template = NULL /\ x.type = "none"
  <2>1. CASE ReceiveClosed(s)
    <3>1. PICK m : m = [status |-> "closed", source |-> s, type |-> "none",
                        template |-> NULL, described |-> Unsent]
      OBVIOUS
    <3>2. m \in Message /\ pipe' = Append(pipe, m) /\ store_queue' = store_queue
      BY <2>1, <3>1 DEF ReceiveClosed, Message, NULL, output_vars
    <3> QED
      BY <1>3, <3>1, <3>2
  <2>2. CASE ~ReceiveClosed(s)
    <3>1. UNCHANGED <<pipe, store_queue>>
      BY <1>7, <2>2 DEF Exporter, ReceiveNew, ReceivePacket, output_vars
    <3> QED
      BY <1>2, <3>1
  <2> QED
    BY <2>1, <2>2
<1>8. CASE Send
  BY <1>3, <1>8, SentType DEF Send, Sent, output_vars
<1>9. CASE Working
  BY <1>2, <1>9, WorkGoesOn
<1>10. CASE SourceClosed
  BY <1>4, <1>10 DEF SourceClosed
<1>11. CASE (\E o \in Odids : RemoveManager(o) \/ TestReferences(o)) \/ UNCHANGED vars
  BY <1>2, <1>11 DEF RemoveManager, TestReferences, vars, output_vars
<1> QED
  BY <1>5, <1>6, <1>7, <1>8, <1>9, <1>10, <1>11 DEF Next, Preprocessor, OutputManager, Working
-----------------------------------------------------------------------------
(***************************************************************************)
(* What no step does to records and templates.                             *)
(***************************************************************************)

\* A withdrawal is remembered.
LEMMA WithdrawnGrows ==
  ASSUME [Next]_vars
  PROVE  withdrawn \subseteq withdrawn'
<1> USE DEF history, manager_vars
<1>1. ASSUME NEW s \in Sources, Exporter(s) PROVE withdrawn' = withdrawn
  BY <1>1 DEF Exporter, ReceiveNew, ReceivePacket, ReceiveClosed
<1>2. CASE Preprocessor
  <2>1. ASSUME WithdrawTemplate PROVE withdrawn \subseteq withdrawn'
    BY <2>1 DEF WithdrawTemplate
  <2>2. ASSUME \/ Register \/ CountRegistration \/ Walk \/ FindRecord \/ AddTemplate
               \/ UpdateTemplate \/ GetTemplate \/ CoupleData \/ Send
        PROVE  withdrawn' = withdrawn
    BY <2>2 DEF Register, CountRegistration, Walk, FindRecord, AddTemplate, UpdateTemplate,
                GetTemplate, CoupleData, Send
  <2> QED
    BY <1>2, <2>1, <2>2 DEF Preprocessor
<1>3. CASE OutputManager
  BY <1>3 DEF OutputManager, Forward, SourceClosed, RemoveManager
<1>4. ASSUME NEW o \in Odids, TestReferences(o) \/ ReleaseMessage(o) PROVE withdrawn' = withdrawn
  BY <1>4 DEF TestReferences, ReleaseMessage
<1>5. CASE UNCHANGED vars
  BY <1>5 DEF vars
<1> QED
  BY <1>1, <1>2, <1>3, <1>4, <1>5 DEF Next

\* A template keeps its ID and its content, and what is freed stays freed.
LEMMA TemplatesStay ==
  ASSUME BaseInvariant, [Next]_vars
  PROVE  /\ DOMAIN template \subseteq DOMAIN template'
         /\ \A t \in DOMAIN template : /\ template'[t].id = template[t].id
                                       /\ template'[t].version = template[t].version
         /\ freed_templates \subseteq freed_templates' /\ withdrawn \subseteq withdrawn'
<1> USE DEF BaseInvariant, RecordInvariant
<1>0. withdrawn \subseteq withdrawn'
  BY WithdrawnGrows
<1> SUFFICES /\ DOMAIN template \subseteq DOMAIN template'
             /\ \A t \in DOMAIN template : /\ template'[t].id = template[t].id
                                           /\ template'[t].version = template[t].version
             /\ freed_templates \subseteq freed_templates'
  BY <1>0
<1>1. CASE UNCHANGED <<template, freed_templates>>
  BY <1>1
<1>2. CASE ReferencesOnly /\ freed_templates' = freed_templates
  BY <1>2 DEF ReferencesOnly
<1>3. CASE template' = Append(template, NewTemplate) /\ freed_templates \subseteq freed_templates'
           /\ pre.pc \in {"add", "update"}
  BY <1>3, NewTemplateIs
<1>4. ASSUME NEW s \in Sources, Exporter(s) PROVE UNCHANGED <<template, freed_templates>>
  BY <1>4 DEF Exporter, ReceiveNew, ReceivePacket, ReceiveClosed, manager_vars
<1>5. CASE CoupleData
  BY <1>2, <1>5, CoupledIs DEF CoupleData
<1>12. CASE \E o \in Odids : TestReferences(o)
  BY <1>1, <1>12 DEF TestReferences, manager_vars
<1>6. ASSUME NEW o \in Odids, ReleaseMessage(o) PROVE ReferencesOnly /\ freed_templates' = freed_templates
  BY <1>6, ReleasedIs DEF ReleaseMessage
<1>7. CASE AddTemplate
  BY <1>3, <1>7 DEF AddTemplate
<1>8. CASE UpdateTemplate
  <2>1. CASE template[Current].version = pre.item.version
    BY <1>1, <1>8, <2>1 DEF UpdateTemplate
  <2>2. CASE template[Current].version # pre.item.version
    <3>1. template' = Append(template, NewTemplate) /\ freed_templates \subseteq freed_templates'
      BY <1>8, <2>2 DEF UpdateTemplate, Update
    <3> QED
      BY <1>3, <1>8, <3>1 DEF UpdateTemplate
  <2> QED
    BY <2>1, <2>2
<1>9. CASE WithdrawTemplate
  <2>1. template' = template /\ freed_templates \subseteq freed_templates'
    BY <1>9 DEF WithdrawTemplate
  <2> QED
    BY <2>1
<1>10. CASE \E o \in Odids : RemoveManager(o)
  <2>1. template' = template /\ freed_templates \subseteq freed_templates'
    BY <1>10 DEF RemoveManager, tm_remove_all_templates, Destroyed
  <2> QED
    BY <2>1
<1>11. CASE \/ Register \/ CountRegistration \/ Walk \/ FindRecord \/ GetTemplate \/ Send
            \/ Forward \/ SourceClosed \/ UNCHANGED vars
  BY <1>1, <1>11 DEF Register, CountRegistration, Walk, FindRecord, GetTemplate, Send,
                     Forward, SourceClosed, vars, manager_vars
<1> QED
  BY <1>1, <1>2, <1>4, <1>5, <1>6, <1>7, <1>8, <1>9, <1>10, <1>11, <1>12
     DEF Next, Preprocessor, OutputManager

\* A record that no removal takes stays in the list, and its array changes only
\* when a template is added, updated or withdrawn.
LEMMA RecordStays ==
  ASSUME OwnershipInvariant, [Next]_vars, NEW r \in Linked,
         \A o \in Odids : RemoveManager(o) => r \notin Gone(o)
  PROVE  /\ r \in Linked' /\ r \in DOMAIN record /\ record'[r].key = record[r].key
         /\ \/ record'[r].templates = record[r].templates
            \/ AddTemplate \/ WithdrawTemplate
            \/ UpdateTemplate /\ template[Current].version # pre.item.version
<1> USE DEF OwnershipInvariant
<1>0. TypeOK /\ ListInvariant /\ r \in DOMAIN record
  BY RecordNumbers DEF BaseInvariant, RecordInvariant
<1>1. ASSUME ListUnchanged PROVE r \in Linked' /\ record'[r].key = record[r].key
  BY <1>0, <1>1, ListFrame DEF ListUnchanged
<1>2. CASE ListUnchanged /\ record'[r].templates = record[r].templates
  BY <1>0, <1>1, <1>2
<1>3. CASE \/ \E s \in Sources : Exporter(s)
           \/ CountRegistration \/ Walk \/ GetTemplate \/ CoupleData \/ Send
           \/ Forward \/ SourceClosed \/ \E o \in Odids : TestReferences(o) \/ ReleaseMessage(o)
           \/ UNCHANGED vars
  <2>1. ListUnchanged /\ \A q \in DOMAIN record : record'[q].templates = record[q].templates
    BY <1>3, ArraysKept
  <2> QED
    BY <1>0, <1>2, <2>1
<1>4. CASE Register
  BY <1>0, <1>4, RegisterOwned
<1>5. CASE FindRecord
  BY <1>0, <1>5, FindRecordOwned
<1>6. CASE AddTemplate
  BY <1>0, <1>1, <1>6, ArrayChanged
<1>7. CASE UpdateTemplate
  <2>1. ListUnchanged
    BY <1>7, ArrayChanged
  <2>2. CASE template[Current].version = pre.item.version
    <3>1. record' = record
      BY <1>7, <2>2 DEF UpdateTemplate
    <3> QED
      BY <1>2, <2>1, <3>1
  <2> QED
    BY <1>0, <1>1, <1>7, <2>1, <2>2
<1>8. CASE WithdrawTemplate
  BY <1>0, <1>1, <1>8, ArrayChanged
<1>9. ASSUME NEW o \in Odids, RemoveManager(o)
      PROVE  r \in Linked' /\ record'[r].key = record[r].key /\ record'[r].templates = record[r].templates
  BY <1>0, <1>9, DestroyedIs
<1> QED
  BY <1>0, <1>3, <1>4, <1>5, <1>6, <1>7, <1>8, <1>9 DEF Next, Preprocessor, OutputManager

\* A record with a registration is not removed.
LEMMA CountedNotGone ==
  ASSUME OwnershipInvariant, NEW s \in Sources \ refused, NEW r \in Linked, record[r].key = s,
         Outstanding(s) > 0, NEW o \in Odids
  PROVE  r \notin Gone(o)
<1>1. record[r].registrations = Outstanding(s)
  BY RegistrationIs DEF OwnershipInvariant
<1> QED
  BY <1>1 DEF Gone

\* Nor is the record of a source with a message or a packet at hand.
LEMMA UsedNotGone ==
  ASSUME OwnershipInvariant, HeldInvariant, NEW o \in Odids, RemoveManager(o),
         NEW s \in Sources \ refused, NEW r \in Linked, record[r].key = s,
         \/ \E m \in Messages : m.source = s
         \/ pre.pc \in {"couple", "send"} /\ pre.source = s
  PROVE  r \notin Gone(o)
<1> USE DEF OwnershipInvariant
<1>0. TypeOK
  BY DEF BaseInvariant
<1>1. CASE pre.pc \in {"couple", "send"} /\ pre.source = s
  <2>1. Registered(s)
    BY <1>1, WorkingRegistered
  <2> QED
    BY <1>0, <2>1, OutstandingType, CountedNotGone
<1>2. ASSUME NEW i \in DOMAIN pipe, pipe[i].source = s PROVE r \notin Gone(o)
  <2>1. CASE pipe[i].status = "closed"
    <3>1. ClosedOf(s) # {}
      BY <1>2, <2>1 DEF ClosedOf
    <3> QED
      BY <1>0, <3>1, OutstandingType, CountedNotGone
  <2>2. CASE pipe[i].status # "closed"
    <3>1. Registered(s) \/ \E j \in ClosedOf(s) : i < j
      BY <1>2, <2>2, RegistrationIs
    <3>2. Registered(s) \/ ClosedOf(s) # {}
      BY <3>1
    <3> QED
      BY <1>0, <3>2, OutstandingType, CountedNotGone
  <2> QED
    BY <2>1, <2>2
<1>3. ASSUME NEW p \in Odids, NEW i \in DOMAIN store_queue[p], store_queue[p][i].source = s
      PROVE  r \notin Gone(o)
  <2>1. OdidOf[s] = p
    BY <1>3 DEF HeldInvariant
  <2>2. p # o
    BY <1>3 DEF RemoveManager
  <2> QED
    BY <2>1, <2>2 DEF Gone
<1> QED
  BY <1>1, <1>2, <1>3, MessagesAre

\* What a message or the packet at hand holds stays in the record of the source.
LEMMA HeldStays ==
  ASSUME OwnershipInvariant, HeldInvariant, ReferencesCounted,
         [Next]_vars, NEW s \in Sources, NEW t \in Nat, Holds(s, t),
         \/ \E m \in Messages : m.source = s /\ m.template = t
         \/ pre.pc \in {"couple", "send"} /\ pre.source = s /\ pre.cur = t
  PROVE  Holds(s, t)'
<1> USE DEF OwnershipInvariant
<1>0. TypeOK /\ refused \subseteq refused' /\ withdrawn \subseteq withdrawn'
  BY RefusedGrows, TemplatesStay DEF BaseInvariant
<1>1. CASE t = NULL \/ s \in refused \/ t \in withdrawn
  BY <1>0, <1>1 DEF Kept, Holds
<1>2. CASE t # NULL /\ s \notin refused /\ t \notin withdrawn
  <2>0. s \in Sources \ refused
    BY <1>2
  <2>1. PICK r \in Linked : record[r].key = s /\ Has(r, t)
    BY <1>2 DEF Kept, Holds
  <2>2. t \in DOMAIN template /\ t \notin freed_templates
    <3>1. t \in DOMAIN template
      BY <1>0, <2>1, RecordNumbers DEF Has, Stored, BaseInvariant, RecordInvariant, SlotsInvariant
    <3> QED
      BY <2>1, <3>1 DEF OwnedInvariant
  <2>3. \A o \in Odids : RemoveManager(o) => r \notin Gone(o)
    BY <2>0, <2>1, UsedNotGone
  <2>4. /\ r \in Linked' /\ r \in DOMAIN record /\ record'[r].key = record[r].key
        /\ \/ record'[r].templates = record[r].templates
           \/ AddTemplate \/ WithdrawTemplate
           \/ UpdateTemplate /\ template[Current].version # pre.item.version
    BY <2>3, RecordStays
  <2>5. CASE record'[r].templates = record[r].templates
    BY <2>1, <2>4, <2>5 DEF Kept, Holds, Has
  <2>6. CASE AddTemplate
    <3>1. Has(r, t)'
      BY <2>1, <2>2, <2>4, <2>6, AddOwned
    <3> QED
      BY <2>1, <2>4, <3>1 DEF Kept, Holds
  <2>7. CASE UpdateTemplate /\ template[Current].version # pre.item.version
    <3>1. Holders(t) > 0
      BY <1>0, <2>7, HoldersAre DEF UpdateTemplate
    <3>2. template[t].references # 0
      BY <2>2, <3>1 DEF ReferencesCounted
    <3>3. Has(r, t)'
      BY <2>1, <2>2, <2>4, <2>7, <3>2, UpdateOwned
    <3> QED
      BY <2>1, <2>4, <3>3 DEF Kept, Holds
  <2>8. CASE WithdrawTemplate
    <3>1. Has(r, t)' \/ t \in withdrawn'
      BY <2>1, <2>2, <2>4, <2>8, WithdrawOwned
    <3> QED
      BY <2>1, <2>4, <3>1 DEF Kept, Holds
  <2> QED
    BY <2>4, <2>5, <2>6, <2>7, <2>8
<1> QED
  BY <1>1, <1>2

\* The walk of a registered source ends at its record.
LEMMA WalkedTo ==
  ASSUME OwnershipInvariant, WalkEnds, pre.source \notin refused
  PROVE  /\ pre.cur \in Linked /\ record[pre.cur].key = pre.source
         /\ pre.source \in Sources /\ Registered(pre.source) /\ pre.pc = "lookup"
<1> USE DEF OwnershipInvariant
<1>1. pre.pc = "lookup"
  BY DEF WalkEnds
<1>2. PICK s \in Sources \ refused : s = pre.source /\ Registered(s)
  BY <1>1, WorkingRegistered
<1>3. tm_record_lookup(s) \in Linked /\ record[tm_record_lookup(s)].key = s
  BY <1>2, RegisteredHasRecord
<1>4. pre.cur = tm_record_lookup(s)
  BY <1>2, <1>3, WalkFinds DEF BaseInvariant, RecordInvariant
<1> QED
  BY <1>1, <1>2, <1>3, <1>4

\* What a lookup of a template ID returns is the newest template of a slot.
LEMMA LookupNewest ==
  ASSUME BaseInvariant, NEW r \in DOMAIN record, NEW id, tm_record_get_template(r, id) # NULL
  PROVE  /\ Newest(record[r].templates, tm_record_get_template(r, id))
         /\ Has(r, tm_record_get_template(r, id))
         /\ tm_record_get_template(r, id) \in DOMAIN template
         /\ template[tm_record_get_template(r, id)].id = id
<1>0. TypeOK /\ SlotsInvariant
  BY DEF BaseInvariant, RecordInvariant
<1>1. PICK t : t = tm_record_get_template(r, id)
  OBVIOUS
<1>2. PICK i : i = SlotOf(r, id)
  OBVIOUS
<1>3. i \in Used(r) /\ t = record[r].templates[i][1] /\ t \in DOMAIN template /\ IdAt(r, i) = id
  BY <1>0, <1>1, <1>2, FoundIs
<1>4. i \in DOMAIN record[r].templates /\ 1 \in DOMAIN record[r].templates[i]
  BY <1>0, <1>3, HeadAllocated
<1>5. Newest(record[r].templates, t)
  BY <1>3 DEF Newest, UsedIn, Used
<1>6. Has(r, t)
  BY <1>3, <1>4 DEF Has, Stored
<1> QED
  BY <1>1, <1>3, <1>5, <1>6 DEF IdAt

\* And every newest template is found by its ID.
LEMMA NewestFound ==
  ASSUME BaseInvariant, NEW r \in DOMAIN record, NEW t, Newest(record[r].templates, t)
  PROVE  tm_record_get_template(r, template[t].id) = t /\ t # NULL
<1>0. TypeOK /\ SlotsInvariant
  BY DEF BaseInvariant, RecordInvariant
<1>1. PICK i \in Used(r) : record[r].templates[i][1] = t
  BY DEF Newest, UsedIn, Used
<1>2. PICK id : id = template[t].id
  OBVIOUS
<1>3. t \in DOMAIN template /\ t # NULL /\ IdAt(r, i) = id
  BY <1>0, <1>1, <1>2, HeadAllocated, TemplateNumbers DEF IdAt
<1>4. PICK j : j = SlotOf(r, id)
  OBVIOUS
<1>5. /\ j \in Used(r) /\ IdAt(r, j) = id
      /\ tm_record_get_template(r, id) = record[r].templates[j][1]
  BY <1>0, <1>1, <1>3, <1>4, FoundIs
<1>6. i = j
  BY <1>1, <1>3, <1>5, <1>0 DEF SlotsInvariant
<1> QED
  BY <1>1, <1>2, <1>3, <1>5, <1>6

\* Storage plugins get messages of their Data Manager only.
LEMMA NextQueues ==
  ASSUME BaseInvariant, HeldInvariant, [Next]_vars
  PROVE  \A o \in Odids : \A i \in DOMAIN store_queue'[o] : OdidOf[store_queue'[o][i].source] = o
<1> USE DEF BaseInvariant, RecordInvariant
<1>1. CASE store_queue' = store_queue
  BY <1>1 DEF HeldInvariant
<1>2. CASE Forward
  <2>1. PICK o \in Odids, m \in Message : m = Head(pipe) /\ o = OdidOf[m.source]
    BY <1>2, TakenIs DEF Forward
  <2>2. PICK q : q = store_queue[o] /\ q \in Seq(Message)
    BY DEF TypeOK
  <2>3. store_queue'[o] = Append(q, m) /\ \A p \in Odids : p # o => store_queue'[p] = store_queue[p]
    BY <1>2, <2>1, <2>2 DEF TypeOK, Forward
  <2>4. \A i \in DOMAIN store_queue'[o] :
          store_queue'[o][i] = m \/ \E j \in DOMAIN q : store_queue'[o][i] = q[j]
    BY <2>1, <2>2, <2>3, Appended, SMTT(30)
  <2>5. \A j \in DOMAIN q : OdidOf[q[j].source] = o
    BY <2>2 DEF HeldInvariant
  <2>6. \A i \in DOMAIN store_queue'[o] : OdidOf[store_queue'[o][i].source] = o
    BY <2>1, <2>4, <2>5
  <2> QED
    BY <2>3, <2>6 DEF HeldInvariant
<1>3. ASSUME NEW o \in Odids, ReleaseMessage(o)
      PROVE  \A p \in Odids : \A i \in DOMAIN store_queue'[p] : OdidOf[store_queue'[p][i].source] = p
  <2>1. PICK q : q = store_queue[o]
    OBVIOUS
  <2>2. q \in Seq(Message) /\ q # <<>> /\ store_queue' = [store_queue EXCEPT ![o] = Tail(q)]
    BY <1>3, <2>1, ReleasedIs
  <2>3. store_queue'[o] = Tail(q) /\ \A p \in Odids : p # o => store_queue'[p] = store_queue[p]
    BY <2>2 DEF TypeOK
  <2>4. \A i \in DOMAIN store_queue'[o] : \E j \in DOMAIN q : store_queue'[o][i] = q[j]
    BY <2>2, <2>3, Shortened
  <2>5. \A j \in DOMAIN q : OdidOf[q[j].source] = o
    BY <2>1 DEF HeldInvariant
  <2>6. \A i \in DOMAIN store_queue'[o] : OdidOf[store_queue'[o][i].source] = o
    BY <2>4, <2>5
  <2> QED
    BY <2>3, <2>6 DEF HeldInvariant
<1>4. CASE Working
  BY <1>1, <1>4, WorkGoesOn
<1>5. ASSUME NEW s \in Sources, Exporter(s) PROVE store_queue' = store_queue
  BY <1>5 DEF Exporter, ReceiveNew, ReceivePacket, ReceiveClosed, output_vars
<1>6. CASE Send \/ SourceClosed \/ (\E o \in Odids : RemoveManager(o) \/ TestReferences(o)) \/ UNCHANGED vars
  BY <1>1, <1>6 DEF Send, SourceClosed, RemoveManager, TestReferences, vars, output_vars
<1> QED
  BY <1>1, <1>2, <1>3, <1>4, <1>5, <1>6 DEF Next, Preprocessor, OutputManager, Working

\* What is done with the Data Manager of an ODID.
Serves(o) == RemoveManager(o) \/ TestReferences(o) \/ ReleaseMessage(o)

\* How the Preprocessor comes to hold a template.
LEMMA TakesTemplate ==
  ASSUME BaseInvariant, [Next]_vars, pre'.pc \in {"couple", "send"}
  PROVE  \/ pre' = pre
         \/ /\ \/ GetTemplate /\ pre'.pc = "couple" /\ pre'.cur = Current
               \/ CoupleData /\ pre'.pc = "send" /\ pre'.cur = pre.cur
               \/ /\ AddTemplate \/ UpdateTemplate \/ WithdrawTemplate
                  /\ pre'.pc = "send" /\ pre'.cur = NULL /\ pre.item.type # "data"
            /\ pre.pc # "idle" /\ pre'.source = pre.source /\ pre'.item = pre.item
<1> USE DEF BaseInvariant, RecordInvariant
<1>1. CASE GetTemplate \/ CoupleData
  <2>1. pre \in Tasks /\ pre.pc # "idle"
    BY <1>1, TaskType DEF GetTemplate, WalkEnds, CoupleData
  <2> QED
    BY <1>1, <2>1 DEF GetTemplate, CoupleData, Go, Tasks
<1>2. CASE AddTemplate
  BY <1>2, AddedIs DEF AddTemplate
<1>3. CASE UpdateTemplate
  <2>1. pre.item.type = "template"
    BY <1>3 DEF UpdateTemplate, ListInvariant
  <2> QED
    BY <1>3, <2>1, UpdateTemplateTask DEF UpdateTemplate
<1>4. CASE WithdrawTemplate
  <2>1. pre \in Tasks /\ pre.pc # "idle"
    BY <1>4, TaskType DEF WithdrawTemplate, WalkEnds
  <2> QED
    BY <1>4, <2>1 DEF WithdrawTemplate, Go, Tasks
<1>5. ASSUME Register \/ CountRegistration \/ Walk \/ FindRecord PROVE FALSE
  <2>1. pre \in Tasks
    BY <1>5, TaskType DEF Register, CountRegistration, Walk, FindRecord, WalkEnds
  <2> QED
    BY <1>5, <2>1 DEF Register, CountRegistration, Walk, FindRecord, WalkEnds, Go, Tasks
<1>6. ASSUME NEW s \in Sources, Exporter(s) PROVE pre' = pre
  BY <1>6 DEF Exporter, ReceiveNew, ReceivePacket, ReceiveClosed
<1>7. ASSUME Send PROVE FALSE
  BY <1>7 DEF Send, Idle
<1>8. CASE Forward \/ SourceClosed \/ (\E o \in Odids : Serves(o)) \/ UNCHANGED vars
  BY <1>8 DEF Forward, SourceClosed, Serves, RemoveManager, TestReferences, ReleaseMessage, vars
<1> QED
  BY <1>1, <1>2, <1>3, <1>4, <1>5, <1>6, <1>7, <1>8 DEF Serves, Next, Preprocessor, OutputManager

\* Messages and the packet at hand go on holding templates of their source.
LEMMA NextHeld ==
  ASSUME OwnershipInvariant, HeldInvariant, ReferencesCounted, [Next]_vars
  PROVE  HeldInvariant'
<1> USE DEF OwnershipInvariant
<1>0. TypeOK
  BY DEF BaseInvariant
<1>1. ASSUME NEW x \in Messages'
      PROVE  Holds(x.source, x.template)' /\ (x.status = "closed" => x.template = NULL)
  <2>1. CASE x \in Messages
    <3>1. PICK s \in Sources, t \in Nat : s = x.source /\ t = x.template
      BY <1>0, <2>1, MessageType DEF Message
    <3>2. Holds(s, t) /\ (x.status = "closed" => x.template = NULL)
      BY <2>1, <3>1 DEF HeldInvariant
    <3>3. Holds(s, t)'
      BY <2>1, <3>1, <3>2, HeldStays
    <3> QED
      BY <3>1, <3>2, <3>3
  <2>2. CASE Send /\ x = Sent
    <3>1. PICK s \in Sources, t \in Nat : s = pre.source /\ t = pre.cur
      BY <1>0, <2>2, TaskType DEF Send
    <3>2. x.source = s /\ x.template = t /\ x.status # "closed"
      BY <1>0, <2>2, <3>1, TaskType DEF Send, Sent
    <3>3. Holds(s, t)
      BY <2>2, <3>1 DEF HeldInvariant, Send
    <3>4. Holds(s, t)'
      BY <2>2, <3>1, <3>3, HeldStays DEF Send
    <3> QED
      BY <3>2, <3>4
  <2>3. CASE x.template = NULL
    BY <2>3 DEF Kept, Holds
  <2> QED
    BY <2>1, <2>2, <2>3, NewMessages
<1>2. ASSUME pre'.pc \in {"couple", "send"} PROVE Holds(pre.source, pre.cur)'
  <2>1. CASE \/ pre' = pre
             \/ CoupleData /\ pre'.cur = pre.cur /\ pre'.source = pre.source
    <3>1. pre.pc \in {"couple", "send"}
      BY <1>2, <2>1 DEF CoupleData
    <3>2. PICK s \in Sources, t \in Nat : s = pre.source /\ t = pre.cur
      BY <1>0, <3>1, TaskType
    <3>3. Holds(s, t)
      BY <3>1, <3>2 DEF HeldInvariant
    <3>4. Holds(s, t)'
      BY <3>1, <3>2, <3>3, HeldStays
    <3>5. pre'.source = s /\ pre'.cur = t
      BY <2>1, <3>2
    <3> QED
      BY <3>4, <3>5 DEF Kept, Holds
  <2>2. CASE GetTemplate /\ pre'.cur = Current /\ pre'.source = pre.source
    <3>1. WalkEnds /\ record' = record /\ freed_records' = freed_records
      BY <2>2 DEF GetTemplate, manager_vars
    <3>2. CASE pre.source \in refused
      BY <2>2, <3>2, RefusedGrows DEF Holds
    <3>3. CASE pre.source \notin refused
      <4>1. PICK r \in Linked : r = pre.cur /\ record[r].key = pre.source
        BY <3>1, <3>3, WalkedTo
      <4>2. Current # NULL => Has(r, Current)
        BY <1>0, <4>1, LookupNewest, RecordNumbers DEF Current
      <4>3. r \in Linked' /\ record'[r].key = pre'.source
        BY <2>2, <3>1, <4>1 DEF Linked
      <4>4. Current # NULL => Has(r, pre.cur)'
        BY <2>2, <3>1, <4>2 DEF Has
      <4> QED
        BY <2>2, <4>3, <4>4 DEF Kept, Holds
    <3> QED
      BY <3>2, <3>3
  <2>3. CASE pre'.cur = NULL
    BY <2>3 DEF Kept, Holds
  <2> QED
    BY <1>2, <2>1, <2>2, <2>3, TakesTemplate
<1>3. \A o \in Odids : \A i \in DOMAIN store_queue'[o] : OdidOf[store_queue'[o][i].source] = o
  BY NextQueues
<1> QED
  BY <1>1, <1>2, <1>3 DEF HeldInvariant
-----------------------------------------------------------------------------
(***************************************************************************)
(* The references are counted.                                             *)
(***************************************************************************)

\* The reference of the message that the Preprocessor is about to send.
AtHand(t) == IF pre.pc = "send" /\ pre.cur = t THEN 1 ELSE 0

LEMMA HoldersSum ==
  ASSUME TypeOK, NEW t
  PROVE  /\ Cardinality(Holding(pipe, t)) \in Nat /\ Cardinality(Queued(t)) \in Nat
         /\ AtHand(t) \in {0, 1}
         /\ Holders(t) = Cardinality(Holding(pipe, t)) + AtHand(t) + Cardinality(Queued(t))
         /\ Holders(t)' = Cardinality(Holding(pipe', t)) + AtHand(t)' + Cardinality(Queued(t)')
<1>1. Cardinality(Holding(pipe, t)) \in Nat /\ Cardinality(Queued(t)) \in Nat
  BY HoldingFinite, QueuedFinite DEF TypeOK
<1>2. Holders(t) = Cardinality(Holding(pipe, t)) + AtHand(t) + Cardinality(Queued(t))
  BY DEF Holders, AtHand, Queued
<1>3. Holders(t)' = Cardinality(Holding(pipe', t)) + AtHand(t)' + Cardinality(Queued(t)')
  BY DEF Holders, AtHand, Queued, Holding
<1> QED
  BY <1>1, <1>2, <1>3 DEF AtHand

LEMMA HoldersKept ==
  ASSUME TypeOK, NEW t, UNCHANGED <<pipe, store_queue>>, AtHand(t)' = AtHand(t)
  PROVE  Holders(t)' = Holders(t)
<1>1. Queued(t)' = Queued(t)
  BY DEF Queued
<1> QED
  BY <1>1, HoldersSum

\* Steps that hand no reference over.
LEMMA KeptReferences ==
  ASSUME TypeOK, ReferencesCounted, UNCHANGED <<template, pipe, store_queue>>,
         freed_templates \subseteq freed_templates',
         \A t \in DOMAIN template : AtHand(t)' = AtHand(t)
  PROVE  ReferencesCounted'
BY HoldersKept DEF ReferencesCounted

\* A new template is held by nobody.
LEMMA NewReferences ==
  ASSUME BaseInvariant, ReferencesCounted, pre.pc \in {"add", "update"},
         template' = Append(template, NewTemplate), pre'.cur = NULL,
         freed_templates \subseteq freed_templates', UNCHANGED <<pipe, store_queue>>
  PROVE  ReferencesCounted'
<1> USE DEF BaseInvariant, RecordInvariant
<1>1. PICK n \in Nat : n = Len(template) + 1
  BY NewTemplateIs
<1>2. /\ DOMAIN template' = DOMAIN template \cup {n} /\ n \notin DOMAIN template /\ n # NULL
      /\ \A t \in DOMAIN template : template'[t] = template[t]
      /\ template'[n].references = 0
  BY <1>1, NewTemplateIs, TemplateNumbers DEF NULL
<1>3. \A t \in DOMAIN template' : AtHand(t)' = 0 /\ AtHand(t) = 0
  BY <1>2, TemplateNumbers DEF AtHand
<1>4. \A t \in DOMAIN template' : Holders(t)' = Holders(t)
  BY <1>3, HoldersKept
<1>5. Holders(n) = 0
  <2>1. \A m \in Messages : m.template # n
    BY <1>2, MessagesAre DEF PointersInvariant
  <2> QED
    BY <2>1, HoldersAre
<1>6. \A t \in DOMAIN template \ freed_templates : template[t].references = Holders(t)
  BY DEF ReferencesCounted
<1>7. ASSUME NEW t \in DOMAIN template' \ freed_templates' PROVE template'[t].references = Holders(t)'
  <2>1. CASE t = n
    BY <1>2, <1>4, <1>5, <2>1
  <2>2. CASE t # n
    BY <1>2, <1>4, <1>6, <1>7, <2>2
  <2> QED
    BY <2>1, <2>2
<1> QED
  BY <1>7 DEF ReferencesCounted

\* Data at hand takes a reference, which its message then holds.
LEMMA CoupleReferences ==
  ASSUME BaseInvariant, ReferencesCounted, CoupleData
  PROVE  ReferencesCounted'
<1> USE DEF BaseInvariant, RecordInvariant
<1>1. /\ DOMAIN template' = DOMAIN template /\ freed_templates' = freed_templates
      /\ \A t \in DOMAIN template : template'[t].references =
              IF t = pre.cur THEN template[t].references + 1 ELSE template[t].references
  BY CoupledIs DEF CoupleData, ReferencesOnly
<1>2. pre \in Tasks /\ pre.pc = "couple" /\ pre'.pc = "send" /\ pre'.cur = pre.cur
      /\ UNCHANGED <<pipe, store_queue>>
  BY TaskType DEF CoupleData, Go, Tasks, output_vars
<1>3. ASSUME NEW t \in DOMAIN template \ freed_templates PROVE template'[t].references = Holders(t)'
  <2>1. template[t].references = Holders(t)
    BY DEF ReferencesCounted
  <2>2. AtHand(t) = 0 /\ AtHand(t)' = IF t = pre.cur THEN 1 ELSE 0
    BY <1>2 DEF AtHand
  <2>3. Queued(t)' = Queued(t)
    BY <1>2 DEF Queued
  <2>4. Holders(t)' = IF t = pre.cur THEN Holders(t) + 1 ELSE Holders(t)
    BY <1>2, <2>2, <2>3, HoldersSum
  <2> QED
    BY <1>1, <2>1, <2>4
<1> QED
  BY <1>1, <1>3 DEF ReferencesCounted

LEMMA AppendedReferences ==
  ASSUME TypeOK, ReferencesCounted, NEW m \in Message, pipe' = Append(pipe, m),
         UNCHANGED <<template, freed_templates, store_queue>>,
         \A t \in DOMAIN template : AtHand(t) = (IF m.template = t THEN 1 ELSE 0) /\ AtHand(t)' = 0
  PROVE  ReferencesCounted'
<1>1. ASSUME NEW t \in DOMAIN template \ freed_templates PROVE Holders(t)' = Holders(t)
  <2>1. Cardinality(Holding(pipe', t)) =
          IF m.template = t THEN Cardinality(Holding(pipe, t)) + 1 ELSE Cardinality(Holding(pipe, t))
    BY HoldingAppended DEF TypeOK
  <2>2. Queued(t)' = Queued(t)
    BY DEF Queued
  <2> QED
    BY <2>1, <2>2, HoldersSum
<1> QED
  BY <1>1 DEF ReferencesCounted

\* A message that moves from queue to queue keeps its reference.
LEMMA ForwardReferences ==
  ASSUME TypeOK, ReferencesCounted, Forward
  PROVE  ReferencesCounted'
<1>1. PICK m \in Message, o \in Odids : m = Head(pipe) /\ o = OdidOf[m.source]
  BY TakenIs DEF Forward
<1>2. /\ pipe \in Seq(Message) /\ pipe # <<>> /\ pipe' = Tail(pipe)
      /\ store_queue' = [store_queue EXCEPT ![o] = Append(store_queue[o], m)]
      /\ UNCHANGED <<template, freed_templates, pre>>
  BY <1>1, TakenIs DEF Forward, manager_vars
<1>3. ASSUME NEW t \in DOMAIN template \ freed_templates PROVE Holders(t)' = Holders(t)
  <2>1. Cardinality(Holding(pipe', t)) =
          IF m.template = t THEN Cardinality(Holding(pipe, t)) - 1 ELSE Cardinality(Holding(pipe, t))
    BY <1>1, <1>2, HoldingTaken
  <2>2. Cardinality(Queued(t)') =
          IF m.template = t THEN Cardinality(Queued(t)) + 1 ELSE Cardinality(Queued(t))
    BY <1>2, QueuedAppended
  <2>3. AtHand(t)' = AtHand(t)
    BY <1>2 DEF AtHand
  <2> QED
    BY <2>1, <2>2, <2>3, HoldersSum
<1> QED
  BY <1>2, <1>3 DEF ReferencesCounted

LEMMA ClosedReferences ==
  ASSUME TypeOK, HeldInvariant, ReferencesCounted, SourceClosed
  PROVE  ReferencesCounted'
<1>1. PICK m \in Message : m = Head(pipe) /\ m.status = "closed"
  BY TakenIs DEF SourceClosed
<1>2. /\ pipe \in Seq(Message) /\ pipe # <<>> /\ pipe' = Tail(pipe) /\ m \in Messages
      /\ UNCHANGED <<template, freed_templates, pre, store_queue>>
  BY <1>1, TakenIs, MessagesAre DEF SourceClosed
<1>3. m.template = NULL
  BY <1>1, <1>2 DEF HeldInvariant
<1>4. ASSUME NEW t \in DOMAIN template \ freed_templates PROVE Holders(t)' = Holders(t)
  <2>1. t # m.template
    BY <1>3, TemplateNumbers
  <2>2. Cardinality(Holding(pipe', t)) = Cardinality(Holding(pipe, t))
    BY <1>1, <1>2, <2>1, HoldingTaken
  <2>3. AtHand(t)' = AtHand(t) /\ Queued(t)' = Queued(t)
    BY <1>2 DEF AtHand, Queued
  <2> QED
    BY <2>2, <2>3, HoldersSum
<1> QED
  BY <1>2, <1>4 DEF ReferencesCounted

\* The released message gives its reference back.
LEMMA ReleaseReferences ==
  ASSUME BaseInvariant, ReferencesCounted, NEW o \in Odids, ReleaseMessage(o)
  PROVE  ReferencesCounted'
<1> USE DEF BaseInvariant, RecordInvariant
<1>1. PICK m : m = Head(store_queue[o])
  OBVIOUS
<1>2. /\ store_queue[o] # <<>> /\ store_queue' = [store_queue EXCEPT ![o] = Tail(store_queue[o])]
      /\ m = store_queue[o][1] /\ 1 \in DOMAIN store_queue[o]
      /\ DOMAIN template' = DOMAIN template
      /\ \A t \in DOMAIN template : template'[t].references =
              IF t = m.template /\ o \in releasing
              THEN template[t].references - 1 ELSE template[t].references
      /\ m.template # NULL /\ o \notin releasing => template[m.template].references = 0
  BY <1>1, ReleasedIs DEF ReferencesOnly
<1>3. UNCHANGED <<freed_templates, pre, pipe>>
  BY DEF ReleaseMessage
<1>4. m \in Messages
  BY <1>2, MessagesAre
<1>5. ASSUME NEW t \in DOMAIN template \ freed_templates PROVE template'[t].references = Holders(t)'
  <2>1. template[t].references = Holders(t) /\ Holders(t) \in Nat
    BY HoldersAre DEF ReferencesCounted
  <2>2. t = m.template => Holders(t) > 0 /\ t # NULL
    BY <1>4, HoldersAre, TemplateNumbers
  <2>6. t = m.template => o \in releasing
    BY <1>2, <2>1, <2>2
  <2>3. Cardinality(Queued(t)') =
          IF m.template = t THEN Cardinality(Queued(t)) - 1 ELSE Cardinality(Queued(t))
    BY <1>1, <1>2, QueuedTaken
  <2>4. AtHand(t)' = AtHand(t)
    BY <1>3 DEF AtHand
  <2>5. Holders(t)' = IF m.template = t THEN Holders(t) - 1 ELSE Holders(t)
    BY <1>3, <2>3, <2>4, HoldersSum
  <2> QED
    BY <1>2, <2>1, <2>2, <2>5, <2>6
<1> QED
  BY <1>2, <1>3, <1>5 DEF ReferencesCounted

LEMMA NextReferences ==
  ASSUME BaseInvariant, HeldInvariant, ReferencesCounted, [Next]_vars
  PROVE  ReferencesCounted'
<1> USE DEF BaseInvariant, RecordInvariant
<1>0. freed_templates \subseteq freed_templates' /\ NULL \notin DOMAIN template
  BY TemplatesStay, TemplateNumbers
<1>1. ASSUME UNCHANGED <<template, pipe, store_queue>>, pre' = pre \/ (pre.pc # "send" /\ pre'.pc # "send")
      PROVE  ReferencesCounted'
  <2>1. \A t \in DOMAIN template : AtHand(t)' = AtHand(t)
    BY <1>1 DEF AtHand
  <2> QED
    BY <1>0, <1>1, <2>1, KeptReferences
<1>2. ASSUME NEW s \in Sources, Exporter(s) PROVE ReferencesCounted'
  <2>1. CASE \E item \in Items : ReceiveNew(s, item) \/ ReceivePacket(s, item)
    <3>1. /\ UNCHANGED <<template, pipe, store_queue>>
          /\ pre.pc # "send" /\ pre'.pc # "send"
      BY <2>1 DEF ReceiveNew, ReceivePacket, Idle, manager_vars, output_vars
    <3> QED
      BY <1>1, <3>1
  <2>2. CASE ReceiveClosed(s)
    <3>1. PICK m : m = [status |-> "closed", source |-> s, type |-> "none",
                        template |-> NULL, described |-> Unsent]
      OBVIOUS
    <3>2. /\ m \in Message /\ m.template = NULL /\ pipe' = Append(pipe, m)
          /\ UNCHANGED <<template, freed_templates, store_queue, pre>> /\ pre.pc = "idle"
      BY <2>2, <3>1 DEF ReceiveClosed, Message, NULL, Idle, manager_vars, output_vars
    <3>3. \A t \in DOMAIN template : AtHand(t) = (IF m.template = t THEN 1 ELSE 0) /\ AtHand(t)' = 0
      BY <1>0, <3>2 DEF AtHand
    <3> QED
      BY <3>2, <3>3, AppendedReferences
  <2> QED
    BY <1>2, <2>1, <2>2 DEF Exporter
<1>3. CASE Register \/ CountRegistration \/ Walk \/ FindRecord \/ GetTemplate
  <2>1. pre \in Tasks /\ pre.pc \in {"register", "count", "lookup"}
    BY <1>3, TaskType DEF Register, CountRegistration, Walk, FindRecord, GetTemplate, WalkEnds
  <2>2. pre'.pc # "send"
    BY <1>3, <2>1 DEF Register, CountRegistration, Walk, FindRecord, GetTemplate, WalkEnds, Go, Tasks
  <2>3. UNCHANGED <<template, pipe, store_queue>>
    BY <1>3 DEF Register, CountRegistration, Walk, FindRecord, GetTemplate, manager_vars, output_vars
  <2> QED
    BY <1>1, <2>1, <2>2, <2>3
<1>4. CASE AddTemplate
  BY <1>0, <1>4, AddedIs, NewReferences DEF AddTemplate, output_vars
<1>5. CASE UpdateTemplate
  <2>1. pre.pc = "update" /\ pre'.cur = NULL /\ UNCHANGED <<pipe, store_queue>>
    BY <1>5, UpdateTemplateTask DEF UpdateTemplate, output_vars
  <2>2. CASE template[Current].version = pre.item.version
    <3>1. template' = template
      BY <1>5, <2>2 DEF UpdateTemplate
    <3>2. \A t \in DOMAIN template : AtHand(t)' = AtHand(t)
      BY <1>0, <2>1 DEF AtHand
    <3> QED
      BY <1>0, <2>1, <3>1, <3>2, KeptReferences
  <2>3. CASE template[Current].version # pre.item.version
    <3>1. template' = Append(template, NewTemplate)
      BY <1>5, <2>3 DEF UpdateTemplate
    <3> QED
      BY <1>0, <2>1, <3>1, NewReferences
  <2> QED
    BY <2>2, <2>3
<1>6. CASE Send
  <2>1. PICK m \in Message : m = Sent /\ pipe' = Append(pipe, m)
    BY <1>6, SentType
  <2>2. UNCHANGED <<template, freed_templates, store_queue>> /\ pre.pc = "send" /\ pre'.pc = "idle"
    BY <1>6 DEF Send, Idle, manager_vars, output_vars
  <2>3. m.template = pre.cur
    BY <2>1 DEF Sent
  <2>4. \A t \in DOMAIN template : AtHand(t) = (IF m.template = t THEN 1 ELSE 0) /\ AtHand(t)' = 0
    BY <2>2, <2>3 DEF AtHand
  <2> QED
    BY <2>1, <2>2, <2>4, AppendedReferences
<1>7. CASE (\E o \in Odids : RemoveManager(o) \/ TestReferences(o)) \/ UNCHANGED vars
  <2>1. UNCHANGED <<template, pipe, store_queue, pre>>
    BY <1>7 DEF RemoveManager, TestReferences, vars, manager_vars, output_vars
  <2> QED
    BY <1>1, <2>1
<1>8. CASE WithdrawTemplate
  <2>1. pre \in Tasks /\ pre.pc = "lookup"
    BY <1>8, TaskType DEF WithdrawTemplate, WalkEnds
  <2>2. pre'.cur = NULL /\ UNCHANGED <<template, pipe, store_queue>>
    BY <1>8, <2>1 DEF WithdrawTemplate, Go, Tasks, output_vars
  <2>3. \A t \in DOMAIN template : AtHand(t)' = AtHand(t)
    BY <1>0, <2>1, <2>2 DEF AtHand
  <2> QED
    BY <1>0, <2>2, <2>3, KeptReferences
<1> QED
  BY <1>2, <1>3, <1>4, <1>5, <1>6, <1>7, <1>8, CoupleReferences, ForwardReferences,
     ClosedReferences, ReleaseReferences DEF Next, Preprocessor, OutputManager
-----------------------------------------------------------------------------
(***************************************************************************)
(* Data is decoded as its exporter described it.                           *)
(***************************************************************************)

\* The current template of a registered source stays current until the next.
LEMMA KnownStays ==
  ASSUME OwnershipInvariant, [Next]_vars,
         NEW s \in Sources \ refused, NEW id \in Ids, Registered(s), Known(s, id),
         sent'[s][id] = sent[s][id],
         UpdateTemplate \/ WithdrawTemplate => ~(pre.source = s /\ pre.item.id = id)
  PROVE  Known(s, id)'
<1> USE DEF OwnershipInvariant
<1>0. TypeOK
  BY DEF BaseInvariant
<1>1. PICK r \in Linked, t \in DOMAIN template :
        /\ record[r].key = s /\ Newest(record[r].templates, t)
        /\ template[t].id = id /\ template[t].version = sent[s][id]
  BY DEF Known
<1>2. \A o \in Odids : RemoveManager(o) => r \notin Gone(o)
  BY <1>0, <1>1, OutstandingType, CountedNotGone
<1>3. /\ r \in Linked' /\ r \in DOMAIN record /\ record'[r].key = record[r].key
      /\ \/ record'[r].templates = record[r].templates
         \/ AddTemplate \/ WithdrawTemplate
         \/ UpdateTemplate /\ template[Current].version # pre.item.version
  BY <1>2, RecordStays
<1>4. t \in DOMAIN template' /\ template'[t].id = id /\ template'[t].version = sent'[s][id]
  BY <1>1, TemplatesStay
<1>5. Newest(record'[r].templates, t)
  <2>1. CASE record'[r].templates = record[r].templates
    BY <1>1, <2>1
  <2>2. CASE AddTemplate
    BY <1>1, <1>3, <2>1, <2>2, AddOwned
  <2>3. CASE UpdateTemplate /\ template[Current].version # pre.item.version
    <3>1. CASE r = pre.cur
      <4>1. record[pre.cur].key = pre.source /\ template[Current].id = pre.item.id
        BY <2>3, UpdateOwned
      <4>2. t # Current
        BY <1>1, <2>3, <3>1, <4>1
      <4> QED
        BY <1>1, <2>3, <3>1, <4>2, UpdateOwned
    <3>2. CASE r # pre.cur
      BY <1>1, <1>3, <2>3, <3>2, UpdateOwned
    <3> QED
      BY <3>1, <3>2
  <2>4. CASE WithdrawTemplate
    BY <1>1, <1>3, <2>4, WithdrawOwned
  <2> QED
    BY <1>3, <2>1, <2>2, <2>3, <2>4
<1>6. Newest(record[r].templates, t)' <=> Newest(record'[r].templates, t)
  BY DEF Newest, UsedIn
<1> QED
  BY <1>1, <1>3, <1>4, <1>5, <1>6 DEF Known

\* The template at hand becomes the current one.
LEMMA KnownMade ==
  ASSUME OwnershipInvariant, AddTemplate \/ UpdateTemplate,
         NEW s \in Sources \ refused, NEW id \in Ids, s = pre.source, id = pre.item.id
  PROVE  Known(s, id)'
<1> USE DEF OwnershipInvariant
<1>0. TypeOK /\ ListInvariant
  BY DEF BaseInvariant, RecordInvariant
<1>1. pre.pc \in {"add", "update"} /\ pre.item.type = "template" /\ sent' = sent
  BY <1>0 DEF AddTemplate, UpdateTemplate, ListInvariant, exporter_vars
<1>2. sent[s][id] = pre.item.version
  BY <1>1 DEF SessionInvariant, WorkInvariant
<1>3. PICK r \in Linked : r = pre.cur /\ record[r].key = s
  BY <1>1 DEF OwnedInvariant, ChangedInvariant
<1>4. ListUnchanged /\ r \in DOMAIN record
  BY <1>0, <1>3, ArrayChanged, RecordNumbers
<1>5. r \in Linked' /\ record'[r].key = s
  BY <1>0, <1>3, <1>4, ListFrame DEF ListUnchanged
<1>6. ASSUME NEW t \in DOMAIN template', Newest(record'[r].templates, t),
             template'[t].id = id, template'[t].version = pre.item.version
      PROVE  Known(s, id)'
  <2>1. Newest(record[r].templates, t)' <=> Newest(record'[r].templates, t)
    BY DEF Newest, UsedIn
  <2> QED
    BY <1>1, <1>2, <1>5, <1>6, <2>1 DEF Known
<1>7. ASSUME template' = Append(template, NewTemplate), Newest(record'[r].templates, Len(template) + 1)
      PROVE  Known(s, id)'
  <2>1. PICK n : n = Len(template) + 1
    OBVIOUS
  <2>2. n \in DOMAIN template' /\ template'[n].id = id /\ template'[n].version = pre.item.version
    BY <1>1, <1>7, <2>1, NewTemplateIs
  <2> QED
    BY <1>6, <1>7, <2>1, <2>2
<1>8. CASE AddTemplate
  BY <1>3, <1>7, <1>8, AddOwned DEF AddTemplate
<1>9. CASE UpdateTemplate /\ template[Current].version # pre.item.version
  BY <1>3, <1>7, <1>9, UpdateOwned
<1>10. CASE UpdateTemplate /\ template[Current].version = pre.item.version
  <2>1. Current # NULL /\ record' = record /\ template' = template
    BY <1>10 DEF UpdateTemplate
  <2>2. /\ Newest(record[r].templates, Current) /\ Current \in DOMAIN template
        /\ template[Current].id = id
    BY <1>3, <1>4, <2>1, LookupNewest DEF Current
  <2>3. PICK t \in DOMAIN template : t = Current
    BY <2>2
  <2> QED
    BY <1>6, <1>10, <2>1, <2>2, <2>3
<1> QED
  BY <1>8, <1>9, <1>10

\* What the exporter has described changes only while nothing is at hand.
LEMMA SentStays ==
  ASSUME TypeOK, [Next]_vars, pre.pc # "idle"
  PROVE  UNCHANGED <<sent, connected>>
<1>1. ASSUME NEW s \in Sources, Exporter(s) PROVE FALSE
  BY <1>1 DEF Exporter, ReceiveNew, ReceivePacket, ReceiveClosed, Idle
<1>2. CASE Working
  BY <1>2, WorkGoesOn
<1>3. CASE Send \/ Forward \/ SourceClosed \/ (\E o \in Odids : Serves(o)) \/ UNCHANGED vars
  BY <1>3 DEF Send, Forward, SourceClosed, Serves, RemoveManager, TestReferences, ReleaseMessage, vars, exporter_vars
<1> QED
  BY <1>1, <1>2, <1>3 DEF Serves, Next, Preprocessor, OutputManager, Working

LEMMA NextKnown ==
  ASSUME OwnershipInvariant, DescribedInvariant, [Next]_vars,
         NEW s \in Sources, s \notin refused', NEW id \in Ids,
         Registered(s)', sent'[s][id] # Unsent, ~Pending(s, id)'
  PROVE  Known(s, id)'
<1> USE DEF OwnershipInvariant
<1>0. TypeOK /\ ListInvariant /\ s \in Sources \ refused
  BY RefusedGrows DEF BaseInvariant, RecordInvariant
<1>1. ASSUME Registered(s), sent'[s][id] = sent[s][id], ~Pending(s, id) PROVE Known(s, id)'
  <2>1. Known(s, id)
    BY <1>0, <1>1 DEF DescribedInvariant
  <2>2. UpdateTemplate => ~(pre.source = s /\ pre.item.id = id)
    BY <1>0, <1>1 DEF Pending, UpdateTemplate, ListInvariant
  <2>3. WithdrawTemplate => ~(pre.source = s /\ pre.item.id = id)
    BY <1>1 DEF WithdrawTemplate, WalkEnds, DescribedInvariant
  <2> QED
    BY <1>0, <1>1, <2>1, <2>2, <2>3, KnownStays
<1>2. ASSUME NEW q \in Sources, NEW item \in Items, ReceiveNew(q, item) PROVE Known(s, id)'
  <2>1. /\ pre.pc = "idle" /\ pre'.pc = "register" /\ pre'.source = q
        /\ \A p \in Sources : p # q => connected'[p] = connected[p] /\ sent'[p] = sent[p]
    BY <1>0, <1>2 DEF ReceiveNew, Idle, TypeOK
  <2>2. s # q
    BY <2>1 DEF Registered
  <2> QED
    BY <1>1, <2>1, <2>2 DEF Registered, Pending
<1>3. ASSUME NEW q \in Sources, NEW item \in Items, ReceivePacket(q, item) PROVE Known(s, id)'
  <2>1. /\ pre.pc = "idle" /\ pre'.pc = "lookup" /\ pre'.source = q /\ pre'.item = item
        /\ connected' = connected /\ sent' = [sent EXCEPT ![q] = Described(sent[q], item)]
    BY <1>3 DEF ReceivePacket, Idle
  <2>2. /\ item.type \in {"data", "template", "withdrawal"} /\ item.id \in Ids
    BY TemplateAssumption DEF Items
  <2>3. sent \in [Sources -> [Ids -> Versions \cup {Unsent}]]
    BY <1>0 DEF TypeOK
  <2>4. sent'[s][id] = sent[s][id]
    <3>1. CASE s # q
      BY <2>1, <2>3, <3>1
    <3>2. CASE s = q /\ item.type = "data"
      BY <2>1, <2>3, <3>2 DEF Described
    <3>3. CASE s = q /\ item.type = "template"
      <4>1. item.id # id
        BY <2>1, <3>3 DEF Pending
      <4>2. Described(sent[q], item) = [sent[q] EXCEPT ![item.id] = item.version]
        BY <3>3 DEF Described
      <4> QED
        BY <2>1, <2>3, <3>3, <4>1, <4>2
    <3>4. CASE s = q /\ item.type = "withdrawal"
      <4>1. Described(sent[q], item) = [sent[q] EXCEPT ![item.id] = Unsent]
        BY <3>4 DEF Described
      <4>2. item.id # id
        BY <2>1, <2>2, <2>3, <3>4, <4>1
      <4> QED
        BY <2>1, <2>3, <3>4, <4>1, <4>2
    <3> QED
      BY <2>2, <3>1, <3>2, <3>3, <3>4
  <2> QED
    BY <1>1, <2>1, <2>4 DEF Registered, Pending
<1>4. ASSUME NEW q \in Sources, ReceiveClosed(q) PROVE Known(s, id)'
  <2>1. pre' = pre /\ pre.pc = "idle" /\ sent' = sent /\ (connected'[s] => connected[s])
    BY <1>0, <1>4 DEF ReceiveClosed, Idle, TypeOK
  <2> QED
    BY <1>1, <2>1 DEF Registered, Pending
<1>5. ASSUME Working PROVE Known(s, id)'
  <2>1. /\ pre.pc # "idle" /\ pre.pc # "send" /\ pre'.pc # "idle"
        /\ pre'.source = pre.source /\ pre'.item = pre.item
        /\ pre'.pc \in {"register", "count"} => pre.pc \in {"register", "count"}
        /\ UNCHANGED <<sent, connected>>
    BY <1>0, <1>5, WorkGoesOn
  <2>2. CASE AddTemplate \/ UpdateTemplate
    <3>1. CASE s = pre.source /\ id = pre.item.id
      BY <1>0, <2>2, <3>1, KnownMade
    <3>2. CASE ~(s = pre.source /\ id = pre.item.id)
      <4>1. pre.pc \in {"add", "update"}
        BY <2>2 DEF AddTemplate, UpdateTemplate
      <4> QED
        BY <1>1, <2>1, <3>2, <4>1 DEF Registered, Pending
    <3> QED
      BY <3>1, <3>2
  <2>3. CASE CountRegistration
    <3>1. pre.pc = "count" /\ pre'.pc = "lookup" /\ pre.item.type = "template" /\ pre \in Tasks
      BY <1>0, <2>3, TaskType DEF CountRegistration, SessionInvariant, WorkInvariant, Tasks
    <3>2. CASE s = pre.source
      <4>1. id = pre.item.id
        BY <2>1, <3>1, <3>2 DEF DescribedInvariant
      <4>2. Pending(s, id)'
        BY <2>1, <3>1, <3>2, <4>1 DEF Pending
      <4> QED
        BY <4>2
    <3>3. CASE s # pre.source
      BY <1>1, <2>1, <3>3 DEF Registered, Pending
    <3> QED
      BY <3>2, <3>3
  <2>4. CASE Register
    <3>1. pre.pc = "register" /\ pre'.pc = "count"
      BY <1>0, <2>4, TaskType DEF Register, Tasks
    <3> QED
      BY <1>1, <2>1, <3>1 DEF Registered, Pending
  <2>5. CASE Walk \/ FindRecord
    <3>1. pre.pc = "lookup" /\ pre'.pc \in {"lookup", "add", "update"}
      BY <1>0, <2>5, TaskType DEF Walk, FindRecord, WalkEnds, Go, Tasks
    <3> QED
      BY <1>1, <2>1, <3>1 DEF Registered, Pending
  <2>6. CASE GetTemplate \/ CoupleData
    <3>1. pre.pc \notin {"register", "count"} /\ pre.item.type = "data"
      BY <2>6 DEF GetTemplate, CoupleData, WalkEnds, DescribedInvariant
    <3> QED
      BY <1>1, <2>1, <3>1 DEF Registered, Pending
  <2>7. CASE WithdrawTemplate
    <3>1. pre.pc = "lookup" /\ pre.item.type = "withdrawal"
      BY <2>7 DEF WithdrawTemplate, WalkEnds
    <3> QED
      BY <1>1, <2>1, <3>1 DEF Registered, Pending
  <2> QED
    BY <1>5, <2>2, <2>3, <2>4, <2>5, <2>6, <2>7 DEF Working
<1>6. ASSUME Send PROVE Known(s, id)'
  <2>1. pre.pc = "send" /\ sent' = sent /\ connected' = connected
    BY <1>6 DEF Send, exporter_vars
  <2> QED
    BY <1>1, <2>1 DEF Registered, Pending
<1>7. ASSUME Forward \/ SourceClosed \/ (\E o \in Odids : Serves(o)) \/ UNCHANGED vars
      PROVE  Known(s, id)'
  <2>1. pre' = pre /\ sent' = sent /\ connected' = connected
    BY <1>7 DEF Forward, SourceClosed, Serves, RemoveManager, TestReferences, ReleaseMessage, vars, exporter_vars
  <2> QED
    BY <1>1, <2>1 DEF Registered, Pending
<1> QED
  BY <1>2, <1>3, <1>4, <1>5, <1>6, <1>7 DEF Serves, Next, Exporter, Preprocessor, OutputManager, Working

\* A lookup for data of a registered source finds what the source has sent last.
LEMMA KnownFound ==
  ASSUME OwnershipInvariant, NEW s \in Sources, NEW id \in Ids, Known(s, id),
         NEW r \in Linked, record[r].key = s
  PROVE  /\ tm_record_get_template(r, id) # NULL
         /\ template[tm_record_get_template(r, id)].version = sent[s][id]
<1> USE DEF OwnershipInvariant
<1>1. PICK q \in Linked, t \in DOMAIN template :
        /\ record[q].key = s /\ Newest(record[q].templates, t)
        /\ template[t].id = id /\ template[t].version = sent[s][id]
  BY DEF Known
<1>2. q = r /\ r \in DOMAIN record
  BY <1>1, RecordNumbers DEF BaseInvariant, RecordInvariant, ListInvariant
<1> QED
  BY <1>1, <1>2, NewestFound

LEMMA NextDescribed ==
  ASSUME OwnershipInvariant, DescribedInvariant, [Next]_vars
  PROVE  DescribedInvariant'
<1> USE DEF OwnershipInvariant
<1>0. TypeOK /\ PointersInvariant /\ refused \subseteq refused'
  BY RefusedGrows DEF BaseInvariant, RecordInvariant
<1>1. ASSUME NEW s \in Sources, s \notin refused', NEW id \in Ids
      PROVE  (Registered(s) /\ sent[s][id] # Unsent /\ ~Pending(s, id) => Known(s, id))'
  BY <1>1, NextKnown
<1>2. ASSUME pre'.pc \in {"register", "count"}, NEW id \in Ids, id # pre'.item.id
      PROVE  sent'[pre'.source][id] = Unsent
  <2>1. CASE pre.pc # "idle" /\ pre'.source = pre.source /\ pre'.item = pre.item /\ pre.pc \in {"register", "count"}
    BY <1>0, <1>2, <2>1, SentStays DEF DescribedInvariant
  <2>2. CASE pre' = pre
    BY <1>2, <2>1, <2>2
  <2>3. CASE Working
    BY <1>0, <1>2, <2>1, <2>3, WorkGoesOn
  <2>4. ASSUME NEW s \in Sources, NEW item \in Items, ReceiveNew(s, item) PROVE sent'[pre'.source][id] = Unsent
    <3>1. /\ pre'.source = s /\ pre'.item = item /\ item.type = "template"
          /\ sent' = [sent EXCEPT ![s] = Described([i \in Ids |-> Unsent], item)]
      BY <2>4 DEF ReceiveNew
    <3>2. sent'[s] = [[i \in Ids |-> Unsent] EXCEPT ![item.id] = item.version]
      BY <1>0, <3>1 DEF Described, TypeOK
    <3> QED
      BY <1>2, <3>1, <3>2
  <2>5. ASSUME NEW s \in Sources, NEW item \in Items, ReceivePacket(s, item) PROVE FALSE
    BY <1>2, <2>5 DEF ReceivePacket
  <2>6. ASSUME Send PROVE FALSE
    BY <1>2, <2>6 DEF Send, Idle
  <2>7. ASSUME \/ \E s \in Sources : ReceiveClosed(s)
               \/ Forward \/ SourceClosed \/ (\E o \in Odids : Serves(o))
               \/ UNCHANGED vars
        PROVE  pre' = pre
    BY <2>7 DEF ReceiveClosed, Forward, SourceClosed, Serves, RemoveManager, TestReferences, ReleaseMessage, vars
  <2> QED
    BY <2>2, <2>3, <2>4, <2>5, <2>6, <2>7 DEF Next, Exporter, Preprocessor, OutputManager, Working, Serves
<1>3. ASSUME pre'.pc \in {"couple", "send"}, pre'.item.type = "data", pre'.source \notin refused'
      PROVE  pre'.cur # NULL /\ template'[pre'.cur].version = sent'[pre'.source][pre'.item.id]
  <2>1. CASE pre' = pre \/ (CoupleData /\ pre'.cur = pre.cur /\ pre'.source = pre.source /\ pre'.item = pre.item)
    <3>1. pre.pc \in {"couple", "send"} /\ pre.pc # "idle"
      BY <1>3, <2>1 DEF CoupleData
    <3>2. /\ pre'.cur = pre.cur /\ pre'.source = pre.source /\ pre'.item = pre.item /\ sent' = sent
      BY <1>0, <2>1, <3>1, SentStays
    <3>3. pre.cur # NULL /\ template[pre.cur].version = sent[pre.source][pre.item.id]
      BY <1>0, <1>3, <3>1, <3>2 DEF DescribedInvariant
    <3>4. pre.cur \in DOMAIN template
      BY <1>0, <3>1, <3>3 DEF PointersInvariant
    <3> QED
      BY <3>2, <3>3, <3>4, TemplatesStay
  <2>2. CASE GetTemplate /\ pre'.cur = Current /\ pre'.source = pre.source /\ pre'.item = pre.item
    <3>1. WalkEnds /\ pre.item.type = "data" /\ template' = template /\ sent' = sent /\ pre.pc # "idle"
      BY <2>2 DEF GetTemplate, WalkEnds, manager_vars, exporter_vars
    <3>2. PICK s \in Sources \ refused, id \in Ids : s = pre.source /\ id = pre.item.id
      BY <1>0, <1>3, <2>2, <3>1, TaskType
    <3>3. pre.cur \in Linked /\ record[pre.cur].key = s /\ Registered(s)
      BY <3>1, <3>2, WalkedTo
    <3>4. sent[s][id] # Unsent /\ ~Pending(s, id)
      BY <3>1, <3>2 DEF SessionInvariant, WorkInvariant, Pending
    <3>5. Known(s, id)
      BY <3>3, <3>4 DEF DescribedInvariant
    <3>6. Current # NULL /\ template[Current].version = sent[s][id]
      BY <3>2, <3>3, <3>5, KnownFound DEF Current
    <3> QED
      BY <2>2, <3>1, <3>2, <3>6
  <2> QED
    BY <1>3, <2>1, <2>2, TakesTemplate
<1>4. ASSUME pre'.pc = "couple" PROVE pre'.item.type = "data"
  BY <1>4, TakesTemplate DEF DescribedInvariant, GetTemplate
<1>5. ASSUME NEW x \in Messages', x.type = "data", x.source \notin refused'
      PROVE  x.template # NULL /\ template'[x.template].version = x.described
  <2>1. CASE x \in Messages
    <3>1. x.template # NULL /\ template[x.template].version = x.described
      BY <1>0, <1>5, <2>1 DEF DescribedInvariant, DecodedAsDescribed
    <3>2. x.template \in DOMAIN template
      BY <1>0, <2>1, <3>1, MessagesAre DEF PointersInvariant
    <3> QED
      BY <3>1, <3>2, TemplatesStay
  <2>2. CASE Send /\ x = Sent
    <3>1. pre.item.type = "data" /\ pre.pc = "send" /\ template' = template
      BY <1>5, <2>2 DEF Sent, Send, manager_vars
    <3>2. pre.cur # NULL /\ template[pre.cur].version = sent[pre.source][pre.item.id]
      BY <1>0, <1>5, <2>2, <3>1 DEF DescribedInvariant, Sent
    <3> QED
      BY <2>2, <3>1, <3>2 DEF Sent
  <2> QED
    BY <1>5, <2>1, <2>2, NewMessages
<1>7. ASSUME pre'.pc # "idle", pre'.item.type = "withdrawal"
      PROVE  sent'[pre'.source][pre'.item.id] = Unsent
  <2>1. CASE pre.pc # "idle" /\ pre'.source = pre.source /\ pre'.item = pre.item
    BY <1>0, <1>7, <2>1, SentStays DEF DescribedInvariant
  <2>2. CASE Working
    BY <1>0, <2>1, <2>2, WorkGoesOn
  <2>3. ASSUME NEW s \in Sources, NEW item \in Items, ReceiveNew(s, item) PROVE FALSE
    BY <1>7, <2>3 DEF ReceiveNew
  <2>4. ASSUME NEW s \in Sources, NEW item \in Items, ReceivePacket(s, item)
        PROVE  sent'[pre'.source][pre'.item.id] = Unsent
    <3>1. /\ pre'.source = s /\ pre'.item = item /\ item.type = "withdrawal"
          /\ sent' = [sent EXCEPT ![s] = Described(sent[s], item)]
      BY <1>7, <2>4 DEF ReceivePacket
    <3>2. item.id \in Ids /\ sent \in [Sources -> [Ids -> Versions \cup {Unsent}]]
      BY <1>0, TemplateAssumption DEF Items, TypeOK
    <3>3. Described(sent[s], item) = [sent[s] EXCEPT ![item.id] = Unsent]
      BY <3>1 DEF Described
    <3>4. sent'[s][item.id] = Unsent
      BY <3>1, <3>2, <3>3
    <3> QED
      BY <3>1, <3>4
  <2>5. ASSUME Send PROVE FALSE
    BY <1>7, <2>5 DEF Send, Idle
  <2>6. ASSUME \/ \E s \in Sources : ReceiveClosed(s)
               \/ Forward \/ SourceClosed \/ (\E o \in Odids : Serves(o)) \/ UNCHANGED vars
        PROVE  pre' = pre
    BY <2>6 DEF ReceiveClosed, Forward, SourceClosed, Serves, RemoveManager, TestReferences,
                ReleaseMessage, vars
  <2> QED
    BY <1>7, <2>1, <2>2, <2>3, <2>4, <2>5, <2>6
       DEF Next, Exporter, Preprocessor, OutputManager, Working, Serves
<1>6. DecodedAsDescribed'
  BY <1>5 DEF DecodedAsDescribed
<1> QED
  BY <1>1, <1>2, <1>3, <1>4, <1>6, <1>7 DEF DescribedInvariant
-----------------------------------------------------------------------------
(***************************************************************************)
(* The theorems.                                                           *)
(***************************************************************************)

LEMMA InitTemplates == Init => TemplateInvariant
<1> SUFFICES ASSUME Init PROVE TemplateInvariant
  OBVIOUS
<1>1. /\ pre.pc = "idle" /\ pipe = <<>> /\ template = <<>>
      /\ \A o \in Odids : store_queue[o] = <<>>
      /\ \A s \in Sources : ~connected[s]
  BY DEF Init, Idle
<1>2. \A m \in Messages : FALSE
  BY <1>1, MessagesAre
<1>3. HeldInvariant
  BY <1>1, <1>2 DEF HeldInvariant
<1>4. ReferencesCounted
  BY <1>1 DEF ReferencesCounted
<1>5. DescribedInvariant
  BY <1>1, <1>2 DEF DescribedInvariant, DecodedAsDescribed, Registered
<1> QED
  BY <1>3, <1>4, <1>5 DEF TemplateInvariant

\* Messages hold templates that are in the record of their source, unless the
\* template was withdrawn or a registration of the source has failed; every
\* reference to an allocated template is counted; and the record of a connected
\* source, none of whose registrations failed, has what the source sent last.
THEOREM TemplatesHeld == Spec => [](OwnershipInvariant /\ TemplateInvariant)
<1>1. Init => TemplateInvariant
  BY InitTemplates
<1>2. OwnershipInvariant /\ TemplateInvariant /\ [Next]_vars => TemplateInvariant'
  <2> SUFFICES ASSUME OwnershipInvariant, TemplateInvariant, [Next]_vars
               PROVE  TemplateInvariant'
    OBVIOUS
  <2>1. BaseInvariant /\ HeldInvariant /\ ReferencesCounted /\ DescribedInvariant
    BY DEF OwnershipInvariant, TemplateInvariant
  <2> QED
    BY <2>1, NextHeld, NextReferences, NextDescribed DEF TemplateInvariant
<1> QED
  BY <1>1, <1>2, TemplatesOwned, PTL DEF Spec

\* The template of a message stays allocated until the storage plugins have
\* released the message: neither an update of the template nor the removal of
\* the templates of a closed Data Manager frees what a message holds.  Only a
\* withdrawal does, or a removal after a registration of the source failed.
THEOREM MessageTemplateAliveCorrect == Spec => []MessageTemplateAlive
<1>1. OwnershipInvariant /\ TemplateInvariant => MessageTemplateAlive
  <2> SUFFICES ASSUME OwnershipInvariant, HeldInvariant, NEW m \in Messages,
                      m.source \notin refused, m.template \notin withdrawn
               PROVE  m.template \notin freed_templates
    BY DEF MessageTemplateAlive, TemplateInvariant
  <2>0. TypeOK /\ SlotsInvariant
    BY DEF OwnershipInvariant, BaseInvariant, RecordInvariant
  <2>1. CASE m.template = NULL
    BY <2>0, <2>1, TemplateNumbers DEF TypeOK
  <2>2. CASE m.template # NULL
    <3>1. PICK r \in Linked : Has(r, m.template)
      BY <2>2 DEF HeldInvariant, Holds, Kept
    <3>2. m.template \in DOMAIN template
      BY <2>0, <3>1, RecordNumbers DEF Has, Stored, SlotsInvariant
    <3> QED
      BY <3>1, <3>2 DEF OwnershipInvariant, OwnedInvariant
  <2> QED
    BY <2>1, <2>2
<1> QED
  BY <1>1, TemplatesHeld, PTL

\* tm_template_reference_inc and tm_template_reference_dec, whose test and
\* decrement are two steps, keep the number of messages that hold an allocated
\* template, on their way through both queues.
THEOREM ReferencesCountedCorrect == Spec => []ReferencesCounted
<1>1. OwnershipInvariant /\ TemplateInvariant => ReferencesCounted
  BY DEF TemplateInvariant
<1> QED
  BY <1>1, TemplatesHeld, PTL

\* Data of a source, none of whose registrations failed, is coupled with the
\* template the source described it by, whatever the source sends or withdraws
\* before the storage plugins get the data.
THEOREM DecodedAsDescribedCorrect == Spec => []DecodedAsDescribed
<1>1. OwnershipInvariant /\ TemplateInvariant => DecodedAsDescribed
  BY DEF TemplateInvariant, DescribedInvariant
<1> QED
  BY <1>1, TemplatesHeld, PTL

\* The templates a connected source has sent and not withdrawn are in the
\* manager, in their last version, whatever Data Managers are closed meanwhile,
\* unless a registration of the source has failed.
THEOREM SourceTemplatesKeptCorrect == Spec => []SourceTemplatesKept
<1>1. OwnershipInvariant /\ TemplateInvariant => SourceTemplatesKept
  <2> SUFFICES ASSUME OwnershipInvariant, TemplateInvariant, NEW s \in Sources \ refused,
                      NEW i \in Ids, pre = Idle, connected[s], sent[s][i] # Unsent
               PROVE  LET t == tm_record_get_template(tm_record_lookup(s), i)
                      IN  t # NULL /\ template[t].version = sent[s][i]
    BY DEF SourceTemplatesKept, TemplatesFound
  <2>1. Registered(s) /\ ~Pending(s, i)
    BY DEF Registered, Pending, Idle
  <2>2. Known(s, i)
    BY <2>1 DEF TemplateInvariant, DescribedInvariant
  <2>3. tm_record_lookup(s) \in Linked /\ record[tm_record_lookup(s)].key = s
    BY <2>1, RegisteredHasRecord DEF OwnershipInvariant
  <2> QED
    BY <2>2, <2>3, KnownFound
<1> QED
  BY <1>1, TemplatesHeld, PTL

=============================================================================
