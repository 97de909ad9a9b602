------------------------- MODULE TemplateMapperProofs -------------------------
(***************************************************************************)
(* Proofs about TemplateMapper for any exporters, domains, IDs, templates  *)
(* and numbers of messages and records.                                    *)
(***************************************************************************)
EXTENDS TemplateMapper, TLAPS, FiniteSetTheorems, WellFoundedInduction

(***************************************************************************)
(* The definitions of TemplateMapper that read the state, with the state   *)
(* as their argument: the lemmas on the structures are about these.        *)
(***************************************************************************)

MapOf(m) == IF m = NULL THEN NoMapping ELSE m

UsersIn(src, o) ==
  [i \in Ids |-> {u \in Sources \X PrivateIds :
                    OdidOf[u[1]] = o /\ MapOf(src[u[1]])[u[2]] = i}]

\* The maps of the sources when exporter s maps p to id, or to none (0).
Remap(src, s, p, id) == [src EXCEPT ![s] = [MapOf(src[s]) EXCEPT ![p] = id]]

\* Exporter s gives up its mappings of the IDs in ps.
GivesUp(U, V, s, map, ps) ==
  \A i \in Ids : V[i] = U[i] \ {<<s, p>> : p \in {q \in ps : map[q] = i}}

Unreferenced(odid) == {i \in Stored(odid) : odid.tmplts[i].ref_cnt = 0}

NormalOf(odid) == {i \in Stored(odid) : odid.tmplts[i].rec \notin Options}

OptionsOf(odid) == {i \in Stored(odid) : odid.tmplts[i].rec \in Options}

\* The counters of a domain whose template i is used by the mappings U[i].
Agrees(odid, U) ==
  /\ \A i \in Stored(odid) : odid.tmplts[i].ref_cnt = Cardinality(U[i])
  /\ odid.to_remove = Cardinality(Unreferenced(odid))
  /\ odid.templates_normal = Cardinality(NormalOf(odid))
  /\ odid.templates_options = Cardinality(OptionsOf(odid))

DomainOf(odid) ==
  [i \in Ids |-> IF odid.tmplts[i] = NULL THEN NULL ELSE odid.tmplts[i].rec]

(***************************************************************************)
(* The inductive invariant.                                                *)
(***************************************************************************)

\* What the receiver has of a domain once the records of the message under
\* construction reach it.
ViewOf(o) == IF msg # NULL /\ OdidOf[msg.src] = o THEN msg.view ELSE known[o]

\* The message under construction has changed the domain, and the withdrawals
\* at its end are still to come.
Changing(o) == msg # NULL /\ OdidOf[msg.src] = o /\ msg.any_templates

\* A mapping leads to a stored template with the definition of the exporter,
\* even that of a source whose domain was freed: there it has none left.
MappedStored ==
  \A s \in Sources, p \in PrivateIds : Mapping(s)[p] # 0 =>
    /\ maintainers[OdidOf[s]] # NULL
    /\ Mapping(s)[p] \in Stored(maintainers[OdidOf[s]])
    /\ maintainers[OdidOf[s]].tmplts[Mapping(s)[p]].rec = defined[s][p]

\* The receiver knows every stored template, and no other as long as the
\* domain was never freed.
Announced ==
  \A o \in Odids :
    /\ maintainers[o] # NULL =>
         \A i \in Stored(maintainers[o]) :
           ViewOf(o)[i] = maintainers[o].tmplts[i].rec
    /\ ~Lost(o) => ViewOf(o) = Domain(o)

\* Outside a message with templates nothing below the last ID waits for its
\* withdrawal.
UnusedWithdrawn ==
  \A o \in Odids : maintainers[o] # NULL /\ ~Changing(o) =>
    \A i \in Stored(maintainers[o]) :
      i < MaxId => maintainers[o].tmplts[i].ref_cnt # 0

\* A message with templates has its source and its domain.
MessageStored ==
  msg # NULL /\ msg.any_templates =>
    sources[msg.src] # NULL /\ maintainers[OdidOf[msg.src]] # NULL

DataAsMeant ==
  /\ \A pair \in decoded : pair[1] = pair[2]
  /\ msg # NULL => \A pair \in msg.data : pair[1] = pair[2]

IInv ==
  /\ TypeOK
  /\ CountersAgree
  /\ MappedStored
  /\ Announced
  /\ UnusedWithdrawn
  /\ MessageStored
  /\ DataAsMeant

-----------------------------------------------------------------------------
(***************************************************************************)
(* The structures.                                                         *)
(***************************************************************************)

\* Sets of IDs are finite.
LEMMA IdsFinite ==
  ASSUME NEW S, S \subseteq Ids
  PROVE  IsFiniteSet(S) /\ Cardinality(S) \in Nat
<1>1. IsFiniteSet(Ids)
  BY FS_Interval, MapperAssumption DEF Ids
<1>2. IsFiniteSet(S)
  BY <1>1, FS_Subset
<1> QED
  BY <1>2, FS_CardinalityType

\* Sets of mappings are finite.
LEMMA UsersFinite ==
  ASSUME NEW S, S \subseteq Sources \X PrivateIds
  PROVE  IsFiniteSet(S) /\ Cardinality(S) \in Nat
<1>1. IsFiniteSet(PrivateIds)
  BY IdsFinite, MapperAssumption
<1>2. IsFiniteSet(Sources \X PrivateIds)
  BY <1>1, FS_Product, MapperAssumption
<1>3. IsFiniteSet(S)
  BY <1>2, FS_Subset
<1> QED
  BY <1>3, FS_CardinalityType

\* A set of IDs that is not empty has a lowest one.
LEMMA LowestId ==
  ASSUME NEW S, S \subseteq Ids, S # {}
  PROVE  Lowest(S) \in S
<1>1. S \subseteq Nat
  BY MapperAssumption DEF Ids
<1>2. PICK x \in S : \A y \in S : ~(<<y, x>> \in OpToRel(<, Nat))
  BY <1>1, WFMin, NatLessThanWellFounded, Zenon
<1>3. \A y \in S : ~(y < x)
  BY <1>1, <1>2 DEF OpToRel
<1>4. \E i \in S : \A j \in S : i <= j
  BY <1>1, <1>3
<1> QED
  BY <1>4 DEF Lowest

\* An ID that is given to a new template is free.
LEMMA UnusedId ==
  ASSUME NEW odid, NEW hint, fwd_odid_template_unused_id(odid, hint) # 0
  PROVE  fwd_odid_template_unused_id(odid, hint) \in Ids \ Stored(odid)
<1> DEFINE free == Ids \ Stored(odid)
<1>1. free # {} => Lowest(free) \in free
  BY LowestId
<1> QED
  BY <1>1 DEF fwd_odid_template_unused_id

\* A template that is found has the definition looked for.
LEMMA FoundId ==
  ASSUME NEW odid, NEW d, fwd_odid_template_find(odid, d) # 0
  PROVE  /\ fwd_odid_template_find(odid, d) \in Stored(odid)
         /\ odid.tmplts[fwd_odid_template_find(odid, d)].rec = d
<1> DEFINE same == {i \in Stored(odid) : odid.tmplts[i].rec = d}
<1>1. same \subseteq Ids
  BY DEF Stored
<1>2. same # {} => Lowest(same) \in same
  BY <1>1, LowestId
<1> QED
  BY <1>2 DEF fwd_odid_template_find

\* A template that loses one of its mappings (fwd_odid_template_decrement).
LEMMA DecrementAgrees ==
  ASSUME NEW odid \in Maintainers, NEW id \in Stored(odid),
         NEW U, NEW V, NEW x \in U[id],
         IsFiniteSet(U[id]), Agrees(odid, U),
         V[id] = U[id] \ {x}, \A i \in Ids \ {id} : V[i] = U[i]
  PROVE  LET new == fwd_odid_template_decrement(odid, id) IN
         /\ new \in Maintainers
         /\ Agrees(new, V)
         /\ DomainOf(new) = DomainOf(odid)
         /\ Stored(new) = Stored(odid)
         /\ \A i \in Ids \ {id} : new.tmplts[i] = odid.tmplts[i]
<1> DEFINE new == fwd_odid_template_decrement(odid, id)
           t == odid.tmplts
<1>1. id \in Ids /\ t[id] \in Templates /\ t[id] # NULL
  BY NullAssumption DEF Stored, Maintainers
<1>2. /\ Cardinality(U[id]) \in Nat \ {0}
      /\ Cardinality(V[id]) = Cardinality(U[id]) - 1
  <2>1. Cardinality(U[id]) \in Nat /\ Cardinality(U[id]) # 0
    BY FS_CardinalityType, FS_EmptySet
  <2>2. Cardinality(U[id] \ {x}) = Cardinality(U[id]) - 1
    BY FS_RemoveElement
  <2> QED
    BY <2>1, <2>2
<1>3. t[id].ref_cnt \in Nat \ {0} /\ t[id].ref_cnt = Cardinality(U[id])
  BY <1>2 DEF Agrees
<1>4. new.tmplts = [t EXCEPT ![id] = [rec |-> t[id].rec, ref_cnt |-> t[id].ref_cnt - 1]]
  BY <1>1 DEF fwd_odid_template_decrement, Maintainers, Templates
<1>5. /\ new.to_remove = odid.to_remove + (IF t[id].ref_cnt = 1 THEN 1 ELSE 0)
      /\ new.templates_normal = odid.templates_normal
      /\ new.templates_options = odid.templates_options
  BY DEF fwd_odid_template_decrement, Maintainers
<1>6. new \in Maintainers
  <2> DEFINE T == [t EXCEPT ![id].ref_cnt = @ - 1]
             n == odid.to_remove + (IF t[id].ref_cnt = 1 THEN 1 ELSE 0)
  <2>1. new = [odid EXCEPT !.to_remove = n, !.tmplts = T]
    BY DEF fwd_odid_template_decrement, Maintainers
  <2>2. T \in [Ids -> Templates \cup {NULL}] /\ n \in Nat
    BY <1>1, <1>3 DEF Maintainers, Templates
  <2> HIDE DEF T, n, new
  <2> QED
    BY <2>1, <2>2 DEF Maintainers
<1>7. new.tmplts[id] \in Templates /\ new.tmplts[id] # NULL
  BY <1>1, <1>3, <1>4, NullAssumption DEF Templates, Maintainers
<1>8. \A i \in Ids \ {id} : new.tmplts[i] = t[i]
  BY <1>1, <1>4 DEF Maintainers
<1>9. Stored(new) = Stored(odid)
  BY <1>1, <1>7, <1>8 DEF Stored
<1>10. DomainOf(new) = DomainOf(odid)
  <2>1. new.tmplts[id].rec = t[id].rec
    BY <1>1, <1>4 DEF Maintainers
  <2> QED
    BY <1>1, <1>7, <1>8, <2>1 DEF DomainOf
<1>11. \A i \in Stored(odid) : new.tmplts[i].rec = t[i].rec
  BY <1>1, <1>4, <1>8 DEF Maintainers, Stored
<1>12. NormalOf(new) = NormalOf(odid) /\ OptionsOf(new) = OptionsOf(odid)
  BY <1>9, <1>11 DEF NormalOf, OptionsOf
<1>13. new.to_remove = Cardinality(Unreferenced(new))
  <2>1. new.tmplts[id].ref_cnt = t[id].ref_cnt - 1
    BY <1>1, <1>4 DEF Maintainers
  <2>2. IsFiniteSet(Unreferenced(odid)) /\ Cardinality(Unreferenced(odid)) \in Nat
    BY IdsFinite DEF Unreferenced, Stored
  <2>3. id \notin Unreferenced(odid)
    BY <1>3 DEF Unreferenced
  <2>4. CASE t[id].ref_cnt = 1
    <3>1. Unreferenced(new) = Unreferenced(odid) \cup {id}
      <4>1. new.tmplts[id].ref_cnt = 0
        BY <2>1, <2>4
      <4> HIDE DEF new
      <4> QED
        BY <1>8, <1>9, <4>1 DEF Unreferenced, Stored
    <3>2. Cardinality(Unreferenced(odid) \cup {id}) =
            Cardinality(Unreferenced(odid)) + 1
      BY <2>2, <2>3, FS_AddElement
    <3> QED
      BY <3>1, <3>2, <2>4, <1>5 DEF Agrees
  <2>5. CASE t[id].ref_cnt # 1
    <3>1. Unreferenced(new) = Unreferenced(odid)
      <4>1. new.tmplts[id].ref_cnt # 0 /\ t[id].ref_cnt # 0
        BY <1>3, <2>1, <2>5
      <4> QED
        BY <1>8, <1>9, <4>1 DEF Unreferenced, Stored
    <3> QED
      BY <3>1, <2>2, <2>5, <1>5 DEF Agrees
  <2> QED
    BY <2>4, <2>5
<1>14. \A i \in Stored(new) : new.tmplts[i].ref_cnt = Cardinality(V[i])
  <2>1. new.tmplts[id].ref_cnt = t[id].ref_cnt - 1
    BY <1>1, <1>4 DEF Maintainers
  <2>2. \A i \in Stored(odid) : i \in Ids /\ t[i].ref_cnt = Cardinality(U[i])
    BY DEF Agrees, Stored
  <2> QED
    BY <1>2, <1>3, <1>8, <1>9, <2>1, <2>2
<1>15. Agrees(new, V)
  BY <1>5, <1>12, <1>13, <1>14 DEF Agrees
<1> QED
  BY <1>6, <1>8, <1>9, <1>10, <1>15

\* A template that gets one more mapping (fwd_odid_template_increment).
LEMMA IncrementAgrees ==
  ASSUME NEW odid \in Maintainers, NEW id \in Stored(odid),
         NEW U, NEW V, NEW x, x \notin U[id],
         IsFiniteSet(U[id]), Agrees(odid, U),
         V[id] = U[id] \cup {x}, \A i \in Ids \ {id} : V[i] = U[i]
  PROVE  LET new == fwd_odid_template_increment(odid, id) IN
         /\ new \in Maintainers
         /\ Agrees(new, V)
         /\ DomainOf(new) = DomainOf(odid)
         /\ Stored(new) = Stored(odid)
<1> DEFINE new == fwd_odid_template_increment(odid, id)
           t == odid.tmplts
<1>1. id \in Ids /\ t[id] \in Templates /\ t[id] # NULL
  BY NullAssumption DEF Stored, Maintainers
<1>2. /\ Cardinality(U[id]) \in Nat
      /\ Cardinality(V[id]) = Cardinality(U[id]) + 1
  <2>1. Cardinality(U[id]) \in Nat
    BY FS_CardinalityType
  <2>2. Cardinality(U[id] \cup {x}) = Cardinality(U[id]) + 1
    BY FS_AddElement
  <2> QED
    BY <2>1, <2>2
<1>3. t[id].ref_cnt \in Nat /\ t[id].ref_cnt = Cardinality(U[id])
  BY <1>2 DEF Agrees
<1>4. new.tmplts = [t EXCEPT ![id] = [rec |-> t[id].rec, ref_cnt |-> t[id].ref_cnt + 1]]
  BY <1>1 DEF fwd_odid_template_increment, Maintainers, Templates
<1>5. /\ new.to_remove = odid.to_remove - (IF t[id].ref_cnt = 0 THEN 1 ELSE 0)
      /\ new.templates_normal = odid.templates_normal
      /\ new.templates_options = odid.templates_options
  BY DEF fwd_odid_template_increment, Maintainers
<1>6. new.tmplts[id] \in Templates /\ new.tmplts[id] # NULL
  BY <1>1, <1>3, <1>4, NullAssumption DEF Templates, Maintainers
<1>7. \A i \in Ids \ {id} : new.tmplts[i] = t[i]
  BY <1>1, <1>4 DEF Maintainers
<1>8. Stored(new) = Stored(odid)
  BY <1>1, <1>6, <1>7 DEF Stored
<1>9. /\ new.tmplts[id].ref_cnt = t[id].ref_cnt + 1
      /\ new.tmplts[id].rec = t[id].rec
  BY <1>1, <1>4 DEF Maintainers
<1>10. DomainOf(new) = DomainOf(odid)
  BY <1>1, <1>6, <1>7, <1>9 DEF DomainOf
<1>11. NormalOf(new) = NormalOf(odid) /\ OptionsOf(new) = OptionsOf(odid)
  BY <1>7, <1>8, <1>9 DEF NormalOf, OptionsOf, Stored
<1>12. /\ new.to_remove = Cardinality(Unreferenced(new))
       /\ new.to_remove \in Nat
  <2>1. /\ IsFiniteSet(Unreferenced(odid))
        /\ Cardinality(Unreferenced(odid)) \in Nat
    BY IdsFinite DEF Unreferenced, Stored
  <2>2. Unreferenced(new) = Unreferenced(odid) \ {id}
    <3>1. new.tmplts[id].ref_cnt # 0
      BY <1>3, <1>9
    <3> QED
      BY <1>7, <1>8, <3>1 DEF Unreferenced, Stored
  <2>3. id \in Unreferenced(odid) <=> t[id].ref_cnt = 0
    BY DEF Unreferenced
  <2>4. Cardinality(Unreferenced(odid) \ {id}) =
          IF t[id].ref_cnt = 0 THEN odid.to_remove - 1 ELSE odid.to_remove
    BY <2>1, <2>3, FS_RemoveElement DEF Agrees
  <2>5. Cardinality(Unreferenced(new)) \in Nat
    BY IdsFinite DEF Unreferenced, Stored
  <2> HIDE DEF new
  <2> QED
    BY <2>2, <2>4, <2>5, <1>5 DEF Maintainers
<1>13. new \in Maintainers
  <2> DEFINE T == [t EXCEPT ![id].ref_cnt = @ + 1]
             n == odid.to_remove - (IF t[id].ref_cnt = 0 THEN 1 ELSE 0)
  <2>1. new = [odid EXCEPT !.to_remove = n, !.tmplts = T]
    BY DEF fwd_odid_template_increment, Maintainers
  <2>2. T \in [Ids -> Templates \cup {NULL}] /\ n \in Nat
    BY <1>1, <1>3, <1>5, <1>12 DEF Maintainers, Templates
  <2> HIDE DEF T, n, new
  <2> QED
    BY <2>1, <2>2 DEF Maintainers
<1>14. \A i \in Stored(new) : new.tmplts[i].ref_cnt = Cardinality(V[i])
  <2>1. \A i \in Stored(odid) : i \in Ids /\ t[i].ref_cnt = Cardinality(U[i])
    BY DEF Agrees, Stored
  <2> HIDE DEF new
  <2> QED
    BY <1>2, <1>3, <1>7, <1>8, <1>9, <2>1
<1>15. Agrees(new, V)
  BY <1>5, <1>11, <1>12, <1>14 DEF Agrees
<1> QED
  BY <1>8, <1>10, <1>13, <1>15

\* A new template (fwd_odid_template_insert).
LEMMA InsertAgrees ==
  ASSUME NEW odid \in Maintainers, NEW id \in Ids \ Stored(odid),
         NEW d \in Definitions, NEW U, U[id] = {}, Agrees(odid, U)
  PROVE  LET new == fwd_odid_template_insert(odid, id, d) IN
         /\ new \in Maintainers
         /\ Agrees(new, U)
         /\ DomainOf(new) = [DomainOf(odid) EXCEPT ![id] = d]
         /\ Stored(new) = Stored(odid) \cup {id}
         /\ \A i \in Stored(odid) : new.tmplts[i] = odid.tmplts[i]
         /\ new.tmplts[id].rec = d
<1> DEFINE new == fwd_odid_template_insert(odid, id, d)
           t == odid.tmplts
           T == [t EXCEPT ![id] = [rec |-> d, ref_cnt |-> 0]]
           n == odid.to_remove + 1
           norm == odid.templates_normal + (IF d \in Options THEN 0 ELSE 1)
           opts == odid.templates_options + (IF d \in Options THEN 1 ELSE 0)
<1>1. new = [odid EXCEPT !.tmplts = T, !.to_remove = n,
                         !.templates_normal = norm, !.templates_options = opts]
  BY DEF fwd_odid_template_insert, Maintainers
<1>2. /\ T \in [Ids -> Templates \cup {NULL}]
      /\ n \in Nat /\ norm \in Nat /\ opts \in Nat
  BY DEF Maintainers, Templates
<1>3. /\ T[id].rec = d /\ T[id].ref_cnt = 0 /\ T[id] # NULL
      /\ \A i \in Ids \ {id} : T[i] = t[i]
  BY NullAssumption DEF Maintainers, Templates
<1>4. t[id] = NULL
  BY DEF Stored
<1>5. /\ IsFiniteSet(Unreferenced(odid)) /\ IsFiniteSet(NormalOf(odid))
      /\ IsFiniteSet(OptionsOf(odid))
  BY IdsFinite DEF Unreferenced, NormalOf, OptionsOf, Stored
<1> HIDE DEF T, n, norm, opts, new
<1>6. /\ new.tmplts = T /\ new.to_remove = n
      /\ new.templates_normal = norm /\ new.templates_options = opts
      /\ new \in Maintainers
  BY <1>1, <1>2 DEF Maintainers
<1>7. Stored(new) = Stored(odid) \cup {id}
  BY <1>3, <1>6 DEF Stored
<1>8. \A i \in Stored(odid) : new.tmplts[i] = t[i] /\ i # id
  BY <1>3, <1>4, <1>6 DEF Stored
<1>9. DomainOf(new) = [DomainOf(odid) EXCEPT ![id] = d]
  BY <1>3, <1>6 DEF DomainOf
<1>10. new.to_remove = Cardinality(Unreferenced(new))
  <2>1. Unreferenced(new) = Unreferenced(odid) \cup {id}
    BY <1>3, <1>6, <1>7, <1>8 DEF Unreferenced
  <2>2. id \notin Unreferenced(odid)
    BY DEF Unreferenced
  <2>3. Cardinality(Unreferenced(odid) \cup {id}) = Cardinality(Unreferenced(odid)) + 1
    BY <1>5, <2>2, FS_AddElement
  <2> QED
    BY <1>6, <2>1, <2>3 DEF Agrees, n
<1>11. new.templates_normal = Cardinality(NormalOf(new))
  <2>1. CASE d \in Options
    <3>1. NormalOf(new) = NormalOf(odid)
      BY <1>3, <1>6, <1>7, <1>8, <2>1 DEF NormalOf
    <3> QED
      BY <1>6, <2>1, <3>1 DEF Agrees, norm, Maintainers
  <2>2. CASE d \notin Options
    <3>1. NormalOf(new) = NormalOf(odid) \cup {id}
      BY <1>3, <1>6, <1>7, <1>8, <2>2 DEF NormalOf
    <3>2. id \notin NormalOf(odid)
      BY DEF NormalOf
    <3>3. Cardinality(NormalOf(odid) \cup {id}) = Cardinality(NormalOf(odid)) + 1
      BY <1>5, <3>2, FS_AddElement
    <3> QED
      BY <1>6, <2>2, <3>1, <3>3 DEF Agrees, norm
  <2> QED
    BY <2>1, <2>2
<1>12. new.templates_options = Cardinality(OptionsOf(new))
  <2>1. CASE d \notin Options
    <3>1. OptionsOf(new) = OptionsOf(odid)
      BY <1>3, <1>6, <1>7, <1>8, <2>1 DEF OptionsOf
    <3> QED
      BY <1>6, <2>1, <3>1 DEF Agrees, opts, Maintainers
  <2>2. CASE d \in Options
    <3>1. OptionsOf(new) = OptionsOf(odid) \cup {id}
      BY <1>3, <1>6, <1>7, <1>8, <2>2 DEF OptionsOf
    <3>2. id \notin OptionsOf(odid)
      BY DEF OptionsOf
    <3>3. Cardinality(OptionsOf(odid) \cup {id}) = Cardinality(OptionsOf(odid)) + 1
      BY <1>5, <3>2, FS_AddElement
    <3> QED
      BY <1>6, <2>2, <3>1, <3>3 DEF Agrees, opts
  <2> QED
    BY <2>1, <2>2
<1>13. \A i \in Stored(new) : new.tmplts[i].ref_cnt = Cardinality(U[i])
  BY <1>3, <1>6, <1>7, <1>8, FS_EmptySet DEF Agrees
<1>14. Agrees(new, U)
  BY <1>10, <1>11, <1>12, <1>13 DEF Agrees
<1> QED
  BY <1>3, <1>6, <1>7, <1>8, <1>9, <1>14 DEF new

\* Templates without mappings that are removed (fwd_odid_template_remove).
LEMMA RemovedAgrees ==
  ASSUME NEW odid \in Maintainers, NEW U, Agrees(odid, U),
         NEW ids, ids \subseteq Unreferenced(odid)
  PROVE  LET new == Removed(odid, ids) IN
         /\ new \in Maintainers
         /\ Agrees(new, U)
         /\ DomainOf(new) = Withdrawn(DomainOf(odid), ids)
         /\ Stored(new) = Stored(odid) \ ids
         /\ \A i \in Stored(new) : new.tmplts[i] = odid.tmplts[i]
<1> DEFINE new == Removed(odid, ids)
           t == odid.tmplts
           T == [i \in Ids |-> IF i \in ids THEN NULL ELSE t[i]]
           options == {i \in ids : t[i].rec \in Options}
           n == odid.to_remove - Cardinality(ids)
           norm == odid.templates_normal - Cardinality(ids \ options)
           opts == odid.templates_options - Cardinality(options)
<1>1. new = [odid EXCEPT !.tmplts = T, !.to_remove = n,
                         !.templates_normal = norm, !.templates_options = opts]
  BY DEF Removed, Maintainers
<1>2. ids \subseteq Stored(odid) /\ Stored(odid) \subseteq Ids
  BY DEF Unreferenced, Stored
<1>3. /\ options = ids \cap OptionsOf(odid)
      /\ ids \ options = ids \cap NormalOf(odid)
  BY <1>2 DEF OptionsOf, NormalOf
<1>4. /\ IsFiniteSet(Unreferenced(odid)) /\ IsFiniteSet(NormalOf(odid))
      /\ IsFiniteSet(OptionsOf(odid))
  BY IdsFinite DEF Unreferenced, NormalOf, OptionsOf, Stored
<1>5. /\ n = Cardinality(Unreferenced(odid) \ ids)
      /\ norm = Cardinality(NormalOf(odid) \ ids)
      /\ opts = Cardinality(OptionsOf(odid) \ ids)
  <2>1. n = Cardinality(Unreferenced(odid) \ ids)
    <3>1. Unreferenced(odid) \cap ids = ids
      OBVIOUS
    <3>2. Cardinality(Unreferenced(odid) \ ids) =
            Cardinality(Unreferenced(odid)) - Cardinality(Unreferenced(odid) \cap ids)
      BY <1>4, FS_Difference
    <3> QED
      BY <3>1, <3>2 DEF Agrees
  <2>2. norm = Cardinality(NormalOf(odid) \ ids)
    <3>1. NormalOf(odid) \cap ids = ids \ options
      BY <1>3
    <3>2. Cardinality(NormalOf(odid) \ ids) =
            Cardinality(NormalOf(odid)) - Cardinality(NormalOf(odid) \cap ids)
      BY <1>4, FS_Difference
    <3> HIDE DEF options
    <3> QED
      BY <3>1, <3>2 DEF Agrees
  <2>3. opts = Cardinality(OptionsOf(odid) \ ids)
    <3>1. OptionsOf(odid) \cap ids = options
      BY <1>3
    <3>2. Cardinality(OptionsOf(odid) \ ids) =
            Cardinality(OptionsOf(odid)) - Cardinality(OptionsOf(odid) \cap ids)
      BY <1>4, FS_Difference
    <3> HIDE DEF options
    <3> QED
      BY <3>1, <3>2 DEF Agrees
  <2> QED
    BY <2>1, <2>2, <2>3
<1>6. T \in [Ids -> Templates \cup {NULL}] /\ n \in Nat /\ norm \in Nat /\ opts \in Nat
  <2>1. /\ Cardinality(Unreferenced(odid) \ ids) \in Nat
        /\ Cardinality(NormalOf(odid) \ ids) \in Nat
        /\ Cardinality(OptionsOf(odid) \ ids) \in Nat
    BY IdsFinite DEF Unreferenced, NormalOf, OptionsOf, Stored
  <2>2. T \in [Ids -> Templates \cup {NULL}]
    BY DEF Maintainers
  <2> QED
    BY <1>5, <2>1, <2>2
<1>7. \A i \in Ids : T[i] = IF i \in ids THEN NULL ELSE t[i]
  OBVIOUS
<1> HIDE DEF T, n, norm, opts, new, options
<1>8. /\ new.tmplts = T /\ new.to_remove = n
      /\ new.templates_normal = norm /\ new.templates_options = opts
      /\ new \in Maintainers
  BY <1>1, <1>6 DEF Maintainers
<1>9. /\ Stored(new) = Stored(odid) \ ids
      /\ \A i \in Stored(new) : new.tmplts[i] = t[i]
  BY <1>7, <1>8 DEF Stored
<1>10. DomainOf(new) = Withdrawn(DomainOf(odid), ids)
  BY <1>7, <1>8 DEF DomainOf, Withdrawn
<1>11. /\ Unreferenced(new) = Unreferenced(odid) \ ids
       /\ NormalOf(new) = NormalOf(odid) \ ids
       /\ OptionsOf(new) = OptionsOf(odid) \ ids
  BY <1>9 DEF Unreferenced, NormalOf, OptionsOf
<1>12. Agrees(new, U)
  BY <1>5, <1>8, <1>9, <1>11 DEF Agrees
<1> QED
  BY <1>8, <1>9, <1>10, <1>12 DEF new

\* All mappings of a source to templates of a type are removed
\* (fwd_src_withdraw_type): template i loses its mappings by the IDs in ps.
LEMMA ReleasedAgrees ==
  ASSUME NEW odid \in Maintainers, NEW U, NEW V, Agrees(odid, U),
         \A i \in Ids : IsFiniteSet(U[i]),
         NEW s, NEW map \in Mappings, NEW ps, ps \subseteq PrivateIds,
         \A p \in ps : map[p] \in Stored(odid) /\ <<s, p>> \in U[map[p]],
         GivesUp(U, V, s, map, ps)
  PROVE  LET new == Released(odid, map, ps) IN
         /\ new \in Maintainers
         /\ Agrees(new, V)
         /\ DomainOf(new) = DomainOf(odid)
         /\ Stored(new) = Stored(odid)
<1> DEFINE new == Released(odid, map, ps)
           t == odid.tmplts
           P == [i \in Ids |-> {p \in ps : map[p] = i}]
           uses == [i \in Ids |-> Cardinality(P[i])]
           T == [i \in Ids |-> IF uses[i] = 0 THEN t[i]
                               ELSE [t[i] EXCEPT !.ref_cnt = @ - uses[i]]]
           freed == {i \in Stored(odid) : uses[i] > 0 /\ t[i].ref_cnt = uses[i]}
           n == odid.to_remove + Cardinality(freed)
<1>1. new = [odid EXCEPT !.tmplts = T, !.to_remove = n]
  <2>1. freed \subseteq Ids
    BY DEF Stored
  <2> QED
    BY <2>1 DEF Released, Maintainers, Stored
<1>2. \A i \in Ids : /\ uses[i] \in Nat
                     /\ uses[i] > 0 => i \in Stored(odid)
                     /\ IsFiniteSet(P[i])
  <2> TAKE i \in Ids
  <2>1. P[i] \subseteq Ids /\ (P[i] # {} => i \in Stored(odid))
    BY MapperAssumption
  <2> HIDE DEF P
  <2>2. IsFiniteSet(P[i]) /\ uses[i] \in Nat
    BY <2>1, IdsFinite
  <2>3. P[i] = {} => uses[i] = 0
    BY FS_EmptySet
  <2> HIDE DEF uses
  <2> QED
    BY <2>1, <2>2, <2>3
<1>3. \A i \in Ids : /\ Cardinality(V[i]) = Cardinality(U[i]) - uses[i]
                     /\ Cardinality(V[i]) \in Nat /\ Cardinality(U[i]) \in Nat
  <2> TAKE i \in Ids
  <2> DEFINE W == {<<s, p>> : p \in P[i]}
             f == [p \in P[i] |-> <<s, p>>]
  <2>1. U[i] \cap W = W /\ V[i] = U[i] \ W
    BY DEF GivesUp
  <2> HIDE DEF P
  <2>2. Cardinality(W) = uses[i]
    <3>1. f \in Bijection(P[i], W)
      BY DEF Bijection, Injection, Surjection, IsInjective
    <3>2. ExistsBijection(P[i], W)
      BY <3>1 DEF ExistsBijection
    <3>3. IsFiniteSet(P[i])
      BY <1>2
    <3> HIDE DEF f, W
    <3> QED
      BY <3>2, <3>3, FS_Bijection
  <2> HIDE DEF W, uses
  <2>3. /\ Cardinality(U[i] \ W) = Cardinality(U[i]) - Cardinality(U[i] \cap W)
        /\ IsFiniteSet(U[i] \ W)
    BY FS_Difference
  <2>4. Cardinality(U[i] \ W) \in Nat /\ Cardinality(U[i]) \in Nat
    BY <2>3, FS_CardinalityType
  <2> QED
    BY <2>1, <2>2, <2>3, <2>4
<1> HIDE DEF P, uses, new
<1>4. \A i \in Stored(odid) : /\ i \in Ids /\ t[i] \in Templates
                             /\ t[i].ref_cnt = Cardinality(U[i])
  BY NullAssumption DEF Agrees, Stored, Maintainers
<1>5. \A i \in Stored(odid) :
        /\ T[i] = [rec |-> t[i].rec, ref_cnt |-> Cardinality(V[i])]
        /\ T[i] \in Templates
  <2> TAKE i \in Stored(odid)
  <2>1. i \in Ids /\ t[i] \in Templates /\ t[i].ref_cnt = Cardinality(U[i])
    BY <1>4
  <2>2. T[i] = [rec |-> t[i].rec, ref_cnt |-> Cardinality(U[i]) - uses[i]]
    BY <1>2, <1>3, <2>1 DEF Templates
  <2> QED
    BY <1>3, <2>1, <2>2 DEF Templates
<1>6. \A i \in Ids \ Stored(odid) : T[i] = t[i] /\ t[i] = NULL
  <2> TAKE i \in Ids \ Stored(odid)
  <2>1. uses[i] = 0
    BY <1>2
  <2>2. t[i] = NULL
    BY DEF Stored
  <2> QED
    BY <2>1, <2>2
<1>7. T \in [Ids -> Templates \cup {NULL}]
  BY <1>5, <1>6
<1>8. /\ IsFiniteSet(freed) /\ Cardinality(freed) \in Nat
      /\ IsFiniteSet(Unreferenced(odid))
      /\ Cardinality(Unreferenced(odid)) \in Nat
  BY IdsFinite DEF Stored, Unreferenced
<1>9. n \in Nat
  BY <1>8 DEF Maintainers
<1>10. freed \cap Unreferenced(odid) = {}
  BY DEF Unreferenced
<1>11. \A i \in Stored(odid) :
         Cardinality(V[i]) = 0 <=> i \in freed \cup Unreferenced(odid)
  <2> TAKE i \in Stored(odid)
  <2>1. /\ t[i].ref_cnt = Cardinality(U[i]) /\ uses[i] \in Nat
        /\ Cardinality(V[i]) = Cardinality(U[i]) - uses[i]
        /\ Cardinality(V[i]) \in Nat /\ Cardinality(U[i]) \in Nat
    BY <1>2, <1>3, <1>4
  <2>2. i \in Unreferenced(odid) <=> Cardinality(U[i]) = 0
    BY <2>1 DEF Unreferenced
  <2>3. i \in freed <=> uses[i] > 0 /\ Cardinality(U[i]) = uses[i]
    BY <2>1
  <2> HIDE DEF freed
  <2> QED
    BY <2>1, <2>2, <2>3
<1> HIDE DEF T, n, freed
<1>12. /\ new.tmplts = T /\ new.to_remove = n
       /\ new.templates_normal = odid.templates_normal
       /\ new.templates_options = odid.templates_options
       /\ new \in Maintainers
  BY <1>1, <1>7, <1>9 DEF Maintainers
<1>13. Stored(new) = Stored(odid)
  BY <1>5, <1>6, <1>12, NullAssumption DEF Stored
<1>14. \A i \in Stored(odid) : /\ new.tmplts[i].rec = t[i].rec
                              /\ new.tmplts[i].ref_cnt = Cardinality(V[i])
  <2> TAKE i \in Stored(odid)
  <2>1. T[i] = [rec |-> t[i].rec, ref_cnt |-> Cardinality(V[i])]
    BY <1>5
  <2> QED
    BY <2>1, <1>12
<1>15. DomainOf(new) = DomainOf(odid)
  BY <1>6, <1>12, <1>13, <1>14 DEF DomainOf, Stored
<1>16. NormalOf(new) = NormalOf(odid) /\ OptionsOf(new) = OptionsOf(odid)
  BY <1>13, <1>14 DEF NormalOf, OptionsOf
<1>17. Unreferenced(new) = freed \cup Unreferenced(odid)
  BY <1>11, <1>13, <1>14 DEF Unreferenced, freed
<1>18. new.to_remove = Cardinality(Unreferenced(new))
  <2>1. Cardinality(freed \cup Unreferenced(odid)) =
          Cardinality(freed) + Cardinality(Unreferenced(odid))
    <3>1. Cardinality(freed \cup Unreferenced(odid)) =
            Cardinality(freed) + Cardinality(Unreferenced(odid))
              - Cardinality(freed \cap Unreferenced(odid))
      BY <1>8, FS_Union
    <3>2. Cardinality(freed \cap Unreferenced(odid)) = 0
      BY <1>10, FS_EmptySet, Zenon
    <3> QED
      BY <1>8, <3>1, <3>2
  <2> QED
    BY <2>1, <1>8, <1>12, <1>17 DEF n, Agrees
<1>19. Agrees(new, V)
  BY <1>12, <1>13, <1>14, <1>16, <1>18 DEF Agrees
<1> QED
  BY <1>12, <1>13, <1>15, <1>19 DEF new

\* A scan that ends after as many hits as there are finds them all.
LEMMA FirstOfAll ==
  ASSUME NEW S, S \subseteq Ids, NEW n \in Nat, Cardinality(S) <= n
  PROVE  FirstOf(S, n) = S
<1> SUFFICES ASSUME NEW i \in S
             PROVE  Cardinality({j \in S : j < i}) < n
  BY DEF FirstOf
<1> DEFINE L == {j \in S : j < i}
<1>1. L \subseteq S /\ i \notin L
  BY MapperAssumption DEF Ids
<1> HIDE DEF L
<1>2. IsFiniteSet(S) /\ Cardinality(S) \in Nat /\ Cardinality(L) \in Nat
  BY <1>1, IdsFinite
<1>3. Cardinality(L) <= Cardinality(S) /\ Cardinality(L) # Cardinality(S)
  BY <1>1, <1>2, FS_Subset
<1>4. Cardinality(L) < n
  BY <1>2, <1>3
<1> QED
  BY <1>4 DEF L

\* A domain that counts no templates has none.
LEMMA NoneStored ==
  ASSUME NEW odid, NEW U, Agrees(odid, U),
         odid.templates_normal = 0, odid.templates_options = 0
  PROVE  Stored(odid) = {}
<1>1. IsFiniteSet(NormalOf(odid)) /\ IsFiniteSet(OptionsOf(odid))
  BY IdsFinite DEF NormalOf, OptionsOf, Stored
<1>2. Cardinality(NormalOf(odid)) = 0 /\ Cardinality(OptionsOf(odid)) = 0
  BY DEF Agrees
<1>3. NormalOf(odid) = {} /\ OptionsOf(odid) = {}
  BY <1>1, <1>2, FS_EmptySet
<1> QED
  BY <1>3 DEF NormalOf, OptionsOf

\* A domain that was just created.
LEMMA CreateAgrees ==
  ASSUME NEW U
  PROVE  /\ fwd_odid_create \in Maintainers
         /\ Agrees(fwd_odid_create, U)
         /\ DomainOf(fwd_odid_create) = NoTemplates
         /\ Stored(fwd_odid_create) = {}
<1>1. fwd_odid_create \in Maintainers
  BY DEF fwd_odid_create, Maintainers, NoTemplates
<1>2. Stored(fwd_odid_create) = {}
  BY DEF fwd_odid_create, Stored, NoTemplates
<1>3. DomainOf(fwd_odid_create) = NoTemplates
  BY DEF fwd_odid_create, DomainOf, NoTemplates
<1>4. /\ Unreferenced(fwd_odid_create) = {} /\ NormalOf(fwd_odid_create) = {}
      /\ OptionsOf(fwd_odid_create) = {}
  BY <1>2 DEF Unreferenced, NormalOf, OptionsOf
<1>5. Cardinality({}) = 0
  BY FS_EmptySet
<1>6. /\ fwd_odid_create.to_remove = 0
      /\ fwd_odid_create.templates_normal = 0
      /\ fwd_odid_create.templates_options = 0
  BY DEF fwd_odid_create
<1>7. Agrees(fwd_odid_create, U)
  BY <1>2, <1>4, <1>5, <1>6 DEF Agrees
<1> QED
  BY <1>1, <1>2, <1>3, <1>7

\* The map of exporter s when it maps p to id, or to none.
LEMMA RemapMap ==
  ASSUME NEW src \in [Sources -> Mappings \cup {NULL}],
         NEW s \in Sources, NEW p \in PrivateIds, NEW id \in Ids \cup {0}
  PROVE  /\ MapOf(src[s]) \in Mappings
         /\ [MapOf(src[s]) EXCEPT ![p] = id] \in Mappings
         /\ Remap(src, s, p, id) \in [Sources -> Mappings \cup {NULL}]
         /\ MapOf(Remap(src, s, p, id)[s]) = [MapOf(src[s]) EXCEPT ![p] = id]
         /\ \A t \in Sources \ {s} : MapOf(Remap(src, s, p, id)[t]) = MapOf(src[t])
<1> DEFINE new == [MapOf(src[s]) EXCEPT ![p] = id]
<1>1. MapOf(src[s]) \in Mappings
  BY DEF MapOf, NoMapping, Mappings
<1>2. new \in Mappings /\ new # NULL
  BY <1>1, NullAssumption DEF Mappings
<1> HIDE DEF new
<1>3. Remap(src, s, p, id) = [src EXCEPT ![s] = new]
  BY DEF Remap, new
<1>4. /\ MapOf(Remap(src, s, p, id)[s]) = new
      /\ \A t \in Sources \ {s} : MapOf(Remap(src, s, p, id)[t]) = MapOf(src[t])
  BY <1>2, <1>3 DEF MapOf
<1> QED
  BY <1>1, <1>2, <1>3, <1>4 DEF new

\* The mappings of a domain when exporter s maps p to id, or to none.
LEMMA UsersRemap ==
  ASSUME NEW src \in [Sources -> Mappings \cup {NULL}],
         NEW s \in Sources, NEW p \in PrivateIds, NEW id \in Ids \cup {0},
         NEW i \in Ids
  PROVE  /\ <<s, p>> \in UsersIn(src, OdidOf[s])[i] <=> MapOf(src[s])[p] = i
         /\ i = id => UsersIn(Remap(src, s, p, id), OdidOf[s])[i] =
                        UsersIn(src, OdidOf[s])[i] \cup {<<s, p>>}
         /\ i # id => UsersIn(Remap(src, s, p, id), OdidOf[s])[i] =
                        UsersIn(src, OdidOf[s])[i] \ {<<s, p>>}
<1> DEFINE map == MapOf(src[s])
           o == OdidOf[s]
           src2 == Remap(src, s, p, id)
           new == [map EXCEPT ![p] = id]
<1>3. /\ new[p] = id /\ \A q \in PrivateIds \ {p} : new[q] = map[q]
  BY RemapMap DEF Mappings
<1>4. MapOf(src2[s]) = new /\ \A t \in Sources \ {s} : MapOf(src2[t]) = MapOf(src[t])
  BY RemapMap
<1> HIDE DEF map, new, src2
<1>5. <<s, p>> \in UsersIn(src, o)[i] <=> map[p] = i
  BY DEF UsersIn, map
<1>6. ASSUME NEW t \in Sources, NEW q \in PrivateIds
      PROVE  <<t, q>> \in UsersIn(src2, o)[i] <=>
               IF <<t, q>> = <<s, p>> THEN i = id
                                      ELSE <<t, q>> \in UsersIn(src, o)[i]
  <2>1. CASE t = s /\ q = p
    BY <2>1, <1>3, <1>4 DEF UsersIn, map
  <2>2. CASE t = s /\ q # p
    BY <2>2, <1>3, <1>4 DEF UsersIn, map
  <2>3. CASE t # s
    BY <2>3, <1>4 DEF UsersIn, map
  <2> QED
    BY <2>1, <2>2, <2>3
<1>7. /\ UsersIn(src2, o)[i] \subseteq Sources \X PrivateIds
      /\ UsersIn(src, o)[i] \subseteq Sources \X PrivateIds
  BY DEF UsersIn
<1>8. /\ i = id => UsersIn(src2, o)[i] = UsersIn(src, o)[i] \cup {<<s, p>>}
      /\ i # id => UsersIn(src2, o)[i] = UsersIn(src, o)[i] \ {<<s, p>>}
  <2> DEFINE W == UsersIn(src2, o)[i]
             U == UsersIn(src, o)[i]
  <2>1. \A u \in Sources \X PrivateIds :
          u \in W <=> IF u = <<s, p>> THEN i = id ELSE u \in U
    <3> TAKE u \in Sources \X PrivateIds
    <3> PICK t \in Sources, q \in PrivateIds : u = <<t, q>>
      OBVIOUS
    <3> QED
      BY <1>6
  <2>2. <<s, p>> \in Sources \X PrivateIds
    OBVIOUS
  <2> HIDE DEF W, U
  <2>3. W \subseteq Sources \X PrivateIds /\ U \subseteq Sources \X PrivateIds
    BY <1>7 DEF W, U
  <2>4. CASE i = id
    <3>1. W = U \cup {<<s, p>>}
      BY <2>1, <2>2, <2>3, <2>4
    <3> QED
      BY <3>1, <2>4 DEF W, U
  <2>5. CASE i # id
    <3>1. W = U \ {<<s, p>>}
      BY <2>1, <2>2, <2>3, <2>5
    <3> QED
      BY <3>1, <2>5 DEF W, U
  <2> QED
    BY <2>4, <2>5
<1> QED
  BY <1>5, <1>8 DEF map, src2

\* An exporter's mapping is removed (fwd_src_mapping_remove).
LEMMA UnmappedAgrees ==
  ASSUME NEW src \in [Sources -> Mappings \cup {NULL}],
         NEW s \in Sources, NEW p \in PrivateIds,
         NEW odid \in Maintainers, Agrees(odid, UsersIn(src, OdidOf[s])),
         MapOf(src[s])[p] # 0 => MapOf(src[s])[p] \in Stored(odid)
  PROVE  LET map == MapOf(src[s])
             new == Unmapped(odid, map, p) IN
         /\ new \in Maintainers
         /\ Agrees(new, UsersIn(Remap(src, s, p, 0), OdidOf[s]))
         /\ DomainOf(new) = DomainOf(odid)
         /\ Stored(new) = Stored(odid)
<1> DEFINE map == MapOf(src[s])
           new == Unmapped(odid, map, p)
           U == UsersIn(src, OdidOf[s])
           V == UsersIn(Remap(src, s, p, 0), OdidOf[s])
<1>1. ASSUME NEW i \in Ids, i # 0
      PROVE  (<<s, p>> \in U[i] <=> map[p] = i) /\ V[i] = U[i] \ {<<s, p>>}
  BY <1>1, UsersRemap, 0 \in Ids \cup {0}
<1>2. \A i \in Ids : i # 0
  BY MapperAssumption DEF Ids
<1>3. \A i \in Ids : IsFiniteSet(U[i])
  BY UsersFinite DEF UsersIn
<1> HIDE DEF map, U, V
<1>4. CASE map[p] = 0
  <2>1. \A i \in Ids : V[i] = U[i]
    <3> TAKE i \in Ids
    <3>1. <<s, p>> \notin U[i] /\ V[i] = U[i] \ {<<s, p>>}
      BY <1>1, <1>2, <1>4
    <3> QED
      BY <3>1
  <2>2. Agrees(odid, V)
    BY <2>1 DEF Agrees, U, Stored
  <2>3. new = odid
    BY <1>4 DEF Unmapped
  <2> QED
    BY <2>2, <2>3 DEF V, map
<1>5. CASE map[p] # 0
  <2> DEFINE id == map[p]
  <2>1. id \in Stored(odid)
    BY <1>5 DEF map
  <2>2. id \in Ids /\ <<s, p>> \in U[id] /\ IsFiniteSet(U[id])
    BY <1>1, <1>3, <1>5, <2>1 DEF Stored
  <2>3. V[id] = U[id] \ {<<s, p>>} /\ \A i \in Ids \ {id} : V[i] = U[i]
    <3>1. V[id] = U[id] \ {<<s, p>>}
      BY <1>1, <1>2, <2>2
    <3>2. ASSUME NEW i \in Ids \ {id} PROVE V[i] = U[i]
      <4>1. <<s, p>> \notin U[i] /\ V[i] = U[i] \ {<<s, p>>}
        BY <1>1, <1>2
      <4> QED
        BY <4>1
    <3> QED
      BY <3>1, <3>2
  <2>4. new = fwd_odid_template_decrement(odid, id)
    BY <1>5 DEF Unmapped
  <2>5. Agrees(odid, U)
    BY DEF U
  <2> HIDE DEF id, new
  <2>6. /\ new \in Maintainers /\ Agrees(new, V)
        /\ DomainOf(new) = DomainOf(odid) /\ Stored(new) = Stored(odid)
    BY <2>1, <2>2, <2>3, <2>4, <2>5, DecrementAgrees
  <2> QED
    BY <2>6 DEF new, V, map
<1> QED
  BY <1>4, <1>5

\* An exporter without a mapping for p gets one (fwd_src_mapping_set).
LEMMA MappedAgrees ==
  ASSUME NEW src \in [Sources -> Mappings \cup {NULL}],
         NEW s \in Sources, NEW p \in PrivateIds, NEW id \in Ids,
         NEW odid \in Maintainers, id \in Stored(odid),
         Agrees(odid, UsersIn(Remap(src, s, p, 0), OdidOf[s]))
  PROVE  LET new == Mapped(odid, id) IN
         /\ new \in Maintainers
         /\ Agrees(new, UsersIn(Remap(src, s, p, id), OdidOf[s]))
         /\ DomainOf(new) = DomainOf(odid)
         /\ Stored(new) = Stored(odid)
<1> DEFINE map == MapOf(src[s])
           U == UsersIn(Remap(src, s, p, 0), OdidOf[s])
           V == UsersIn(Remap(src, s, p, id), OdidOf[s])
           W == UsersIn(src, OdidOf[s])
<1>1. \A i \in Ids : i # 0
  BY MapperAssumption DEF Ids
<1>2. ASSUME NEW i \in Ids
      PROVE  (<<s, p>> \in W[i] <=> map[p] = i) /\ U[i] = W[i] \ {<<s, p>>}
  BY <1>1, UsersRemap, 0 \in Ids \cup {0}
<1>3. (<<s, p>> \in W[id] <=> map[p] = id) /\ V[id] = W[id] \cup {<<s, p>>}
  BY UsersRemap
<1>4. ASSUME NEW i \in Ids \ {id}
      PROVE  (<<s, p>> \in W[i] <=> map[p] = i) /\ V[i] = W[i] \ {<<s, p>>}
  BY UsersRemap
<1>5. IsFiniteSet(U[id])
  BY UsersFinite DEF UsersIn
<1>6. Agrees(odid, U)
  OBVIOUS
<1> HIDE DEF map, U, V, W
<1>7. /\ <<s, p>> \notin U[id] /\ V[id] = U[id] \cup {<<s, p>>}
      /\ \A i \in Ids \ {id} : V[i] = U[i]
  <2>1. U[id] = W[id] \ {<<s, p>>} /\ V[id] = W[id] \cup {<<s, p>>}
    BY <1>2, <1>3
  <2>2. <<s, p>> \notin U[id] /\ V[id] = U[id] \cup {<<s, p>>}
    BY <2>1
  <2>3. ASSUME NEW i \in Ids \ {id} PROVE V[i] = U[i]
    <3>1. U[i] = W[i] \ {<<s, p>>} /\ V[i] = W[i] \ {<<s, p>>}
      BY <1>2, <1>4
    <3> QED
      BY <3>1
  <2> QED
    BY <2>2, <2>3
<1>8. /\ Mapped(odid, id) \in Maintainers
      /\ Agrees(Mapped(odid, id), V)
      /\ DomainOf(Mapped(odid, id)) = DomainOf(odid)
      /\ Stored(Mapped(odid, id)) = Stored(odid)
  BY <1>5, <1>6, <1>7, IncrementAgrees DEF Mapped
<1> QED
  BY <1>8 DEF V

\* Domains that know the same templates have the same ones stored.
LEMMA SameDomain ==
  ASSUME NEW x \in Maintainers, NEW y \in Maintainers, DomainOf(x) = DomainOf(y)
  PROVE  /\ Stored(x) = Stored(y)
         /\ \A i \in Stored(x) : x.tmplts[i].rec = y.tmplts[i].rec
<1>1. ASSUME NEW z \in Maintainers, NEW i \in Ids
      PROVE  /\ i \in Stored(z) <=> DomainOf(z)[i] # NULL
             /\ i \in Stored(z) => DomainOf(z)[i] = z.tmplts[i].rec
  <2>1. CASE z.tmplts[i] = NULL
    BY <2>1 DEF Stored, DomainOf
  <2>2. CASE z.tmplts[i] # NULL
    <3>1. z.tmplts[i] \in Templates
      BY <2>2 DEF Maintainers
    <3>2. z.tmplts[i].rec \in Definitions /\ z.tmplts[i].rec # NULL
      BY <3>1, NullAssumption DEF Templates
    <3> QED
      BY <2>2, <3>2 DEF Stored, DomainOf
  <2> QED
    BY <2>1, <2>2
<1>2. Stored(x) \subseteq Ids /\ Stored(y) \subseteq Ids
  BY DEF Stored
<1>3. Stored(x) = Stored(y)
  BY <1>1, <1>2
<1>4. ASSUME NEW i \in Stored(x) PROVE x.tmplts[i].rec = y.tmplts[i].rec
  <2>1. i \in Ids /\ i \in Stored(y)
    BY <1>2, <1>3
  <2>2. DomainOf(x)[i] = x.tmplts[i].rec /\ DomainOf(y)[i] = y.tmplts[i].rec
    BY <1>1, <2>1
  <2> QED
    BY <2>2
<1> QED
  BY <1>3, <1>4

-----------------------------------------------------------------------------
(***************************************************************************)
(* The steps.                                                              *)
(***************************************************************************)

\* What the invariant says of the domain of an exporter.
LEMMA MaintainerFacts ==
  ASSUME IInv, NEW s \in Sources
  PROVE  /\ OdidOf[s] \in Odids
         /\ Mapping(s) = MapOf(sources[s]) /\ Mapping(s) \in Mappings
         /\ sources \in [Sources -> Mappings \cup {NULL}]
         /\ Maintainer(s) \in Maintainers
         /\ Agrees(Maintainer(s), UsersIn(sources, OdidOf[s]))
         /\ \A t \in Sources, p \in PrivateIds :
              OdidOf[t] = OdidOf[s] /\ Mapping(t)[p] # 0 =>
                /\ Mapping(t)[p] \in Stored(Maintainer(s))
                /\ Maintainer(s).tmplts[Mapping(t)[p]].rec = defined[t][p]
         /\ Domain(OdidOf[s]) = DomainOf(Maintainer(s))
         /\ \A i \in Stored(Maintainer(s)) :
              ViewOf(OdidOf[s])[i] = Maintainer(s).tmplts[i].rec
<1> DEFINE o == OdidOf[s]
<1>1. o \in Odids
  BY DEF Odids
<1>2. sources \in [Sources -> Mappings \cup {NULL}]
  BY DEF IInv, TypeOK
<1>3. Mapping(s) = MapOf(sources[s]) /\ Mapping(s) \in Mappings
  BY <1>2 DEF Mapping, MapOf, NoMapping, Mappings
<1>4. maintainers[o] \in Maintainers \cup {NULL}
  BY <1>1 DEF IInv, TypeOK
<1>5. \A i \in Ids : UsersIn(sources, o)[i] = Users(o, i)
  BY DEF UsersIn, Users, Mapping, MapOf
<1>6. CASE maintainers[o] = NULL
  <2>1. Maintainer(s) = fwd_odid_create
    BY <1>6 DEF Maintainer
  <2>2. \A t \in Sources, p \in PrivateIds : OdidOf[t] = o => Mapping(t)[p] = 0
    BY <1>6 DEF IInv, MappedStored
  <2>3. Domain(o) = NoTemplates
    BY <1>6 DEF Domain
  <2> QED
    BY <1>1, <1>2, <1>3, <2>1, <2>2, <2>3, CreateAgrees
<1>7. CASE maintainers[o] # NULL
  <2>1. Maintainer(s) = maintainers[o]
    BY <1>7 DEF Maintainer
  <2>2. Agrees(maintainers[o], UsersIn(sources, o))
    BY <1>1, <1>5, <1>7
       DEF IInv, CountersAgree, Agrees, Unreferenced, NormalOf, OptionsOf, Stored
  <2>3. \A t \in Sources, p \in PrivateIds :
          OdidOf[t] = o /\ Mapping(t)[p] # 0 =>
            /\ Mapping(t)[p] \in Stored(maintainers[o])
            /\ maintainers[o].tmplts[Mapping(t)[p]].rec = defined[t][p]
    BY DEF IInv, MappedStored
  <2>4. Domain(o) = DomainOf(maintainers[o])
    BY <1>7 DEF Domain, DomainOf
  <2>5. \A i \in Stored(maintainers[o]) : ViewOf(o)[i] = maintainers[o].tmplts[i].rec
    BY <1>1, <1>7 DEF IInv, Announced
  <2> QED
    BY <1>1, <1>2, <1>3, <1>4, <1>7, <2>1, <2>2, <2>3, <2>4, <2>5
<1> QED
  BY <1>6, <1>7

\* A template record of the message: whatever it does to the domain of its
\* exporter, the invariant holds if the counters still agree, no template is
\* lost or changed, and the receiver is told of a new one.
LEMMA RecordStep ==
  ASSUME IInv, NEW s \in Sources, Reachable(s),
         NEW odid \in Maintainers, NEW map \in Mappings, NEW view \in Views,
         NEW def \in [PrivateIds -> Definitions \cup {NULL}],
         Store(s, odid, map), Record(TRUE, view),
         defined' = [defined EXCEPT ![s] = def], decoded' = decoded,
         Agrees(odid, UsersIn([sources EXCEPT ![s] = map], OdidOf[s])),
         Stored(Maintainer(s)) \subseteq Stored(odid),
         \A i \in Stored(Maintainer(s)) :
           odid.tmplts[i].rec = Maintainer(s).tmplts[i].rec,
         \A p \in PrivateIds : map[p] # 0 =>
           map[p] \in Stored(odid) /\ odid.tmplts[map[p]].rec = def[p],
         \A i \in Stored(odid) : view[i] = odid.tmplts[i].rec,
         ~Lost(OdidOf[s]) => view = DomainOf(odid)
  PROVE  IInv'
<1> DEFINE o == OdidOf[s]
<1>1. /\ TypeOK /\ o \in Odids /\ msg \in Messages /\ msg.src = s
      /\ odid # NULL /\ map # NULL /\ msg # NULL
  BY NullAssumption DEF IInv, TypeOK, Odids, Reachable
<1>2. /\ msg' \in Messages /\ msg' # NULL /\ msg'.src = s
      /\ msg'.any_templates /\ msg'.view = view /\ msg'.data = msg.data
  <2>1. msg' = [msg EXCEPT !.records = @ + 1, !.any_templates = @ \/ TRUE,
                           !.view = view]
    BY DEF Record
  <2>2. msg.records + 1 \in 0..MaxRecords
    BY <1>1, MapperAssumption DEF Record, Messages
  <2> QED
    BY <1>1, <2>1, <2>2, NullAssumption DEF Messages
<1>3. /\ maintainers' = [maintainers EXCEPT ![o] = odid]
      /\ sources' = [sources EXCEPT ![s] = map]
      /\ dangling' = dangling /\ known' = known /\ messages' = messages
  BY DEF Store, Record
<1>4. /\ maintainers'[o] = odid
      /\ \A q \in Odids \ {o} : maintainers'[q] = maintainers[q]
  BY <1>1, <1>3 DEF TypeOK
<1>5. /\ Mapping(s)' = map
      /\ \A t \in Sources \ {s} : Mapping(t)' = Mapping(t)
  BY <1>1, <1>3 DEF TypeOK, Mapping
<1>6. TypeOK'
  BY <1>1, <1>2, <1>3 DEF TypeOK
<1>7. CountersAgree'
  <2> SUFFICES ASSUME NEW q \in Odids, maintainers'[q] # NULL
               PROVE  Agrees(maintainers'[q], UsersIn(sources', q))
    BY DEF CountersAgree, Agrees, Unreferenced, NormalOf, OptionsOf, Stored,
           UsersIn, Users, Mapping, MapOf
  <2>1. CASE q = o
    BY <2>1, <1>3, <1>4
  <2>2. CASE q # o
    <3>1. Agrees(maintainers[q], UsersIn(sources, q))
      BY <1>4, <2>2 DEF IInv, CountersAgree, Agrees, Unreferenced, NormalOf,
           OptionsOf, Stored, UsersIn, Users, Mapping, MapOf
    <3>2. UsersIn(sources', q) = UsersIn(sources, q)
      BY <1>1, <1>3, <2>2 DEF UsersIn, TypeOK
    <3> QED
      BY <1>4, <2>2, <3>1, <3>2
  <2> QED
    BY <2>1, <2>2
<1>8. MappedStored'
  <2> SUFFICES ASSUME NEW t \in Sources, NEW p \in PrivateIds, Mapping(t)'[p] # 0
               PROVE  /\ maintainers'[OdidOf[t]] # NULL
                      /\ Mapping(t)'[p] \in Stored(maintainers'[OdidOf[t]])
                      /\ maintainers'[OdidOf[t]].tmplts[Mapping(t)'[p]].rec
                           = defined'[t][p]
    BY DEF MappedStored, Stored
  <2>1. CASE t = s
    <3>1. defined'[s] = def
      BY <1>1 DEF TypeOK
    <3> QED
      BY <1>1, <1>4, <1>5, <2>1, <3>1
  <2>2. CASE t # s /\ OdidOf[t] = o
    <3>1. Mapping(t)'[p] = Mapping(t)[p] /\ defined'[t] = defined[t]
      BY <1>1, <1>5, <2>2 DEF TypeOK
    <3>2. /\ Mapping(t)[p] \in Stored(Maintainer(s))
          /\ Maintainer(s).tmplts[Mapping(t)[p]].rec = defined[t][p]
      BY <2>2, <3>1, MaintainerFacts
    <3> QED
      BY <1>1, <1>4, <2>2, <3>1, <3>2
  <2>3. CASE OdidOf[t] # o
    <3>1. Mapping(t)'[p] = Mapping(t)[p] /\ defined'[t] = defined[t]
      BY <1>1, <1>5, <2>3 DEF TypeOK
    <3>2. OdidOf[t] \in Odids \ {o}
      BY <2>3 DEF Odids
    <3> QED
      BY <1>4, <3>1, <3>2 DEF IInv, MappedStored
  <2> QED
    BY <2>1, <2>2, <2>3
<1>9. Announced'
  <2> SUFFICES ASSUME NEW q \in Odids
               PROVE  /\ maintainers'[q] # NULL =>
                           \A i \in Stored(maintainers'[q]) :
                             ViewOf(q)'[i] = maintainers'[q].tmplts[i].rec
                      /\ ~Lost(q)' => ViewOf(q)' = Domain(q)'
    BY DEF Announced, Stored
  <2>1. Lost(q)' = Lost(q)
    BY <1>3 DEF Lost
  <2>2. CASE q = o
    <3>1. ViewOf(q)' = view
      BY <1>2, <2>2 DEF ViewOf
    <3>2. Domain(q)' = DomainOf(odid)
      BY <1>1, <1>4, <2>2 DEF Domain, DomainOf
    <3> QED
      BY <1>4, <2>1, <2>2, <3>1, <3>2
  <2>3. CASE q # o
    <3>1. ViewOf(q)' = ViewOf(q)
      BY <1>1, <1>2, <1>3, <2>3 DEF ViewOf
    <3>2. Domain(q)' = Domain(q)
      BY <1>4, <2>3 DEF Domain
    <3> QED
      BY <1>4, <2>1, <2>3, <3>1, <3>2 DEF IInv, Announced
  <2> QED
    BY <2>2, <2>3
<1>10. UnusedWithdrawn'
  <2> SUFFICES ASSUME NEW q \in Odids, maintainers'[q] # NULL, ~Changing(q)'
               PROVE  \A i \in Stored(maintainers'[q]) :
                        i < MaxId => maintainers'[q].tmplts[i].ref_cnt # 0
    BY DEF UnusedWithdrawn, Stored
  <2>1. q # o
    BY <1>2 DEF Changing
  <2>2. ~Changing(q)
    BY <1>1, <2>1 DEF Changing
  <2> QED
    BY <1>4, <2>1, <2>2 DEF IInv, UnusedWithdrawn
<1>11. MessageStored'
  <2>1. sources'[s] # NULL
    BY <1>1, <1>3 DEF TypeOK
  <2> QED
    BY <1>1, <1>2, <1>4, <2>1 DEF MessageStored
<1>12. DataAsMeant'
  BY <1>1, <1>2 DEF IInv, DataAsMeant
<1> QED
  BY <1>6, <1>7, <1>8, <1>9, <1>10, <1>11, <1>12 DEF IInv

\* What a receiver that gets the message under construction knows of the
\* domain of its exporter.
LEMMA ViewFacts ==
  ASSUME IInv, NEW s \in Sources, Reachable(s)
  PROVE  /\ msg.view \in Views
         /\ \A i \in Stored(Maintainer(s)) :
              msg.view[i] = Maintainer(s).tmplts[i].rec
         /\ ~Lost(OdidOf[s]) => msg.view = DomainOf(Maintainer(s))
         /\ defined \in [Sources -> [PrivateIds -> Definitions \cup {NULL}]]
<1>1. msg # NULL /\ msg.src = s /\ msg \in Messages
  BY DEF IInv, TypeOK, Reachable
<1>2. ViewOf(OdidOf[s]) = msg.view
  BY <1>1 DEF ViewOf
<1>3. OdidOf[s] \in Odids /\ Domain(OdidOf[s]) = DomainOf(Maintainer(s))
  BY MaintainerFacts
<1>4. ~Lost(OdidOf[s]) => msg.view = DomainOf(Maintainer(s))
  BY <1>2, <1>3 DEF IInv, Announced
<1>5. \A i \in Stored(Maintainer(s)) : msg.view[i] = Maintainer(s).tmplts[i].rec
  BY <1>2, MaintainerFacts
<1>6. msg.view \in Views
  BY <1>1 DEF Messages
<1>7. defined \in [Sources -> [PrivateIds -> Definitions \cup {NULL}]]
  BY DEF IInv, TypeOK
<1> QED
  BY <1>4, <1>5, <1>6, <1>7

\* An exporter's definition of p changes.
LEMMA DefinesFacts ==
  ASSUME IInv, NEW s \in Sources, NEW p \in PrivateIds,
         NEW d \in Definitions \cup {NULL}, Defines(s, p, d)
  PROVE  LET def == [defined[s] EXCEPT ![p] = d] IN
         /\ def \in [PrivateIds -> Definitions \cup {NULL}]
         /\ defined' = [defined EXCEPT ![s] = def]
         /\ def[p] = d /\ \A q \in PrivateIds \ {p} : def[q] = defined[s][q]
         /\ decoded' = decoded
<1>1. defined \in [Sources -> [PrivateIds -> Definitions \cup {NULL}]]
  BY DEF IInv, TypeOK
<1> QED
  BY <1>1 DEF Defines

\* The exporter repeats a definition its mapper knows.
LEMMA RepeatTemplateStep ==
  ASSUME IInv, NEW s \in Sources, NEW p \in PrivateIds, NEW d \in Definitions,
         RepeatTemplate(s, p, d)
  PROVE  IInv'
<1> DEFINE odid == Maintainer(s)
           map == Mapping(s)
           def == [defined[s] EXCEPT ![p] = d]
<1>1. /\ Reachable(s) /\ map[p] # 0 /\ odid.tmplts[map[p]].rec = d
      /\ Store(s, odid, map) /\ Record(TRUE, msg.view) /\ Defines(s, p, d)
  BY DEF RepeatTemplate
<1>2. /\ def \in [PrivateIds -> Definitions \cup {NULL}]
      /\ defined' = [defined EXCEPT ![s] = def] /\ decoded' = decoded
      /\ def[p] = d /\ \A q \in PrivateIds \ {p} : def[q] = defined[s][q]
  BY <1>1, DefinesFacts
<1>3. /\ odid \in Maintainers /\ map \in Mappings /\ map = MapOf(sources[s])
      /\ sources \in [Sources -> Mappings \cup {NULL}]
      /\ Agrees(odid, UsersIn(sources, OdidOf[s]))
      /\ \A q \in PrivateIds : map[q] # 0 =>
           map[q] \in Stored(odid) /\ odid.tmplts[map[q]].rec = defined[s][q]
  BY MaintainerFacts
<1>4. /\ msg.view \in Views
      /\ \A i \in Stored(odid) : msg.view[i] = odid.tmplts[i].rec
      /\ ~Lost(OdidOf[s]) => msg.view = DomainOf(odid)
  BY <1>1, ViewFacts
<1> HIDE DEF odid, map, def
<1>5. UsersIn([sources EXCEPT ![s] = map], OdidOf[s]) = UsersIn(sources, OdidOf[s])
  <2>1. \A t \in Sources : MapOf([sources EXCEPT ![s] = map][t]) = MapOf(sources[t])
    BY <1>3, NullAssumption DEF MapOf
  <2> QED
    BY <2>1 DEF UsersIn
<1>6. \A q \in PrivateIds : map[q] # 0 =>
        map[q] \in Stored(odid) /\ odid.tmplts[map[q]].rec = def[q]
  BY <1>1, <1>2, <1>3
<1> QED
  BY <1>1, <1>2, <1>3, <1>4, <1>5, <1>6, RecordStep DEF odid

\* The old mapping is removed: the part the other definitions of p share.
LEMMA UnmapFacts ==
  ASSUME IInv, NEW s \in Sources, NEW p \in PrivateIds
  PROVE  LET odid == Unmapped(Maintainer(s), Mapping(s), p) IN
         /\ odid \in Maintainers
         /\ Agrees(odid, UsersIn(Remap(sources, s, p, 0), OdidOf[s]))
         /\ DomainOf(odid) = DomainOf(Maintainer(s))
         /\ Stored(odid) = Stored(Maintainer(s))
         /\ \A i \in Stored(odid) :
              odid.tmplts[i].rec = Maintainer(s).tmplts[i].rec
<1> DEFINE odid == Unmapped(Maintainer(s), Mapping(s), p)
<1>1. /\ Maintainer(s) \in Maintainers /\ Mapping(s) = MapOf(sources[s])
      /\ sources \in [Sources -> Mappings \cup {NULL}]
      /\ Agrees(Maintainer(s), UsersIn(sources, OdidOf[s]))
      /\ Mapping(s)[p] # 0 => Mapping(s)[p] \in Stored(Maintainer(s))
  BY MaintainerFacts
<1>2. /\ odid \in Maintainers
      /\ Agrees(odid, UsersIn(Remap(sources, s, p, 0), OdidOf[s]))
      /\ DomainOf(odid) = DomainOf(Maintainer(s))
      /\ Stored(odid) = Stored(Maintainer(s))
  BY <1>1, UnmappedAgrees
<1> HIDE DEF odid
<1>3. \A i \in Stored(odid) : odid.tmplts[i].rec = Maintainer(s).tmplts[i].rec
  BY <1>1, <1>2, SameDomain
<1> QED
  BY <1>2, <1>3 DEF odid

\* The exporter's p is mapped anew, to id or to none.
LEMMA RemapStep ==
  ASSUME IInv, NEW s \in Sources, NEW p \in PrivateIds,
         NEW d \in Definitions \cup {NULL}, NEW id \in Ids \cup {0},
         NEW odid \in Maintainers, NEW view \in Views,
         Reachable(s), Store(s, odid, [Mapping(s) EXCEPT ![p] = id]),
         Record(TRUE, view), Defines(s, p, d),
         Agrees(odid, UsersIn(Remap(sources, s, p, id), OdidOf[s])),
         Stored(Maintainer(s)) \subseteq Stored(odid),
         \A i \in Stored(Maintainer(s)) :
           odid.tmplts[i].rec = Maintainer(s).tmplts[i].rec,
         id # 0 => id \in Stored(odid) /\ odid.tmplts[id].rec = d,
         \A i \in Stored(odid) : view[i] = odid.tmplts[i].rec,
         ~Lost(OdidOf[s]) => view = DomainOf(odid)
  PROVE  IInv'
<1> DEFINE map == [Mapping(s) EXCEPT ![p] = id]
           def == [defined[s] EXCEPT ![p] = d]
<1>1. /\ def \in [PrivateIds -> Definitions \cup {NULL}]
      /\ defined' = [defined EXCEPT ![s] = def] /\ decoded' = decoded
      /\ def[p] = d /\ \A q \in PrivateIds \ {p} : def[q] = defined[s][q]
  BY DefinesFacts
<1>2. /\ Mapping(s) \in Mappings /\ Mapping(s) = MapOf(sources[s])
      /\ sources \in [Sources -> Mappings \cup {NULL}]
      /\ \A q \in PrivateIds : Mapping(s)[q] # 0 =>
           /\ Mapping(s)[q] \in Stored(Maintainer(s))
           /\ Maintainer(s).tmplts[Mapping(s)[q]].rec = defined[s][q]
  BY MaintainerFacts
<1>3. /\ map \in Mappings /\ map[p] = id
      /\ \A q \in PrivateIds \ {p} : map[q] = Mapping(s)[q]
  BY <1>2 DEF Mappings
<1>4. Remap(sources, s, p, id) = [sources EXCEPT ![s] = map]
  BY <1>2 DEF Remap
<1> HIDE DEF map, def
<1>5. \A q \in PrivateIds : map[q] # 0 =>
        map[q] \in Stored(odid) /\ odid.tmplts[map[q]].rec = def[q]
  BY <1>1, <1>2, <1>3
<1>6. Store(s, odid, map)
  BY DEF map
<1>7. Agrees(odid, UsersIn([sources EXCEPT ![s] = map], OdidOf[s]))
  BY <1>4
<1> QED
  BY <1>1, <1>3, <1>5, <1>6, <1>7, RecordStep

\* A definition that another exporter of the domain has given is shared.
LEMMA ShareTemplateStep ==
  ASSUME IInv, NEW s \in Sources, NEW p \in PrivateIds, NEW d \in Definitions,
         ShareTemplate(s, p, d)
  PROVE  IInv'
<1> DEFINE odid == Unmapped(Maintainer(s), Mapping(s), p)
           id == fwd_odid_template_find(odid, d)
           new == Mapped(odid, id)
<1>1. /\ Reachable(s) /\ id # 0
      /\ Store(s, new, [Mapping(s) EXCEPT ![p] = id])
      /\ Record(TRUE, msg.view) /\ Defines(s, p, d)
  BY DEF ShareTemplate, ChangesTemplate
<1>2. /\ odid \in Maintainers
      /\ Agrees(odid, UsersIn(Remap(sources, s, p, 0), OdidOf[s]))
      /\ DomainOf(odid) = DomainOf(Maintainer(s))
      /\ Stored(odid) = Stored(Maintainer(s))
      /\ \A i \in Stored(odid) :
           odid.tmplts[i].rec = Maintainer(s).tmplts[i].rec
  BY UnmapFacts
<1>3. id \in Stored(odid) /\ odid.tmplts[id].rec = d
  BY <1>1, FoundId
<1> HIDE DEF odid, id
<1>4. id \in Ids
  BY <1>3 DEF Stored
<1>5. /\ new \in Maintainers
      /\ Agrees(new, UsersIn(Remap(sources, s, p, id), OdidOf[s]))
      /\ DomainOf(new) = DomainOf(odid)
      /\ Stored(new) = Stored(odid)
  <2>1. sources \in [Sources -> Mappings \cup {NULL}]
    BY MaintainerFacts
  <2> QED
    BY <1>2, <1>3, <1>4, <2>1, MappedAgrees
<1> HIDE DEF new
<1>6. \A i \in Stored(new) : new.tmplts[i].rec = odid.tmplts[i].rec
  BY <1>2, <1>5, SameDomain
<1>7. /\ msg.view \in Views
      /\ \A i \in Stored(Maintainer(s)) : msg.view[i] = Maintainer(s).tmplts[i].rec
      /\ ~Lost(OdidOf[s]) => msg.view = DomainOf(Maintainer(s))
  BY <1>1, ViewFacts
<1>8. /\ \A i \in Stored(Maintainer(s)) :
           new.tmplts[i].rec = Maintainer(s).tmplts[i].rec
      /\ Stored(Maintainer(s)) \subseteq Stored(new)
      /\ id \in Stored(new) /\ new.tmplts[id].rec = d
      /\ \A i \in Stored(new) : msg.view[i] = new.tmplts[i].rec
      /\ ~Lost(OdidOf[s]) => msg.view = DomainOf(new)
  BY <1>2, <1>3, <1>5, <1>6, <1>7
<1> QED
  BY <1>1, <1>4, <1>5, <1>7, <1>8, RemapStep

\* A definition that the domain does not have is given a free ID.
LEMMA NewTemplateStep ==
  ASSUME IInv, NEW s \in Sources, NEW p \in PrivateIds, NEW d \in Definitions,
         NewTemplate(s, p, d)
  PROVE  IInv'
<1> DEFINE odid == Unmapped(Maintainer(s), Mapping(s), p)
           id == fwd_odid_template_unused_id(odid, p)
           ins == fwd_odid_template_insert(odid, id, d)
           new == Mapped(ins, id)
           view == [msg.view EXCEPT ![id] = d]
           U == UsersIn(Remap(sources, s, p, 0), OdidOf[s])
<1>1. /\ Reachable(s) /\ id # 0
      /\ Store(s, new, [Mapping(s) EXCEPT ![p] = id])
      /\ Record(TRUE, view) /\ Defines(s, p, d)
  BY DEF NewTemplate, ChangesTemplate
<1>2. /\ odid \in Maintainers /\ Agrees(odid, U)
      /\ DomainOf(odid) = DomainOf(Maintainer(s))
      /\ Stored(odid) = Stored(Maintainer(s))
      /\ \A i \in Stored(odid) :
           odid.tmplts[i].rec = Maintainer(s).tmplts[i].rec
  BY UnmapFacts
<1>3. id \in Ids \ Stored(odid)
  BY <1>1, UnusedId
<1> HIDE DEF odid, id
<1>4. sources \in [Sources -> Mappings \cup {NULL}]
  BY MaintainerFacts
<1>5. U[id] = {}
  <2>1. ASSUME NEW t \in Sources, NEW q \in PrivateIds, OdidOf[t] = OdidOf[s]
        PROVE  MapOf(Remap(sources, s, p, 0)[t])[q] # id
    <3>1. id # 0 /\ 0 \in Ids \cup {0}
      BY <1>1
    <3>2. Mapping(t)[q] # id
      BY <1>1, <1>2, <1>3, <2>1, MaintainerFacts
    <3>3. Mapping(t) = MapOf(sources[t]) /\ Mapping(t) \in Mappings
      BY MaintainerFacts
    <3> DEFINE none == 0
               src == Remap(sources, s, p, none)
    <3>4. none \in Ids \cup {0}
      OBVIOUS
    <3> HIDE DEF none
    <3>5. /\ src \in [Sources -> Mappings \cup {NULL}]
          /\ MapOf(src[s]) = [MapOf(sources[s]) EXCEPT ![p] = none]
          /\ \A r \in Sources \ {s} : MapOf(src[r]) = MapOf(sources[r])
      BY <1>4, <3>4, RemapMap
    <3> USE DEF none
    <3>6. CASE t = s
      <4>1. MapOf(Remap(sources, s, p, 0)[s]) = [MapOf(sources[s]) EXCEPT ![p] = 0]
        BY <3>5
      <4> QED
        BY <3>1, <3>2, <3>3, <3>6, <4>1 DEF Mappings
    <3>7. CASE t # s
      <4>1. MapOf(Remap(sources, s, p, 0)[t]) = MapOf(sources[t])
        BY <3>7, <3>5
      <4> QED
        BY <3>2, <3>3, <4>1
    <3> QED
      BY <3>6, <3>7
  <2> QED
    BY <1>3, <2>1 DEF UsersIn
<1> HIDE DEF U
<1>6. /\ ins \in Maintainers /\ Agrees(ins, U)
      /\ DomainOf(ins) = [DomainOf(odid) EXCEPT ![id] = d]
      /\ Stored(ins) = Stored(odid) \cup {id}
      /\ \A i \in Stored(odid) : ins.tmplts[i] = odid.tmplts[i]
      /\ ins.tmplts[id].rec = d
  BY <1>2, <1>3, <1>5, InsertAgrees
<1> HIDE DEF ins
<1>7. /\ new \in Maintainers
      /\ Agrees(new, UsersIn(Remap(sources, s, p, id), OdidOf[s]))
      /\ DomainOf(new) = DomainOf(ins)
      /\ Stored(new) = Stored(ins)
  <2>1. id \in Stored(ins) /\ id \in Ids
    BY <1>3, <1>6
  <2> QED
    BY <1>4, <1>6, <2>1, MappedAgrees DEF U
<1> HIDE DEF new
<1>8. \A i \in Stored(new) : new.tmplts[i].rec = ins.tmplts[i].rec
  BY <1>6, <1>7, SameDomain
<1>9. /\ msg.view \in Views
      /\ \A i \in Stored(Maintainer(s)) : msg.view[i] = Maintainer(s).tmplts[i].rec
      /\ ~Lost(OdidOf[s]) => msg.view = DomainOf(Maintainer(s))
  BY <1>1, ViewFacts
<1>10. /\ view \in Views /\ view[id] = d
       /\ \A i \in Ids \ {id} : view[i] = msg.view[i]
  BY <1>3, <1>9 DEF Views
<1>11. ~Lost(OdidOf[s]) => view = DomainOf(new)
  BY <1>2, <1>6, <1>7, <1>9
<1> HIDE DEF view
<1>12. Stored(odid) \subseteq Ids \ {id}
  BY <1>3 DEF Stored
<1>13. /\ \A i \in Stored(Maintainer(s)) :
            new.tmplts[i].rec = Maintainer(s).tmplts[i].rec
       /\ Stored(Maintainer(s)) \subseteq Stored(new)
       /\ id \in Stored(new) /\ new.tmplts[id].rec = d
  BY <1>2, <1>6, <1>7, <1>8
<1>14. \A i \in Stored(new) : view[i] = new.tmplts[i].rec
  BY <1>2, <1>6, <1>7, <1>8, <1>9, <1>10, <1>12
<1> QED
  BY <1>1, <1>3, <1>7, <1>10, <1>11, <1>13, <1>14, RemapStep

\* The exporter's p is left without a mapping.
LEMMA UnmapStep ==
  ASSUME IInv, NEW s \in Sources, NEW p \in PrivateIds,
         NEW d \in Definitions \cup {NULL}, Reachable(s),
         Store(s, Unmapped(Maintainer(s), Mapping(s), p),
               [Mapping(s) EXCEPT ![p] = 0]),
         Record(TRUE, msg.view), Defines(s, p, d)
  PROVE  IInv'
<1> DEFINE odid == Unmapped(Maintainer(s), Mapping(s), p)
<1>1. /\ odid \in Maintainers
      /\ Agrees(odid, UsersIn(Remap(sources, s, p, 0), OdidOf[s]))
      /\ DomainOf(odid) = DomainOf(Maintainer(s))
      /\ Stored(odid) = Stored(Maintainer(s))
      /\ \A i \in Stored(odid) :
           odid.tmplts[i].rec = Maintainer(s).tmplts[i].rec
  BY UnmapFacts
<1>2. /\ msg.view \in Views
      /\ \A i \in Stored(Maintainer(s)) : msg.view[i] = Maintainer(s).tmplts[i].rec
      /\ ~Lost(OdidOf[s]) => msg.view = DomainOf(Maintainer(s))
  BY ViewFacts
<1>3. Store(s, odid, [Mapping(s) EXCEPT ![p] = 0])
  OBVIOUS
<1> HIDE DEF odid
<1>4. 0 \in Ids \cup {0}
  OBVIOUS
<1> QED
  BY <1>1, <1>2, <1>3, <1>4, RemapStep

\* All mappings of one type are withdrawn at once.
LEMMA WithdrawAllStep ==
  ASSUME IInv, NEW s \in Sources, NEW type \in Types, WithdrawAll(s, type)
  PROVE  IInv'
<1> DEFINE odid == Maintainer(s)
           old == Mapping(s)
           ps == OfType(s, type)
           new == Released(odid, old, ps)
           map == [p \in PrivateIds |-> IF p \in ps THEN 0 ELSE old[p]]
           def == [p \in PrivateIds |->
                     IF defined[s][p] # NULL /\ TypeOf(defined[s][p]) = type
                     THEN NULL ELSE defined[s][p]]
           U == UsersIn(sources, OdidOf[s])
           V == UsersIn([sources EXCEPT ![s] = map], OdidOf[s])
<1>1. /\ Reachable(s) /\ Store(s, new, map) /\ Record(TRUE, msg.view)
      /\ defined' = [defined EXCEPT ![s] = def] /\ decoded' = decoded
  BY DEF WithdrawAll
<1>2. /\ odid \in Maintainers /\ old \in Mappings /\ old = MapOf(sources[s])
      /\ sources \in [Sources -> Mappings \cup {NULL}]
      /\ Agrees(odid, U)
      /\ \A q \in PrivateIds : old[q] # 0 =>
           old[q] \in Stored(odid) /\ odid.tmplts[old[q]].rec = defined[s][q]
  BY MaintainerFacts
<1>3. /\ msg.view \in Views
      /\ \A i \in Stored(odid) : msg.view[i] = odid.tmplts[i].rec
      /\ ~Lost(OdidOf[s]) => msg.view = DomainOf(odid)
      /\ defined \in [Sources -> [PrivateIds -> Definitions \cup {NULL}]]
  BY <1>1, ViewFacts
<1>4. \A p \in PrivateIds :
        p \in ps <=> old[p] # 0 /\ TypeOf(odid.tmplts[old[p]].rec) = type
  BY DEF OfType
<1>5. ps \subseteq PrivateIds
  BY DEF OfType
<1>6. def \in [PrivateIds -> Definitions \cup {NULL}]
  BY <1>3
<1>7. map \in Mappings /\ map # NULL
  BY <1>2, NullAssumption DEF Mappings
<1>8. \A p \in PrivateIds : /\ p \in ps => map[p] = 0
                            /\ p \notin ps => map[p] = old[p]
  OBVIOUS
<1>9. \A p \in PrivateIds :
        defined[s][p] # NULL /\ TypeOf(defined[s][p]) # type => def[p] = defined[s][p]
  OBVIOUS
<1> HIDE DEF odid, old, ps, map, def
<1>10. \A p \in ps : old[p] \in Stored(odid) /\ <<s, p>> \in U[old[p]]
  BY <1>2, <1>4, <1>5 DEF UsersIn, Stored
<1>11. GivesUp(U, V, s, old, ps)
  <2> SUFFICES ASSUME NEW i \in Ids
               PROVE  V[i] = U[i] \ {<<s, p>> : p \in {q \in ps : old[q] = i}}
    BY DEF GivesUp
  <2> DEFINE R == {<<s, p>> : p \in {q \in ps : old[q] = i}}
  <2>1. ASSUME NEW t \in Sources, NEW q \in PrivateIds
        PROVE  <<t, q>> \in V[i] <=> <<t, q>> \in U[i] /\ <<t, q>> \notin R
    <3>1. /\ <<t, q>> \in V[i] <=>
               OdidOf[t] = OdidOf[s] /\ MapOf([sources EXCEPT ![s] = map][t])[q] = i
          /\ <<t, q>> \in U[i] <=>
               OdidOf[t] = OdidOf[s] /\ MapOf(sources[t])[q] = i
      BY DEF UsersIn
    <3>2. i # 0
      BY MapperAssumption DEF Ids
    <3>3. CASE t = s
      <4>1. MapOf([sources EXCEPT ![s] = map][s]) = map
        BY <1>2, <1>7 DEF MapOf
      <4>2. <<s, q>> \in R <=> q \in ps /\ old[q] = i
        OBVIOUS
      <4> HIDE DEF U, V, R
      <4> QED
        BY <1>2, <1>8, <3>1, <3>2, <3>3, <4>1, <4>2
    <3>4. CASE t # s
      <4>1. MapOf([sources EXCEPT ![s] = map][t]) = MapOf(sources[t])
        BY <1>2, <3>4
      <4>2. <<t, q>> \notin R
        BY <3>4
      <4> HIDE DEF U, V, R
      <4> QED
        BY <3>1, <4>1, <4>2
    <3> QED
      BY <3>3, <3>4
  <2>2. V[i] \subseteq Sources \X PrivateIds /\ U[i] \subseteq Sources \X PrivateIds
    BY DEF UsersIn
  <2> HIDE DEF U, V, R
  <2>3. V[i] = U[i] \ R
    BY <2>1, <2>2
  <2> QED
    BY <2>3 DEF R
<1>12. \A i \in Ids : IsFiniteSet(U[i])
  BY UsersFinite DEF UsersIn
<1> HIDE DEF U, V
<1>13. /\ new \in Maintainers /\ Agrees(new, V)
       /\ DomainOf(new) = DomainOf(odid) /\ Stored(new) = Stored(odid)
  BY <1>2, <1>5, <1>10, <1>11, <1>12, ReleasedAgrees
<1> HIDE DEF new
<1>14. \A i \in Stored(new) : new.tmplts[i].rec = odid.tmplts[i].rec
  BY <1>2, <1>13, SameDomain
<1>15. \A p \in PrivateIds : map[p] # 0 =>
         map[p] \in Stored(new) /\ new.tmplts[map[p]].rec = def[p]
  <2> SUFFICES ASSUME NEW p \in PrivateIds, map[p] # 0
               PROVE  map[p] \in Stored(new) /\ new.tmplts[map[p]].rec = def[p]
    OBVIOUS
  <2>1. p \notin ps /\ map[p] = old[p]
    BY <1>8
  <2>2. map[p] \in Stored(odid) /\ odid.tmplts[map[p]].rec = defined[s][p]
    BY <1>2, <2>1
  <2>3. TypeOf(defined[s][p]) # type
    BY <1>4, <2>1, <2>2
  <2>4. defined[s][p] # NULL
    <3>1. odid.tmplts[map[p]] \in Templates
      BY <1>2, <2>2 DEF Stored, Maintainers
    <3> QED
      BY <2>2, <3>1, NullAssumption DEF Templates
  <2> QED
    BY <1>9, <1>13, <1>14, <2>2, <2>3, <2>4
<1>16. /\ Stored(Maintainer(s)) \subseteq Stored(new)
       /\ \A i \in Stored(Maintainer(s)) :
            new.tmplts[i].rec = Maintainer(s).tmplts[i].rec
       /\ \A i \in Stored(new) : msg.view[i] = new.tmplts[i].rec
       /\ ~Lost(OdidOf[s]) => msg.view = DomainOf(new)
  BY <1>3, <1>13, <1>14 DEF odid
<1>17. Agrees(new, UsersIn([sources EXCEPT ![s] = map], OdidOf[s]))
  BY <1>13 DEF V
<1> QED
  BY <1>1, <1>3, <1>6, <1>7, <1>13, <1>15, <1>16, <1>17, RecordStep

\* The mapper does not change.
LEMMA MapperUnchanged ==
  ASSUME IInv, maintainers' = maintainers, sources' = sources, defined' = defined
  PROVE  CountersAgree' /\ MappedStored'
<1>1. CountersAgree'
  <2> SUFFICES ASSUME NEW q \in Odids, maintainers'[q] # NULL
               PROVE  Agrees(maintainers'[q], UsersIn(sources', q))
    BY DEF CountersAgree, Agrees, Unreferenced, NormalOf, OptionsOf, Stored,
           UsersIn, Users, Mapping, MapOf
  <2>1. Agrees(maintainers[q], UsersIn(sources, q))
    BY DEF IInv, CountersAgree, Agrees, Unreferenced, NormalOf,
           OptionsOf, Stored, UsersIn, Users, Mapping, MapOf
  <2> QED
    BY <2>1
<1>2. MappedStored'
  <2>1. \A t \in Sources : Mapping(t)' = Mapping(t)
    BY DEF Mapping
  <2> QED
    BY <2>1 DEF IInv, MappedStored, Stored
<1> QED
  BY <1>1, <1>2

\* The processing of a message begins.
LEMMA StartMessageStep ==
  ASSUME IInv, NEW s \in Sources, StartMessage(s)
  PROVE  IInv'
<1>1. /\ TypeOK /\ msg = NULL /\ OdidOf[s] \in Odids
      /\ maintainers' = maintainers /\ sources' = sources /\ dangling' = dangling
      /\ known' = known /\ defined' = defined /\ decoded' = {}
      /\ messages' \in 0..MaxMessages
  BY MapperAssumption DEF IInv, TypeOK, StartMessage, mapper_vars, Odids
<1>2. /\ msg' \in Messages /\ msg' # NULL /\ msg'.src = s
      /\ ~msg'.any_templates /\ msg'.view = known[OdidOf[s]] /\ msg'.data = {}
  <2>1. msg' = [src |-> s, records |-> 0, any_templates |-> FALSE,
                view |-> known[OdidOf[s]], data |-> {}]
    BY DEF StartMessage
  <2>2. known[OdidOf[s]] \in Views /\ 0 \in 0..MaxRecords
    BY <1>1, MapperAssumption DEF TypeOK
  <2>3. msg' \in Messages
    BY <2>1, <2>2 DEF Messages
  <2> QED
    BY <2>1, <2>3, NullAssumption
<1>3. \A o \in Odids : ViewOf(o)' = ViewOf(o) /\ ~Changing(o)' /\ ~Changing(o)
  BY <1>1, <1>2 DEF ViewOf, Changing
<1>4. TypeOK'
  BY <1>1, <1>2 DEF TypeOK
<1>5. CountersAgree' /\ MappedStored'
  BY <1>1, MapperUnchanged
<1>6. Announced'
  BY <1>1, <1>3 DEF IInv, Announced, Lost, Domain, Stored
<1>7. UnusedWithdrawn'
  BY <1>1, <1>3 DEF IInv, UnusedWithdrawn, Stored
<1>8. MessageStored' /\ DataAsMeant'
  BY <1>1, <1>2 DEF MessageStored, DataAsMeant
<1> QED
  BY <1>4, <1>5, <1>6, <1>7, <1>8 DEF IInv

\* A data set of a mapped template is added with the ID of the domain.
LEMMA DataSetStep ==
  ASSUME IInv, NEW s \in Sources, NEW p \in PrivateIds, DataSet(s, p)
  PROVE  IInv'
<1> DEFINE id == Mapping(s)[p]
           data == IF id = 0 THEN msg.data
                   ELSE msg.data \cup {<<defined[s][p], msg.view[id]>>}
<1>1. /\ TypeOK /\ msg # NULL /\ msg \in Messages /\ msg.src = s
      /\ maintainers' = maintainers /\ sources' = sources /\ dangling' = dangling
      /\ known' = known /\ defined' = defined /\ decoded' = decoded
      /\ messages' = messages /\ defined[s][p] \in Definitions
  BY DEF IInv, TypeOK, DataSet, mapper_vars
<1>2. msg' = [msg EXCEPT !.records = @ + 1, !.data = data]
  BY DEF DataSet
<1>3. ViewOf(OdidOf[s]) = msg.view
  BY <1>1 DEF ViewOf
<1>4. ASSUME id # 0
      PROVE  msg.view[id] = defined[s][p]
  <2>1. /\ id \in Stored(Maintainer(s))
        /\ Maintainer(s).tmplts[id].rec = defined[s][p]
    BY <1>4, MaintainerFacts
  <2> QED
    BY <1>3, <2>1, MaintainerFacts
<1>5. /\ data \in SUBSET Decodings
      /\ \A pair \in data : pair[1] = pair[2]
  <2>1. /\ msg.data \in SUBSET Decodings
        /\ \A pair \in msg.data : pair[1] = pair[2]
    BY <1>1 DEF Messages, IInv, DataAsMeant
  <2>2. CASE id = 0
    BY <2>1, <2>2
  <2>3. CASE id # 0
    <3>1. data = msg.data \cup {<<defined[s][p], defined[s][p]>>}
      BY <1>4, <2>3
    <3> HIDE DEF data, id
    <3> QED
      BY <1>1, <2>1, <3>1 DEF Decodings
  <2> QED
    BY <2>2, <2>3
<1> HIDE DEF data, id
<1>6. /\ msg' \in Messages /\ msg' # NULL /\ msg'.src = s
      /\ msg'.any_templates = msg.any_templates /\ msg'.view = msg.view
      /\ msg'.data = data
  <2>1. msg.records + 1 \in 0..MaxRecords
    BY <1>1, MapperAssumption DEF DataSet, Messages
  <2>2. msg' \in Messages
    BY <1>1, <1>2, <1>5, <2>1 DEF Messages
  <2> QED
    BY <1>1, <1>2, <2>2, NullAssumption DEF Messages
<1>7. \A o \in Odids : ViewOf(o)' = ViewOf(o) /\ Changing(o)' = Changing(o)
  BY <1>1, <1>6 DEF ViewOf, Changing
<1>8. TypeOK'
  BY <1>1, <1>6 DEF TypeOK
<1>9. CountersAgree' /\ MappedStored'
  BY <1>1, MapperUnchanged
<1>10. Announced'
  BY <1>1, <1>7 DEF IInv, Announced, Lost, Domain, Stored
<1>11. UnusedWithdrawn'
  BY <1>1, <1>7 DEF IInv, UnusedWithdrawn, Stored
<1>12. MessageStored'
  BY <1>1, <1>6 DEF IInv, MessageStored
<1>13. DataAsMeant'
  BY <1>1, <1>5, <1>6 DEF IInv, DataAsMeant
<1> QED
  BY <1>8, <1>9, <1>10, <1>11, <1>12, <1>13 DEF IInv

\* A message without templates is sent as it is.
LEMMA EndWithoutTemplatesStep ==
  ASSUME IInv, EndWithoutTemplates
  PROVE  IInv'
<1> DEFINE o == OdidOf[msg.src]
<1>1. /\ TypeOK /\ msg # NULL /\ msg \in Messages /\ ~msg.any_templates
      /\ maintainers' = maintainers /\ sources' = sources /\ dangling' = dangling
      /\ defined' = defined /\ messages' = messages /\ msg' = NULL
      /\ known' = [known EXCEPT ![o] = msg.view] /\ decoded' = msg.data
  BY DEF IInv, TypeOK, EndWithoutTemplates, Sent, mapper_vars
<1>2. o \in Odids /\ msg.view \in Views /\ msg.data \in SUBSET Decodings
  BY <1>1 DEF Messages, Odids
<1>3. \A q \in Odids : ViewOf(q)' = ViewOf(q) /\ ~Changing(q)' /\ ~Changing(q)
  BY <1>1, <1>2 DEF ViewOf, Changing, TypeOK
<1>4. TypeOK'
  BY <1>1, <1>2 DEF TypeOK
<1>5. CountersAgree' /\ MappedStored'
  BY <1>1, MapperUnchanged
<1>6. Announced'
  BY <1>1, <1>3 DEF IInv, Announced, Lost, Domain, Stored
<1>7. UnusedWithdrawn'
  BY <1>1, <1>3 DEF IInv, UnusedWithdrawn, Stored
<1>8. MessageStored' /\ DataAsMeant'
  BY <1>1 DEF IInv, MessageStored, DataAsMeant
<1> QED
  BY <1>4, <1>5, <1>6, <1>7, <1>8 DEF IInv

\* The IDs tmapper_withdraw_ids returns are all that are to be withdrawn: the
\* number of hits it stops at is not too small.
LEMMA WithdrawnFacts ==
  ASSUME NEW odid \in Maintainers, NEW U, Agrees(odid, U), NEW type
  PROVE  WithdrawnIds(odid, type) =
           {i \in Unreferenced(odid) : i < MaxId /\ TypeOf(odid.tmplts[i].rec) = type}
<1> DEFINE S == {i \in Scanned(odid, type) : odid.tmplts[i].ref_cnt = 0}
<1>1. S = {i \in Unreferenced(odid) : i < MaxId /\ TypeOf(odid.tmplts[i].rec) = type}
  BY DEF Scanned, Unreferenced
<1>2. S \subseteq Unreferenced(odid) /\ Unreferenced(odid) \subseteq Ids
  BY <1>1 DEF Unreferenced, Stored
<1> HIDE DEF S
<1>3. IsFiniteSet(Unreferenced(odid)) /\ Cardinality(Unreferenced(odid)) \in Nat
  BY <1>2, IdsFinite
<1>4. Cardinality(S) <= Cardinality(Unreferenced(odid))
  BY <1>2, <1>3, FS_Subset
<1>5. odid.to_remove = Cardinality(Unreferenced(odid))
  BY DEF Agrees
<1>6. S \subseteq Ids
  BY <1>2
<1>7. FirstOf(S, odid.to_remove) = S
  BY <1>3, <1>4, <1>5, <1>6, FirstOfAll
<1>8. WithdrawnIds(odid, type) = FirstOf(S, odid.to_remove)
  BY DEF WithdrawnIds, S
<1> QED
  BY <1>1, <1>7, <1>8

\* What a mapping leads to has a reference.
LEMMA MappedReferenced ==
  ASSUME IInv, NEW s \in Sources, NEW p \in PrivateIds, Mapping(s)[p] # 0,
         maintainers[OdidOf[s]] # NULL
  PROVE  /\ Mapping(s)[p] \in Stored(maintainers[OdidOf[s]])
         /\ Mapping(s)[p] \notin Unreferenced(maintainers[OdidOf[s]])
<1> DEFINE o == OdidOf[s]
           i == Mapping(s)[p]
<1>1. i \in Stored(maintainers[o]) /\ i \in Ids
  BY DEF IInv, MappedStored, Stored
<1>2. <<s, p>> \in Users(o, i) /\ Users(o, i) \subseteq Sources \X PrivateIds
  BY DEF Users
<1>3. o \in Odids
  BY DEF Odids
<1>4. maintainers[o].tmplts[i].ref_cnt = Cardinality(Users(o, i))
  BY <1>1, <1>3 DEF IInv, CountersAgree
<1> HIDE DEF i, o
<1>5. IsFiniteSet(Users(o, i))
  BY <1>2, UsersFinite
<1>6. Cardinality(Users(o, i)) # 0
  BY <1>2, <1>5, FS_EmptySet
<1>7. i \notin Unreferenced(maintainers[o])
  BY <1>4, <1>6 DEF Unreferenced
<1> QED
  BY <1>1, <1>7 DEF i, o

\* The two rounds of withdrawals at the end of a message with templates.
LEMMA EndFacts ==
  ASSUME IInv, msg # NULL, msg.any_templates
  PROVE  LET o      == OdidOf[msg.src]
             m      == maintainers[o]
             first  == WithdrawnIds(m, "template")
             odid   == Removed(m, first)
             second == WithdrawnIds(odid, "options")
             last   == Removed(odid, second)
             U      == UsersIn(sources, o) IN
         /\ o \in Odids /\ m # NULL /\ m \in Maintainers
         /\ odid \in Maintainers /\ Agrees(odid, U)
         /\ last \in Maintainers /\ Agrees(last, U)
         /\ Stored(odid) = Stored(m) \ first
         /\ Stored(last) = Stored(m) \ (first \cup second)
         /\ \A i \in Stored(last) : last.tmplts[i] = m.tmplts[i]
         /\ DomainOf(last) = Withdrawn(DomainOf(m), first \cup second)
         /\ first \subseteq Unreferenced(m) /\ second \subseteq Unreferenced(m)
         /\ \A i \in Stored(last) : i < MaxId => last.tmplts[i].ref_cnt # 0
<1> DEFINE o == OdidOf[msg.src]
           m == maintainers[o]
           first == WithdrawnIds(m, "template")
           odid == Removed(m, first)
           second == WithdrawnIds(odid, "options")
           last == Removed(odid, second)
           U == UsersIn(sources, o)
<1>1. /\ msg.src \in Sources /\ o \in Odids /\ m # NULL /\ m \in Maintainers
  <2>1. TypeOK /\ msg \in Messages /\ m # NULL
    BY DEF IInv, TypeOK, MessageStored
  <2>2. msg.src \in Sources /\ o \in Odids
    BY <2>1 DEF Messages, Odids
  <2> QED
    BY <2>1, <2>2 DEF TypeOK
<1>2. Agrees(m, U)
  <2>1. Maintainer(msg.src) = m
    BY <1>1 DEF Maintainer
  <2> QED
    BY <1>1, <2>1, MaintainerFacts
<1> HIDE DEF o, m, U
<1>3. first = {i \in Unreferenced(m) : i < MaxId /\ TypeOf(m.tmplts[i].rec) = "template"}
  BY <1>1, <1>2, WithdrawnFacts
<1> HIDE DEF first
<1>4. first \subseteq Unreferenced(m)
  BY <1>3
<1>5. /\ odid \in Maintainers /\ Agrees(odid, U)
      /\ DomainOf(odid) = Withdrawn(DomainOf(m), first)
      /\ Stored(odid) = Stored(m) \ first
      /\ \A i \in Stored(odid) : odid.tmplts[i] = m.tmplts[i]
  BY <1>1, <1>2, <1>4, RemovedAgrees
<1> HIDE DEF odid
<1>6. second = {i \in Unreferenced(odid) : i < MaxId /\ TypeOf(odid.tmplts[i].rec) = "options"}
  BY <1>5, WithdrawnFacts
<1> HIDE DEF second
<1>7. second \subseteq Unreferenced(odid)
  BY <1>6
<1>8. /\ last \in Maintainers /\ Agrees(last, U)
      /\ DomainOf(last) = Withdrawn(DomainOf(odid), second)
      /\ Stored(last) = Stored(odid) \ second
      /\ \A i \in Stored(last) : last.tmplts[i] = odid.tmplts[i]
  BY <1>5, <1>7, RemovedAgrees
<1> HIDE DEF last
<1>9. Unreferenced(odid) \subseteq Unreferenced(m)
  BY <1>5 DEF Unreferenced
<1>10. Stored(last) = Stored(m) \ (first \cup second)
  BY <1>5, <1>8
<1>11. \A i \in Stored(last) : last.tmplts[i] = m.tmplts[i] /\ i \in Stored(odid)
  BY <1>5, <1>8
<1>12. DomainOf(last) = Withdrawn(DomainOf(m), first \cup second)
  BY <1>5, <1>8 DEF Withdrawn
<1>13. \A i \in Stored(last) : i < MaxId => last.tmplts[i].ref_cnt # 0
  <2> SUFFICES ASSUME NEW i \in Stored(last), i < MaxId, last.tmplts[i].ref_cnt = 0
               PROVE  FALSE
    OBVIOUS
  <2>1. /\ i \in Unreferenced(m) /\ i \in Unreferenced(odid)
        /\ odid.tmplts[i] = m.tmplts[i] /\ i \notin first /\ i \notin second
    BY <1>5, <1>8, <1>10, <1>11 DEF Unreferenced
  <2>2. TypeOf(m.tmplts[i].rec) \in {"template", "options"}
    BY DEF TypeOf
  <2> QED
    BY <1>3, <1>6, <2>1, <2>2
<1> QED
  BY <1>1, <1>4, <1>5, <1>7, <1>8, <1>9, <1>10, <1>11, <1>12, <1>13
     DEF o, m, first, odid, second, last, U

\* A message ends that leaves its domain without mappings; the domain is freed.
LEMMA RemoveMaintainerStep ==
  ASSUME IInv, msg # NULL, msg.any_templates,
         \A t \in Sources, p \in PrivateIds :
           OdidOf[t] = OdidOf[msg.src] => Mapping(t)[p] = 0,
         RemoveMaintainer(OdidOf[msg.src]),
         msg' = NULL, known' \in [Odids -> Views],
         \A q \in Odids \ {OdidOf[msg.src]} : known'[q] = known[q],
         defined' = defined, messages' = messages,
         decoded' \subseteq Decodings, \A pair \in decoded' : pair[1] = pair[2]
  PROVE  IInv'
<1> DEFINE o == OdidOf[msg.src]
<1>1. TypeOK /\ msg \in Messages /\ msg.src \in Sources /\ o \in Odids
  BY DEF IInv, TypeOK, Messages, Odids
<1>2. /\ maintainers' = [maintainers EXCEPT ![o] = NULL] /\ sources' = sources
      /\ dangling' = dangling \cup {t \in Sources : OdidOf[t] = o /\ sources[t] # NULL}
  BY DEF RemoveMaintainer
<1>3. /\ maintainers'[o] = NULL
      /\ \A q \in Odids \ {o} : maintainers'[q] = maintainers[q]
  BY <1>1, <1>2 DEF TypeOK
<1>4. \A q \in Odids : Lost(q) \/ q = o => Lost(q)'
  <2>1. \A q \in Odids : Lost(q) => Lost(q)'
    BY <1>2 DEF Lost
  <2>2. msg.src \in dangling'
    BY <1>1, <1>2 DEF IInv, MessageStored
  <2> QED
    BY <2>1, <2>2 DEF Lost
<1>5. TypeOK'
  <2>1. maintainers' \in [Odids -> Maintainers \cup {NULL}]
    BY <1>1, <1>2 DEF TypeOK
  <2>2. dangling' \subseteq Sources
    BY <1>1, <1>2 DEF TypeOK
  <2> QED
    BY <1>1, <1>2, <2>1, <2>2 DEF TypeOK
<1>6. CountersAgree'
  <2> SUFFICES ASSUME NEW q \in Odids, maintainers'[q] # NULL
               PROVE  Agrees(maintainers'[q], UsersIn(sources', q))
    BY DEF CountersAgree, Agrees, Unreferenced, NormalOf, OptionsOf, Stored,
           UsersIn, Users, Mapping, MapOf
  <2>1. q # o /\ maintainers'[q] = maintainers[q]
    BY <1>3
  <2>2. Agrees(maintainers[q], UsersIn(sources, q))
    BY <2>1 DEF IInv, CountersAgree, Agrees, Unreferenced, NormalOf,
           OptionsOf, Stored, UsersIn, Users, Mapping, MapOf
  <2> QED
    BY <1>2, <2>1, <2>2
<1>7. MappedStored'
  <2> SUFFICES ASSUME NEW t \in Sources, NEW p \in PrivateIds, Mapping(t)'[p] # 0
               PROVE  /\ maintainers'[OdidOf[t]] # NULL
                      /\ Mapping(t)'[p] \in Stored(maintainers'[OdidOf[t]])
                      /\ maintainers'[OdidOf[t]].tmplts[Mapping(t)'[p]].rec
                           = defined'[t][p]
    BY DEF MappedStored, Stored
  <2>1. Mapping(t)' = Mapping(t)
    BY <1>2 DEF Mapping
  <2>2. OdidOf[t] # o
    BY <2>1
  <2>3. maintainers'[OdidOf[t]] = maintainers[OdidOf[t]]
    BY <1>3, <2>2 DEF Odids
  <2> QED
    BY <2>1, <2>3 DEF IInv, MappedStored
<1>8. Announced'
  <2> SUFFICES ASSUME NEW q \in Odids
               PROVE  /\ maintainers'[q] # NULL =>
                           \A i \in Stored(maintainers'[q]) :
                             ViewOf(q)'[i] = maintainers'[q].tmplts[i].rec
                      /\ ~Lost(q)' => ViewOf(q)' = Domain(q)'
    BY DEF Announced, Stored
  <2>1. CASE q = o
    BY <1>3, <1>4, <2>1
  <2>2. CASE q # o
    <3>1. ViewOf(q)' = ViewOf(q)
      BY <2>2 DEF ViewOf
    <3>2. Domain(q)' = Domain(q) /\ maintainers'[q] = maintainers[q]
      BY <1>3, <2>2 DEF Domain
    <3> QED
      BY <1>4, <3>1, <3>2 DEF IInv, Announced
  <2> QED
    BY <2>1, <2>2
<1>9. UnusedWithdrawn'
  <2> SUFFICES ASSUME NEW q \in Odids, maintainers'[q] # NULL
               PROVE  \A i \in Stored(maintainers'[q]) :
                        i < MaxId => maintainers'[q].tmplts[i].ref_cnt # 0
    BY DEF UnusedWithdrawn, Stored
  <2>1. q # o /\ maintainers'[q] = maintainers[q]
    BY <1>3
  <2>2. ~Changing(q)
    BY <2>1 DEF Changing
  <2> QED
    BY <2>1, <2>2 DEF IInv, UnusedWithdrawn
<1>10. MessageStored' /\ DataAsMeant'
  BY DEF MessageStored, DataAsMeant
<1> QED
  BY <1>5, <1>6, <1>7, <1>8, <1>9, <1>10 DEF IInv

\* A message with templates is sent, with the withdrawals at its end.
LEMMA EndWithTemplatesStep ==
  ASSUME IInv, EndWithTemplates
  PROVE  IInv'
<1> DEFINE o == OdidOf[msg.src]
           m == maintainers[o]
           first == WithdrawnIds(m, "template")
           odid == Removed(m, first)
           second == WithdrawnIds(odid, "options")
           last == Removed(odid, second)
           U == UsersIn(sources, o)
           view == Withdrawn(msg.view, first \cup second)
<1>1. /\ msg # NULL /\ msg.any_templates /\ Sent(view)
      /\ \/ Emptied(odid, last) /\ RemoveMaintainer(o)
         \/ /\ maintainers' = [maintainers EXCEPT ![o] = last]
            /\ sources' = sources /\ dangling' = dangling
  BY DEF EndWithTemplates
<1>2. /\ o \in Odids /\ m # NULL /\ m \in Maintainers
      /\ last \in Maintainers /\ Agrees(last, U)
      /\ Stored(last) = Stored(m) \ (first \cup second)
      /\ \A i \in Stored(last) : last.tmplts[i] = m.tmplts[i]
      /\ DomainOf(last) = Withdrawn(DomainOf(m), first \cup second)
      /\ first \subseteq Unreferenced(m) /\ second \subseteq Unreferenced(m)
      /\ \A i \in Stored(last) : i < MaxId => last.tmplts[i].ref_cnt # 0
  BY <1>1, EndFacts
<1>3. /\ TypeOK /\ msg \in Messages /\ msg.src \in Sources /\ msg.view \in Views
      /\ msg.data \in SUBSET Decodings
      /\ \A pair \in msg.data : pair[1] = pair[2]
  BY <1>1 DEF IInv, TypeOK, Messages, DataAsMeant
<1>4. /\ msg' = NULL /\ known' = [known EXCEPT ![o] = view] /\ decoded' = msg.data
      /\ defined' = defined /\ messages' = messages
  BY <1>1 DEF Sent
<1>5. /\ view \in Views
      /\ \A i \in Ids \ (first \cup second) : view[i] = msg.view[i]
  BY <1>3 DEF Withdrawn, Views
<1>6. ~Lost(o) => view = DomainOf(last)
  <2>1. ~Lost(o) => msg.view = DomainOf(m)
    <3>1. ViewOf(o) = msg.view /\ Domain(o) = DomainOf(m)
      BY <1>1, <1>2 DEF ViewOf, Domain, DomainOf
    <3> QED
      BY <1>2, <3>1 DEF IInv, Announced
  <2> HIDE DEF first, second, last
  <2> QED
    BY <1>2, <2>1
<1>7. \A i \in Stored(m) : msg.view[i] = m.tmplts[i].rec
  <2>1. ViewOf(o) = msg.view
    BY <1>1 DEF ViewOf
  <2> QED
    BY <1>2, <2>1 DEF IInv, Announced
<1>8. \A t \in Sources, p \in PrivateIds :
        OdidOf[t] = o /\ Mapping(t)[p] # 0 => Mapping(t)[p] \in Stored(last)
  BY <1>2, MappedReferenced
<1>9. /\ known' \in [Odids -> Views] /\ known'[o] = view
      /\ \A q \in Odids \ {o} : known'[q] = known[q]
  BY <1>2, <1>3, <1>4, <1>5 DEF TypeOK
<1> HIDE DEF first, odid, second, last, U, view
<1>10. CASE Emptied(odid, last) /\ RemoveMaintainer(o)
  <2>1. Stored(last) = {}
    BY <1>2, <1>10, NoneStored DEF Emptied
  <2>2. \A t \in Sources, p \in PrivateIds : OdidOf[t] = o => Mapping(t)[p] = 0
    BY <1>8, <2>1
  <2> QED
    BY <1>1, <1>3, <1>4, <1>9, <1>10, <2>2, RemoveMaintainerStep
<1>11. CASE /\ maintainers' = [maintainers EXCEPT ![o] = last]
            /\ sources' = sources /\ dangling' = dangling
  <2>1. /\ maintainers'[o] = last /\ last # NULL
        /\ \A q \in Odids \ {o} : maintainers'[q] = maintainers[q]
    BY <1>2, <1>3, <1>11, NullAssumption DEF TypeOK
  <2>2. \A t \in Sources : Mapping(t)' = Mapping(t)
    BY <1>11 DEF Mapping
  <2>3. TypeOK'
    BY <1>2, <1>3, <1>4, <1>9, <1>11 DEF TypeOK
  <2>4. CountersAgree'
    <3> SUFFICES ASSUME NEW q \in Odids, maintainers'[q] # NULL
                 PROVE  Agrees(maintainers'[q], UsersIn(sources', q))
      BY DEF CountersAgree, Agrees, Unreferenced, NormalOf, OptionsOf, Stored,
             UsersIn, Users, Mapping, MapOf
    <3>1. CASE q = o
      BY <1>2, <1>11, <2>1, <3>1 DEF U
    <3>2. CASE q # o
      <4>1. Agrees(maintainers[q], UsersIn(sources, q))
        BY <2>1, <3>2 DEF IInv, CountersAgree, Agrees, Unreferenced, NormalOf,
             OptionsOf, Stored, UsersIn, Users, Mapping, MapOf
      <4> QED
        BY <1>11, <2>1, <3>2, <4>1
    <3> QED
      BY <3>1, <3>2
  <2>5. MappedStored'
    <3> SUFFICES ASSUME NEW t \in Sources, NEW p \in PrivateIds, Mapping(t)'[p] # 0
                 PROVE  /\ maintainers'[OdidOf[t]] # NULL
                        /\ Mapping(t)'[p] \in Stored(maintainers'[OdidOf[t]])
                        /\ maintainers'[OdidOf[t]].tmplts[Mapping(t)'[p]].rec
                             = defined'[t][p]
      BY DEF MappedStored, Stored
    <3>1. CASE OdidOf[t] = o
      <4>1. /\ Mapping(t)[p] \in Stored(last)
            /\ m.tmplts[Mapping(t)[p]].rec = defined[t][p]
        BY <1>8, <2>2, <3>1 DEF IInv, MappedStored
      <4> QED
        BY <1>2, <1>4, <2>1, <2>2, <3>1, <4>1
    <3>2. CASE OdidOf[t] # o
      <4>1. maintainers'[OdidOf[t]] = maintainers[OdidOf[t]]
        BY <2>1, <3>2 DEF Odids
      <4> QED
        BY <1>4, <2>2, <4>1 DEF IInv, MappedStored
    <3> QED
      BY <3>1, <3>2
  <2>6. Announced'
    <3> SUFFICES ASSUME NEW q \in Odids
                 PROVE  /\ maintainers'[q] # NULL =>
                             \A i \in Stored(maintainers'[q]) :
                               ViewOf(q)'[i] = maintainers'[q].tmplts[i].rec
                        /\ ~Lost(q)' => ViewOf(q)' = Domain(q)'
      BY DEF Announced, Stored
    <3>1. Lost(q)' = Lost(q)
      BY <1>11 DEF Lost
    <3>2. ViewOf(q)' = known'[q]
      BY <1>4 DEF ViewOf
    <3>3. CASE q = o
      <4>1. Domain(q)' = DomainOf(last)
        BY <2>1, <3>3 DEF Domain, DomainOf
      <4>2. \A i \in Stored(last) : view[i] = last.tmplts[i].rec
        BY <1>2, <1>5, <1>7 DEF Stored
      <4> QED
        BY <1>6, <1>9, <2>1, <3>1, <3>2, <3>3, <4>1, <4>2
    <3>4. CASE q # o
      <4>1. ViewOf(q)' = ViewOf(q)
        BY <1>9, <3>2, <3>4 DEF ViewOf
      <4>2. Domain(q)' = Domain(q)
        BY <2>1, <3>4 DEF Domain
      <4> QED
        BY <2>1, <3>1, <3>4, <4>1, <4>2 DEF IInv, Announced
    <3> QED
      BY <3>3, <3>4
  <2>7. UnusedWithdrawn'
    <3> SUFFICES ASSUME NEW q \in Odids, maintainers'[q] # NULL
                 PROVE  \A i \in Stored(maintainers'[q]) :
                          i < MaxId => maintainers'[q].tmplts[i].ref_cnt # 0
      BY DEF UnusedWithdrawn, Stored
    <3>1. CASE q = o
      BY <1>2, <2>1, <3>1
    <3>2. CASE q # o
      <4>1. ~Changing(q)
        BY <3>2 DEF Changing
      <4> QED
        BY <2>1, <3>2, <4>1 DEF IInv, UnusedWithdrawn
    <3> QED
      BY <3>1, <3>2
  <2>8. MessageStored' /\ DataAsMeant'
    BY <1>3, <1>4 DEF MessageStored, DataAsMeant
  <2> QED
    BY <2>3, <2>4, <2>5, <2>6, <2>7, <2>8 DEF IInv
<1> QED
  BY <1>1, <1>10, <1>11

\* The processing of a message fails, and nothing is sent.
LEMMA EndFailsStep ==
  ASSUME IInv, EndFails
  PROVE  IInv'
<1> DEFINE o == OdidOf[msg.src]
           m == maintainers[o]
           first == WithdrawnIds(m, "template")
           odid == Removed(m, first)
           U == UsersIn(sources, o)
<1>1. /\ msg # NULL /\ msg.any_templates /\ Emptied(m, odid)
      /\ RemoveMaintainer(o) /\ msg' = NULL
      /\ known' = known /\ defined' = defined /\ decoded' = decoded
      /\ messages' = messages
  BY DEF EndFails
<1>2. /\ m # NULL /\ Agrees(odid, U) /\ Stored(odid) = Stored(m) \ first
      /\ first \subseteq Unreferenced(m)
  BY <1>1, EndFacts
<1>3. Stored(odid) = {}
  BY <1>1, <1>2, NoneStored DEF Emptied
<1>4. \A t \in Sources, p \in PrivateIds : OdidOf[t] = o => Mapping(t)[p] = 0
  BY <1>2, <1>3, MappedReferenced
<1>5. /\ known \in [Odids -> Views] /\ decoded \subseteq Decodings
      /\ \A pair \in decoded : pair[1] = pair[2]
  BY DEF IInv, TypeOK, DataAsMeant
<1> QED
  BY <1>1, <1>4, <1>5, RemoveMaintainerStep

-----------------------------------------------------------------------------
(***************************************************************************)
(* The theorems.                                                           *)
(***************************************************************************)

\* The invariant holds of a mapper that was just created.
LEMMA InitIInv == Init => IInv
<1> SUFFICES ASSUME Init PROVE IInv
  OBVIOUS
<1>1. /\ \A o \in Odids : maintainers[o] = NULL /\ known[o] = NoTemplates
      /\ \A s \in Sources : Mapping(s) = NoMapping
      /\ dangling = {} /\ msg = NULL /\ decoded = {}
  BY DEF Init, Mapping
<1>2. TypeOK
  BY MapperAssumption DEF Init, TypeOK, NoTemplates, Views
<1>3. CountersAgree /\ UnusedWithdrawn
  BY <1>1 DEF CountersAgree, UnusedWithdrawn
<1>4. MappedStored
  BY <1>1 DEF MappedStored, NoMapping
<1>5. Announced
  BY <1>1 DEF Announced, ViewOf, Domain
<1>6. MessageStored /\ DataAsMeant
  BY <1>1 DEF MessageStored, DataAsMeant
<1> QED
  BY <1>2, <1>3, <1>4, <1>5, <1>6 DEF IInv

\* Every step keeps the invariant: one case for each action.
LEMMA NextIInv == IInv /\ [Next]_vars => IInv'
<1> SUFFICES ASSUME IInv, [Next]_vars PROVE IInv'
  OBVIOUS
<1>1. CASE UNCHANGED vars
  <2>1. /\ maintainers' = maintainers /\ sources' = sources /\ dangling' = dangling
        /\ msg' = msg /\ known' = known /\ defined' = defined
        /\ decoded' = decoded /\ messages' = messages
    BY <1>1 DEF vars, mapper_vars
  <2>2. CountersAgree' /\ MappedStored'
    BY <2>1, MapperUnchanged
  <2>3. \A o \in Odids : ViewOf(o)' = ViewOf(o) /\ Changing(o)' = Changing(o)
    BY <2>1 DEF ViewOf, Changing
  <2>4. TypeOK'
    BY <2>1 DEF IInv, TypeOK
  <2>5. Announced'
    BY <2>1, <2>3 DEF IInv, Announced, Lost, Domain, Stored
  <2>6. UnusedWithdrawn'
    BY <2>1, <2>3 DEF IInv, UnusedWithdrawn, Stored
  <2>7. MessageStored' /\ DataAsMeant'
    BY <2>1 DEF IInv, MessageStored, DataAsMeant
  <2> QED
    BY <2>2, <2>4, <2>5, <2>6, <2>7 DEF IInv
<1>2. ASSUME NEW s \in Sources, StartMessage(s) PROVE IInv'
  BY <1>2, StartMessageStep
<1>3. ASSUME NEW s \in Sources, NEW p \in PrivateIds, NEW d \in Definitions,
             RepeatTemplate(s, p, d)
      PROVE  IInv'
  BY <1>3, RepeatTemplateStep
<1>4. ASSUME NEW s \in Sources, NEW p \in PrivateIds, NEW d \in Definitions,
             ShareTemplate(s, p, d)
      PROVE  IInv'
  BY <1>4, ShareTemplateStep
<1>5. ASSUME NEW s \in Sources, NEW p \in PrivateIds, NEW d \in Definitions,
             NewTemplate(s, p, d)
      PROVE  IInv'
  BY <1>5, NewTemplateStep
<1>6. ASSUME NEW s \in Sources, NEW p \in PrivateIds, NEW d \in Definitions,
             RefuseTemplate(s, p, d)
      PROVE  IInv'
  BY <1>6, UnmapStep DEF RefuseTemplate, ChangesTemplate
<1>7. ASSUME NEW s \in Sources, NEW p \in PrivateIds, WithdrawTemplate(s, p)
      PROVE  IInv'
  <2>1. NULL \in Definitions \cup {NULL}
    OBVIOUS
  <2> QED
    BY <1>7, <2>1, UnmapStep DEF WithdrawTemplate
<1>8. ASSUME NEW s \in Sources, NEW p \in PrivateIds, DataSet(s, p) PROVE IInv'
  BY <1>8, DataSetStep
<1>9. ASSUME NEW s \in Sources, NEW type \in Types, WithdrawAll(s, type) PROVE IInv'
  BY <1>9, WithdrawAllStep
<1>10. CASE EndWithoutTemplates
  BY <1>10, EndWithoutTemplatesStep
<1>11. CASE EndWithTemplates
  BY <1>11, EndWithTemplatesStep
<1>12. CASE EndFails
  BY <1>12, EndFailsStep
<1> QED
  BY <1>1, <1>2, <1>3, <1>4, <1>5, <1>6, <1>7, <1>8, <1>9, <1>10, <1>11, <1>12
     DEF Next

\* The invariant holds in every state of the mapper.
THEOREM Invariant == Spec => []IInv
  BY InitIInv, NextIInv, PTL DEF Spec

\* The counters of a domain, which decide what tmapper_withdraw_ids withdraws
\* and how many template IDs its array has room for, count what they should.
THEOREM CountersCorrect == Spec => []CountersAgree
<1>1. IInv => CountersAgree
  BY DEF IInv
<1> QED
  BY <1>1, Invariant, PTL

\* Data of exporters that share an Observation Domain reaches a receiver under
\* an ID that has, for the receiver, the exporter's definition.
THEOREM Decoding == Spec => []DecodedAsMeant
<1>1. IInv => DecodedAsMeant
  BY DEF IInv, DataAsMeant, DecodedAsMeant
<1> QED
  BY <1>1, Invariant, PTL

\* Between messages the receiver has the templates of the mapper and, but for
\* the last ID, only those in use, in every domain that was never freed.
THEOREM ReceiverSynchronized == Spec => []ReceiverHasTemplates
<1>1. IInv => ReceiverHasTemplates
  <2> SUFFICES ASSUME IInv, msg = NULL, NEW o \in Odids, ~Lost(o)
               PROVE  /\ known[o] = Domain(o)
                      /\ \A i \in Ids \ {MaxId} :
                           Domain(o)[i] # NULL => Users(o, i) # {}
    BY DEF ReceiverHasTemplates
  <2>1. known[o] = Domain(o)
    <3>1. ViewOf(o) = known[o]
      BY DEF ViewOf
    <3> QED
      BY <3>1 DEF IInv, Announced
  <2>2. ASSUME NEW i \in Ids \ {MaxId}, Domain(o)[i] # NULL
        PROVE  Users(o, i) # {}
    <3>1. maintainers[o] # NULL /\ i \in Stored(maintainers[o])
      BY <2>2 DEF Domain, NoTemplates, Stored
    <3>2. i < MaxId
      BY MapperAssumption DEF Ids
    <3>3. maintainers[o].tmplts[i].ref_cnt # 0
      BY <3>1, <3>2 DEF IInv, UnusedWithdrawn, Changing
    <3>4. maintainers[o].tmplts[i].ref_cnt = Cardinality(Users(o, i))
      BY <3>1 DEF IInv, CountersAgree
    <3>5. Users(o, i) = {} => Cardinality(Users(o, i)) = 0
      BY FS_EmptySet
    <3> QED
      BY <3>3, <3>4, <3>5
  <2> QED
    BY <2>1, <2>2
<1> QED
  BY <1>1, Invariant, PTL

\* A destination that connects later gets every template in use, save one with
\* the last ID: the number of hits tmapper_get_templates stops at is enough.
THEOREM ResendingComplete == Spec => []ResentTemplatesComplete
<1>1. IInv => ResentTemplatesComplete
  <2> SUFFICES ASSUME IInv, NEW s \in Sources, NEW p \in PrivateIds,
                      Mapping(s)[p] \notin {0, MaxId}
               PROVE  Mapping(s)[p] \in Resent(OdidOf[s])
    BY DEF ResentTemplatesComplete
  <2> DEFINE o == OdidOf[s]
             m == maintainers[o]
             i == Mapping(s)[p]
             type == TypeOf(m.tmplts[i].rec)
             n == IF type = "template" THEN m.templates_normal
                                       ELSE m.templates_options
  <2>1. /\ m # NULL /\ i \in Stored(m) /\ i \in Ids
    BY DEF IInv, MappedStored, Stored
  <2>2. i < MaxId
    BY <2>1, MapperAssumption DEF Ids
  <2>3. Maintainer(s) = m
    BY <2>1 DEF Maintainer
  <2>4. m \in Maintainers /\ Agrees(m, UsersIn(sources, o))
    BY <2>3, MaintainerFacts
  <2>5. type \in Types
    BY DEF TypeOf, Types
  <2>6. tmapper_get_templates(m, type) = FirstOf(Scanned(m, type), n)
    BY DEF tmapper_get_templates
  <2>7. Resent(o) = UNION {tmapper_get_templates(m, t) : t \in Types}
    BY DEF Resent
  <2> HIDE DEF o, m, i
  <2>8. i \in Scanned(m, type)
    BY <2>1, <2>2 DEF Scanned
  <2>9. CASE type = "template"
    <3>1. Scanned(m, type) \subseteq NormalOf(m)
      BY <2>9 DEF Scanned, NormalOf, TypeOf
    <3>2. NormalOf(m) \subseteq Ids
      BY DEF NormalOf, Stored
    <3>3. n = Cardinality(NormalOf(m)) /\ IsFiniteSet(NormalOf(m)) /\ n \in Nat
      BY <2>4, <2>9, <3>2, IdsFinite DEF Agrees
    <3>4. Cardinality(Scanned(m, type)) <= n
      BY <3>1, <3>3, FS_Subset
    <3> HIDE DEF n, type
    <3>5. FirstOf(Scanned(m, type), n) = Scanned(m, type)
      BY <3>1, <3>2, <3>3, <3>4, FirstOfAll
    <3> QED
      BY <2>5, <2>6, <2>7, <2>8, <3>5 DEF i, o
  <2>10. CASE type = "options"
    <3>1. Scanned(m, type) \subseteq OptionsOf(m)
      BY <2>10 DEF Scanned, OptionsOf, TypeOf
    <3>2. OptionsOf(m) \subseteq Ids
      BY DEF OptionsOf, Stored
    <3>3. n = Cardinality(OptionsOf(m)) /\ IsFiniteSet(OptionsOf(m)) /\ n \in Nat
      BY <2>4, <2>10, <3>2, IdsFinite DEF Agrees
    <3>4. Cardinality(Scanned(m, type)) <= n
      BY <3>1, <3>3, FS_Subset
    <3> HIDE DEF n, type
    <3>5. FirstOf(Scanned(m, type), n) = Scanned(m, type)
      BY <3>1, <3>2, <3>3, <3>4, FirstOfAll
    <3> QED
      BY <2>5, <2>6, <2>7, <2>8, <3>5 DEF i, o
  <2> QED
    BY <2>5, <2>9, <2>10 DEF Types
<1> QED
  BY <1>1, Invariant, PTL

=============================================================================
