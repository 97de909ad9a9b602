------------------------- MODULE PacketBuilderProofs -------------------------
(***************************************************************************)
(* Proofs about PacketBuilder for messages of any number of parts and any  *)
(* lengths, sizes of packets and orders in which packets are asked for.    *)
(***************************************************************************)
EXTENDS PacketBuilder, TLAPS, FiniteSetTheorems, SequenceTheorems,
        WellFoundedInduction

(***************************************************************************)
(* The inductive invariant.                                                *)
(***************************************************************************)

\* A message begins with a Set, and no Set is longer than what fits into the
\* longest packet.
SetsFit ==
  ~Ready =>
    /\ rec_size > 1 => rec_set_start[2]
    /\ \A i \in 2..rec_size :
         rec_set_start[i] => IPFIX_HEADER_LENGTH + parts_aux_set_len(i) <= MaxLength

\* The header that is told of new templates is that of the last Set, and has
\* its length.
LastSet ==
  /\ ~is_complete /\ last_set_type \in Types \X {"define", "withdraw"} =>
       last_set_header # NULL
  /\ ~is_complete /\ last_set_header # NULL =>
       /\ last_set_header \in 2..rec_size
       /\ rec_set_start[last_set_header]
       /\ \A k \in (last_set_header + 1)..rec_size : ~rec_set_start[k]
       /\ length[last_set_header] = SumLengths(rec_flds, last_set_header..rec_size)

\* Packets exist, and are handed out, only when the builder is complete.
Phases ==
  /\ ~is_complete => pkt_arr = <<>>
  /\ is_complete => Len(built) = rec_size
  /\ fetched # NULL => Ready /\ fetched.idx \in DOMAIN pkt_arr

\* The loop stands at the start of a Set, behind the whole Sets of the packet
\* that is being filled; that packet is longer than wanted only with one Set.
LoopInv ==
  Cutting =>
    /\ rec_flds = built
    /\ loop.start \in 2..rec_size /\ rec_set_start[loop.start]
    /\ loop.i \in loop.start..(rec_size + 1) /\ loop.parts = loop.i - loop.start
    /\ loop.i <= rec_size => rec_set_start[loop.i]
    /\ loop.cur_len = IPFIX_HEADER_LENGTH + SumLengths(built, loop.start..(loop.i - 1))
    /\ loop.parts > 0 =>
         /\ loop.cur_len <= MaxLength
         /\ \/ loop.cur_len <= loop.max_size
            \/ \A k \in (loop.start + 1)..(loop.i - 1) : ~rec_set_start[k]

End(p) == p.start + p.size - 1

\* The last place that is in a packet.
CutEnd == IF Ready THEN rec_size ELSE loop.start - 1

\* A packet is no longer than it may be.
Limited(p) ==
  LET len == IPFIX_HEADER_LENGTH + SumLengths(built, Places(p)) IN
  /\ len <= MaxLength
  /\ \/ len <= loop.max_size
     \/ \A i \in Places(p) : i > p.start + 1 => ~rec_set_start[i]

\* A packet starts with a Set, has a copy of its last part, and counts its
\* records.
PacketInv(p) ==
  /\ p.start >= 1 /\ p.size > 1 /\ End(p) <= CutEnd
  /\ rec_set_start[p.start + 1]
  /\ p.backup = built[End(p)]
  /\ p.rec_cnt = Total(rec_cnt, Places(p))
  /\ Limited(p)

\* The packets follow each other, and every place is in one of them.
PacketsInv ==
  is_complete =>
    /\ \A k \in DOMAIN pkt_arr : PacketInv(pkt_arr[k])
    /\ \A k, m \in DOMAIN pkt_arr : k < m => End(pkt_arr[k]) <= pkt_arr[m].start
    /\ \A k \in DOMAIN pkt_arr :
         k > 1 => pkt_arr[k].start = End(pkt_arr[k - 1])
    /\ pkt_arr # <<>> => End(pkt_arr[Len(pkt_arr)]) = CutEnd
    /\ \A j \in 2..CutEnd : \E k \in DOMAIN pkt_arr : j \in Places(pkt_arr[k])

\* A place that was overwritten has a header, and is the start of a packet.
FieldsInv ==
  Ready => \A j \in 1..rec_size :
    \/ rec_flds[j] = built[j]
    \/ rec_flds[j] = PacketHeader /\ \E k \in DOMAIN pkt_arr : pkt_arr[k].start = j

IInv ==
  /\ TypeOK
  /\ SetsFit
  /\ SetLengthsTrue
  /\ LastSet
  /\ Phases
  /\ LoopInv
  /\ PacketsInv
  /\ FieldsInv
  /\ PacketAsBuilt

-----------------------------------------------------------------------------
(***************************************************************************)
(* Sums.                                                                   *)
(***************************************************************************)

\* What is counted is finite.
LEMMA TotalType ==
  ASSUME NEW f, NEW S, IsFiniteSet(S)
  PROVE  IsFiniteSet(Counted(f, S)) /\ Total(f, S) \in Nat
<1>1. IsFiniteSet(1..MaxLength)
  BY FS_Interval, BuilderAssumption
<1>2. IsFiniteSet(S \X (1..MaxLength))
  BY <1>1, FS_Product
<1>3. Counted(f, S) \in SUBSET (S \X (1..MaxLength))
  BY DEF Counted
<1>4. IsFiniteSet(Counted(f, S))
  BY <1>2, <1>3, FS_Subset
<1> QED
  BY <1>4, FS_CardinalityType DEF Total

\* A sum is split.
LEMMA TotalUnion ==
  ASSUME NEW f, NEW S, NEW T, IsFiniteSet(S), IsFiniteSet(T), S \cap T = {}
  PROVE  Total(f, S \cup T) = Total(f, S) + Total(f, T)
<1> DEFINE A == Counted(f, S)
           B == Counted(f, T)
<1>1. IsFiniteSet(A) /\ IsFiniteSet(B)
  BY TotalType
<1>2. Counted(f, S \cup T) = A \cup B /\ A \cap B = {}
  <2>1. ASSUME NEW u \in Counted(f, S \cup T) PROVE u \in A \cup B
    BY DEF Counted
  <2>2. A \subseteq Counted(f, S \cup T) /\ B \subseteq Counted(f, S \cup T)
    BY DEF Counted
  <2>3. ASSUME NEW u \in A, u \in B PROVE FALSE
    BY <2>3 DEF Counted
  <2> QED
    BY <2>1, <2>2, <2>3
<1>3. Cardinality(A) \in Nat /\ Cardinality(B) \in Nat
  BY <1>1, FS_CardinalityType
<1> HIDE DEF A, B
<1>4. Cardinality(A \cup B) = Cardinality(A) + Cardinality(B) - Cardinality(A \cap B)
  BY <1>1, FS_Union
<1>5. Cardinality(A \cap B) = 0
  BY <1>2, FS_EmptySet
<1>6. Cardinality(A \cup B) = Cardinality(A) + Cardinality(B)
  BY <1>3, <1>4, <1>5
<1>7. Total(f, S) = Cardinality(A) /\ Total(f, T) = Cardinality(B)
      /\ Total(f, S \cup T) = Cardinality(A \cup B)
  BY <1>2 DEF Total, A, B
<1> QED
  BY <1>6, <1>7

\* Only the values at the places of S matter.
LEMMA TotalSame ==
  ASSUME NEW f, NEW g, NEW S, \A i \in S : f[i] = g[i]
  PROVE  Total(f, S) = Total(g, S)
<1>1. Counted(f, S) = Counted(g, S)
  <2>1. ASSUME NEW u \in S \X (1..MaxLength) PROVE f[u[1]] = g[u[1]]
    OBVIOUS
  <2> QED
    BY <2>1 DEF Counted
<1> QED
  BY <1>1 DEF Total

\* The sum at one place.
LEMMA TotalSingle ==
  ASSUME NEW f, NEW i, f[i] \in 0..MaxLength
  PROVE  Total(f, {i}) = f[i]
<1> DEFINE n == f[i]
<1>1. n \in Nat /\ n <= MaxLength
  BY BuilderAssumption
<1>2. Counted(f, {i}) = {i} \X (1..n)
  <2>1. ASSUME NEW u \in Counted(f, {i}) PROVE u \in {i} \X (1..n)
    BY <1>1 DEF Counted
  <2>2. ASSUME NEW u \in {i} \X (1..n) PROVE u \in Counted(f, {i})
    BY <1>1, BuilderAssumption DEF Counted
  <2> QED
    BY <2>1, <2>2
<1> HIDE DEF n
<1>3. IsFiniteSet(1..n) /\ Cardinality(1..n) = n
  BY <1>1, FS_Interval
<1>4. IsFiniteSet({i}) /\ Cardinality({i}) = 1
  BY FS_Singleton
<1>5. Cardinality({i} \X (1..n)) = Cardinality({i}) * Cardinality(1..n)
  BY <1>3, <1>4, FS_Product
<1>6. Cardinality({i} \X (1..n)) = n
  BY <1>1, <1>3, <1>4, <1>5
<1>7. Total(f, {i}) = Cardinality({i} \X (1..n))
  BY <1>2 DEF Total
<1> QED
  BY <1>6, <1>7 DEF n

\* Nothing counts nothing.
LEMMA TotalEmpty ==
  ASSUME NEW f
  PROVE  Total(f, {}) = 0
<1>1. Counted(f, {}) = {}
  BY DEF Counted
<1> QED
  BY <1>1, FS_EmptySet DEF Total

Shifted(f, g, a, b, d) == Total(g, (a + d)..(b + d)) = Total(f, a..b)

\* The sum over a range of places that was moved by d.
LEMMA TotalShift ==
  ASSUME NEW f, NEW g, NEW a \in Int, NEW b \in Int, NEW d \in Int,
         \A i \in a..b : g[i + d] = f[i]
  PROVE  Shifted(f, g, a, b, d)
<1> DEFINE S == Counted(f, a..b)
           T == Counted(g, (a + d)..(b + d))
           F == [u \in S |-> <<u[1] + d, u[2]>>]
<1>1. F \in [S -> T]
  <2> SUFFICES ASSUME NEW u \in S PROVE <<u[1] + d, u[2]>> \in T
    OBVIOUS
  <2>1. u[1] \in a..b /\ u[2] \in 1..MaxLength /\ u[2] <= f[u[1]]
    BY DEF Counted
  <2>2. u[1] + d \in (a + d)..(b + d) /\ g[u[1] + d] = f[u[1]]
    BY <2>1
  <2> QED
    BY <2>1, <2>2 DEF Counted
<1>2. ASSUME NEW u \in S, NEW v \in S, F[u] = F[v] PROVE u = v
  <2>1. u \in (a..b) \X (1..MaxLength) /\ v \in (a..b) \X (1..MaxLength)
    BY DEF Counted
  <2>2. u[1] + d = v[1] + d /\ u[2] = v[2]
    BY <1>2
  <2>3. u[1] = v[1]
    BY <2>1, <2>2
  <2> QED
    BY <2>1, <2>2, <2>3
<1>3. ASSUME NEW t \in T PROVE \E u \in S : F[u] = t
  <2>1. /\ t[1] \in (a + d)..(b + d) /\ t[2] \in 1..MaxLength /\ t[2] <= g[t[1]]
        /\ t = <<t[1], t[2]>>
    BY DEF Counted
  <2> DEFINE i == t[1] - d
  <2>2. i \in a..b /\ i + d = t[1]
    BY <2>1
  <2>3. <<i, t[2]>> \in S
    BY <2>1, <2>2 DEF Counted
  <2> QED
    BY <2>1, <2>2, <2>3
<1>4. F \in Bijection(S, T)
  BY <1>1, <1>2, <1>3 DEF Bijection, Injection, Surjection, IsInjective
<1>5. IsFiniteSet(a..b)
  BY FS_Interval
<1>6. IsFiniteSet(S)
  BY <1>5, TotalType
<1>7. ExistsBijection(S, T)
  BY <1>4 DEF ExistsBijection
<1> HIDE DEF S, T
<1>8. Cardinality(T) = Cardinality(S)
  BY <1>6, <1>7, FS_Bijection
<1> QED
  BY <1>8 DEF Shifted, Total, S, T

SumsUp(flds, a, b, c) ==
  SumLengths(flds, a..c) = SumLengths(flds, a..b) + SumLengths(flds, (b + 1)..c)

\* The lengths of a range of parts are split.
LEMMA SumSplit ==
  ASSUME NEW flds, NEW a \in Int, NEW b \in Int, NEW c \in Int, a <= b + 1, b <= c
  PROVE  SumsUp(flds, a, b, c)
<1>1. a..c = (a..b) \cup ((b + 1)..c) /\ (a..b) \cap ((b + 1)..c) = {}
  OBVIOUS
<1>2. IsFiniteSet(a..b) /\ IsFiniteSet((b + 1)..c)
  BY FS_Interval
<1> DEFINE S == a..b
           T == (b + 1)..c
<1> HIDE DEF S, T
<1>3. Total([i \in DOMAIN flds |-> flds[i].len], S \cup T)
        = Total([i \in DOMAIN flds |-> flds[i].len], S)
          + Total([i \in DOMAIN flds |-> flds[i].len], T)
  BY <1>1, <1>2, TotalUnion DEF S, T
<1> QED
  BY <1>1, <1>3 DEF SumsUp, SumLengths, S, T

\* The length of one part.
LEMMA SumOne ==
  ASSUME NEW flds \in Seq(Fields), NEW i \in DOMAIN flds
  PROVE  SumLengths(flds, i..i) = flds[i].len
<1> DEFINE f == [j \in DOMAIN flds |-> flds[j].len]
<1>1. f[i] = flds[i].len /\ f[i] \in 0..MaxLength
  <2>1. flds[i] \in Fields
    OBVIOUS
  <2>2. flds[i].len \in 0..MaxLength
    BY <2>1 DEF Fields
  <2> QED
    BY <2>2
<1>2. i \in Int /\ i..i = {i}
  OBVIOUS
<1> HIDE DEF f
<1>3. Total(f, {i}) = f[i]
  BY <1>1, TotalSingle
<1>4. SumLengths(flds, i..i) = Total(f, i..i)
  BY DEF SumLengths, f
<1> QED
  BY <1>1, <1>2, <1>3, <1>4

\* Lengths depend on the parts at the places of S alone.
LEMMA SumSame ==
  ASSUME NEW flds, NEW gs, NEW S,
         \A i \in S : i \in DOMAIN flds /\ i \in DOMAIN gs /\ flds[i] = gs[i]
  PROVE  SumLengths(flds, S) = SumLengths(gs, S)
  BY TotalSame DEF SumLengths

\* Lengths are numbers.
LEMMA SumType ==
  ASSUME NEW flds, NEW a \in Int, NEW b \in Int
  PROVE  SumLengths(flds, a..b) \in Nat
<1>1. IsFiniteSet(a..b)
  BY FS_Interval
<1> QED
  BY <1>1, TotalType DEF SumLengths

\* No places, no length.
LEMMA SumNone ==
  ASSUME NEW flds, NEW a \in Int, NEW b \in Int, b < a
  PROVE  SumLengths(flds, a..b) = 0
<1>1. a..b = {}
  OBVIOUS
<1> QED
  BY <1>1, TotalEmpty DEF SumLengths

-----------------------------------------------------------------------------
(***************************************************************************)
(* Sets: the parts from the start of a Set up to the next start.           *)
(***************************************************************************)

\* A set of numbers that is not empty has a least one.
LEMMA Least ==
  ASSUME NEW S \in SUBSET Nat, S # {}
  PROVE  \E m \in S : \A k \in S : m <= k
<1>1. PICK m \in S : \A k \in S : ~(<<k, m>> \in OpToRel(<, Nat))
  BY WFMin, NatLessThanWellFounded, Zenon
<1>2. \A k \in S : ~(k < m)
  BY <1>1 DEF OpToRel
<1> QED
  BY <1>2

SetOf(start, n, i) == {j \in i..n : \A k \in (i + 1)..j : ~start[k]}

\* The parts of a Set are a range, behind which the next Set starts.
LEMMA SetRange ==
  ASSUME NEW start, NEW n \in Nat, NEW i \in 1..n
  PROVE  \E e \in i..n :
           /\ SetOf(start, n, i) = i..e
           /\ \A k \in (i + 1)..e : ~start[k]
           /\ e < n => start[e + 1]
<1> DEFINE S == {k \in (i + 1)..n : start[k]}
<1>1. CASE S = {}
  <2>1. \A k \in (i + 1)..n : ~start[k]
    BY <1>1
  <2>2. SetOf(start, n, i) = i..n
    BY <2>1 DEF SetOf
  <2> QED
    BY <2>1, <2>2
<1>2. CASE S # {}
  <2>1. S \in SUBSET Nat
    OBVIOUS
  <2>2. PICK m \in S : \A k \in S : m <= k
    BY <1>2, <2>1, Least
  <2> DEFINE e == m - 1
  <2>3. m \in (i + 1)..n /\ start[m]
    OBVIOUS
  <2>4. e \in i..n /\ e + 1 = m
    BY <2>3
  <2>5. \A k \in (i + 1)..e : ~start[k]
    <3> SUFFICES ASSUME NEW k \in (i + 1)..e, start[k] PROVE FALSE
      OBVIOUS
    <3>1. k \in S /\ k < m
      BY <2>3
    <3> QED
      BY <2>2, <2>3, <3>1
  <2>6. SetOf(start, n, i) = i..e
    <3>1. ASSUME NEW j \in SetOf(start, n, i) PROVE j \in i..e
      <4>1. j \in i..n /\ \A k \in (i + 1)..j : ~start[k]
        BY DEF SetOf
      <4>2. ~(m <= j)
        BY <2>3, <4>1
      <4> QED
        BY <2>3, <4>1, <4>2
    <3>2. ASSUME NEW j \in i..e PROVE j \in SetOf(start, n, i)
      BY <2>4, <2>5 DEF SetOf
    <3> QED
      BY <3>1, <3>2
  <2> QED
    BY <2>3, <2>4, <2>5, <2>6
<1> QED
  BY <1>1, <1>2

\* The Set of a place, as the code finds it.
LEMMA SetParts ==
  ASSUME NEW i
  PROVE  parts_aux_set_parts(i) = SetOf(rec_set_start, rec_size, i)
  BY DEF parts_aux_set_parts, SetOf

-----------------------------------------------------------------------------
(***************************************************************************)
(* Inserting parts.                                                        *)
(***************************************************************************)

Parts == [len : 0..MaxLength, rec : 0..MaxLength, start : BOOLEAN, set_len : Nat]

\* all is the array s of n elements of S, extended by m elements.
IsExtension(all, s, n, m, g, S) ==
  /\ all \in Seq(S)
  /\ Len(all) = n + m
  /\ \A i \in 1..n : all[i] = s[i]
  /\ \A k \in 1..m : all[n + k] = g[k]

\* An array that is extended.
LEMMA Extended ==
  ASSUME NEW S, NEW s \in Seq(S), NEW n \in Nat, n = Len(s),
         NEW m \in Nat, NEW g \in [1..m -> S], NEW all, all = s \o g
  PROVE  IsExtension(all, s, n, m, g, S)
<1>1. g \in Seq(S) /\ Len(g) = m
  OBVIOUS
<1>2. /\ s \o g \in Seq(S)
      /\ Len(s \o g) = Len(s) + Len(g)
      /\ \A i \in 1..Len(s) + Len(g) :
           (s \o g)[i] = IF i <= Len(s) THEN s[i] ELSE g[i - Len(s)]
  BY <1>1, ConcatProperties
<1>3. Len(s) \in Nat
  OBVIOUS
<1> DEFINE t == s \o g
<1> HIDE DEF t
<1>4. \A i \in 1..Len(s) : t[i] = s[i]
  BY <1>1, <1>2, <1>3 DEF t
<1>5. \A k \in 1..m : t[Len(s) + k] = g[k]
  <2> SUFFICES ASSUME NEW k \in 1..m PROVE t[Len(s) + k] = g[k]
    OBVIOUS
  <2> DEFINE i == Len(s) + k
  <2>1. i \in 1..Len(s) + Len(g) /\ ~(i <= Len(s)) /\ i - Len(s) = k
    BY <1>1, <1>3
  <2> HIDE DEF i
  <2>2. t[i] = g[i - Len(s)]
    BY <1>2, <2>1 DEF t
  <2> QED
    BY <2>1, <2>2 DEF i
<1> QED
  BY <1>1, <1>2, <1>4, <1>5 DEF t, IsExtension

\* What parts_insert does to the parts.
IsInserted(new, h, grow) ==
  /\ rec_flds' \in Seq(Fields) /\ rec_size' = rec_size + Len(new)
  /\ rec_cnt' \in Seq(0..MaxLength) /\ Len(rec_cnt') = rec_size'
  /\ rec_set_start' \in Seq(BOOLEAN) /\ Len(rec_set_start') = rec_size'
  /\ length' \in Seq(Nat) /\ Len(length') = rec_size'
  /\ \A i \in 1..rec_size : rec_flds'[i] = rec_flds[i]
                            /\ rec_set_start'[i] = rec_set_start[i]
  /\ \A k \in 1..Len(new) : rec_flds'[rec_size + k] = Field(rec_size + k, new[k].len)
                            /\ rec_set_start'[rec_size + k] = new[k].start
  /\ h <= rec_size => length'[h] = length[h] + grow
  /\ \A k \in 1..Len(new) : h = rec_size + k => length'[h] = new[k].set_len + grow
  /\ \A i \in 1..rec_size : i # h => length'[i] = length[i]
  /\ \A k \in 1..Len(new) :
       h # rec_size + k => length'[rec_size + k] = new[k].set_len

\* parts_insert as a whole.
LEMMA InsertFacts ==
  ASSUME TypeOK, NEW new \in Seq(Parts), NEW h \in 1..(rec_size + Len(new)),
         NEW grow \in Nat, parts_insert(new, h, grow)
  PROVE  IsInserted(new, h, grow)
<1> DEFINE n == rec_size
           m == Len(new)
           flds == [k \in DOMAIN new |-> Field(rec_size + k, new[k].len)]
           cnt == [k \in DOMAIN new |-> new[k].rec]
           start == [k \in DOMAIN new |-> new[k].start]
           len == [k \in DOMAIN new |-> new[k].set_len]
           all == length \o len
<1>1. /\ rec_flds' = rec_flds \o flds
      /\ rec_cnt' = rec_cnt \o cnt
      /\ rec_set_start' = rec_set_start \o start
      /\ length' = [all EXCEPT ![h] = all[h] + grow]
  BY DEF parts_insert
<1>2. m \in Nat /\ n \in Nat /\ DOMAIN new = 1..m
      /\ \A k \in 1..m : new[k] \in Parts
  BY DEF TypeOK, rec_size
<1>3. flds \in [1..m -> Fields] /\ cnt \in [1..m -> 0..MaxLength]
      /\ start \in [1..m -> BOOLEAN] /\ len \in [1..m -> Nat]
  BY <1>2 DEF Parts, Fields, Field
<1>4. \A k \in 1..m : flds[k] = Field(n + k, new[k].len) /\ start[k] = new[k].start
                      /\ len[k] = new[k].set_len
  BY <1>2
<1>5. n = Len(rec_flds) /\ Len(rec_cnt) = n /\ Len(rec_set_start) = n /\ Len(length) = n
  BY DEF TypeOK, rec_size
<1> HIDE DEF n, m, flds, cnt, start, len, all
<1>0. /\ rec_flds \in Seq(Fields) /\ rec_cnt \in Seq(0..MaxLength)
      /\ rec_set_start \in Seq(BOOLEAN) /\ length \in Seq(Nat)
  BY DEF TypeOK
<1>6. /\ IsExtension(rec_flds', rec_flds, n, m, flds, Fields)
      /\ IsExtension(rec_cnt', rec_cnt, n, m, cnt, 0..MaxLength)
      /\ IsExtension(rec_set_start', rec_set_start, n, m, start, BOOLEAN)
  BY <1>0, <1>1, <1>2, <1>3, <1>5, Extended
<1>7. IsExtension(all, length, n, m, len, Nat)
  BY <1>0, <1>2, <1>3, <1>5, Extended DEF all
<1>9. /\ all \in Seq(Nat) /\ Len(all) = n + m
      /\ \A i \in 1..n : all[i] = length[i]
      /\ \A k \in 1..m : all[n + k] = len[k]
  BY <1>7 DEF IsExtension
<1>10. h \in 1..Len(all) /\ all[h] + grow \in Nat
  BY <1>9 DEF n, m
<1>11. length' \in Seq(Nat) /\ Len(length') = n + m /\ length'[h] = all[h] + grow
       /\ \A j \in 1..Len(all) : j # h => length'[j] = all[j]
  BY <1>1, <1>9, <1>10, ExceptSeq
<1>12. rec_size' = n + m
  BY <1>6 DEF rec_size, IsExtension
<1>13. h <= n => length'[h] = length[h] + grow
  BY <1>2, <1>9, <1>11
<1>14. \A k \in 1..m : h = n + k => length'[h] = len[k] + grow
  BY <1>9, <1>11
<1>15. \A i \in 1..n : i # h => length'[i] = length[i]
  <2> SUFFICES ASSUME NEW i \in 1..n, i # h PROVE length'[i] = length[i]
    OBVIOUS
  <2>1. i \in 1..Len(all)
    BY <1>2, <1>9
  <2> QED
    BY <1>9, <1>11, <2>1
<1>16. \A k \in 1..m : h # n + k => length'[n + k] = len[k]
  <2> SUFFICES ASSUME NEW k \in 1..m, h # n + k PROVE length'[n + k] = len[k]
    OBVIOUS
  <2>1. n + k \in 1..Len(all)
    BY <1>2, <1>9
  <2> QED
    BY <1>9, <1>11, <2>1
<1> QED
  BY <1>4, <1>6, <1>11, <1>12, <1>13, <1>14, <1>15, <1>16
  DEF n, m, IsExtension, IsInserted

Grows(flds, a, b) ==
  SumLengths(flds, a..(b + 1)) = SumLengths(flds, a..b) + flds[b + 1].len

\* The length of one part more.
LEMMA OneMore ==
  ASSUME NEW flds \in Seq(Fields), NEW a \in Nat, NEW b \in Nat,
         a <= b + 1, b + 1 <= Len(flds)
  PROVE  Grows(flds, a, b)
<1> DEFINE c == b + 1
<1>1. c \in Int /\ a \in Int /\ b \in Int /\ b <= c /\ c \in DOMAIN flds
  OBVIOUS
<1>2. SumLengths(flds, c..c) = flds[c].len
  BY <1>1, SumOne
<1>3. SumsUp(flds, a, b, c)
  BY <1>1, SumSplit
<1> QED
  BY <1>2, <1>3 DEF SumsUp, Grows

NewLength(flds, n, m, new) ==
  /\ m = 1 => SumLengths(flds, (n + 1)..(n + m)) = new[1].len
  /\ m = 2 => SumLengths(flds, (n + 1)..(n + m)) = new[1].len + new[2].len
  /\ m = 3 => SumLengths(flds, (n + 1)..(n + m))
                = new[1].len + new[2].len + new[3].len

\* The length of up to three parts at the end of an array.
LEMMA LengthOfNew ==
  ASSUME NEW flds \in Seq(Fields), NEW n \in Nat, NEW m \in 1..3, Len(flds) = n + m,
         NEW new, \A k \in 1..m : flds[n + k].len = new[k].len
  PROVE  NewLength(flds, n, m, new)
<1>1. SumLengths(flds, (n + 1)..(n + 1)) = new[1].len
  <2>1. n + 1 \in DOMAIN flds
    OBVIOUS
  <2> QED
    BY <2>1, SumOne
<1>2. m >= 2 => SumLengths(flds, (n + 1)..(n + 2)) = new[1].len + new[2].len
  <2> SUFFICES ASSUME m >= 2
               PROVE  SumLengths(flds, (n + 1)..(n + 2)) = new[1].len + new[2].len
    OBVIOUS
  <2> DEFINE a == n + 1
  <2>1. a \in Nat /\ a <= a + 1 /\ a + 1 <= Len(flds) /\ a + 1 = n + 2
    OBVIOUS
  <2>2. flds[a + 1].len = new[2].len
    BY <2>1
  <2> HIDE DEF a
  <2>3. Grows(flds, a, a)
    BY <2>1, OneMore
  <2>4. SumLengths(flds, a..(n + 2)) = SumLengths(flds, a..a) + new[2].len
    BY <2>1, <2>2, <2>3 DEF Grows
  <2> QED
    BY <1>1, <2>4 DEF a
<1>3. m = 3 => SumLengths(flds, (n + 1)..(n + 3)) = new[1].len + new[2].len + new[3].len
  <2> SUFFICES ASSUME m = 3
               PROVE  SumLengths(flds, (n + 1)..(n + 3))
                        = new[1].len + new[2].len + new[3].len
    OBVIOUS
  <2> DEFINE a == n + 1
             b == n + 2
  <2>1. a \in Nat /\ b \in Nat /\ a <= b + 1 /\ b + 1 <= Len(flds) /\ b + 1 = n + 3
    OBVIOUS
  <2>2. flds[b + 1].len = new[3].len
    BY <2>1
  <2> HIDE DEF a, b
  <2>3. Grows(flds, a, b)
    BY <2>1, OneMore
  <2>4. SumLengths(flds, a..(n + 3)) = SumLengths(flds, a..b) + new[3].len
    BY <2>1, <2>2, <2>3 DEF Grows
  <2>5. SumLengths(flds, a..b) = new[1].len + new[2].len
    BY <1>2 DEF a, b
  <2> QED
    BY <2>4, <2>5 DEF a
<1>4. CASE m = 1
  BY <1>1, <1>4 DEF NewLength
<1>5. CASE m = 2
  BY <1>2, <1>5 DEF NewLength
<1>6. CASE m = 3
  BY <1>3, <1>6 DEF NewLength
<1> QED
  BY <1>4, <1>5, <1>6

\* Nothing but the arrays and the last Set change while parts are added.
LEMMA Adding ==
  ASSUME IInv, ~is_complete, UNCHANGED packet_vars
  PROVE  /\ ~is_complete' /\ ~Ready' /\ loop' = NULL /\ loop = NULL
         /\ Phases' /\ LoopInv' /\ PacketsInv' /\ FieldsInv' /\ PacketAsBuilt'
<1>1. loop = NULL /\ loop' = NULL /\ pkt_arr' = pkt_arr /\ fetched' = fetched
      /\ built' = built
  BY DEF is_complete, packet_vars
<1>2. ~is_complete' /\ ~Ready' /\ ~Cutting' /\ ~Ready
  BY <1>1 DEF is_complete, Ready, Cutting
<1>3. fetched = NULL /\ pkt_arr = <<>>
  BY <1>2 DEF IInv, Phases
<1> QED
  BY <1>1, <1>2, <1>3 DEF Phases, LoopInv, PacketsInv, FieldsInv, PacketAsBuilt

\* The Sets of the array before parts were added.
LEMMA OldSets ==
  ASSUME IInv, NEW n \in Nat, n = rec_size, NEW m \in Nat, rec_size' = n + m,
         rec_flds' \in Seq(Fields),
         \A i \in 1..n : rec_flds'[i] = rec_flds[i] /\ rec_set_start'[i] = rec_set_start[i],
         NEW i \in 1..n,
         \E k \in (i + 1)..(n + 1) : k <= n + m => rec_set_start'[k]
  PROVE  parts_aux_set_len(i)' = parts_aux_set_len(i)
<1>1. PICK e \in i..n :
        /\ SetOf(rec_set_start, n, i) = i..e
        /\ \A k \in (i + 1)..e : ~rec_set_start[k]
        /\ e < n => rec_set_start[e + 1]
  BY SetRange
<1>2. PICK k \in (i + 1)..(n + 1) : k <= n + m => rec_set_start'[k]
  OBVIOUS
<1>3. e < n \/ ~(n + 1 <= n + m) \/ rec_set_start'[n + 1]
  <2> SUFFICES ASSUME e = n, n + 1 <= n + m PROVE rec_set_start'[n + 1]
    OBVIOUS
  <2>1. rec_set_start'[k]
    BY <1>2
  <2>2. CASE k <= n
    <3>1. rec_set_start[k] /\ k \in (i + 1)..e
      BY <2>1, <2>2
    <3> QED
      BY <1>1, <3>1
  <2>3. CASE k = n + 1
    BY <2>1, <2>3
  <2> QED
    BY <2>2, <2>3
<1>4. e + 1 <= n + m => rec_set_start'[e + 1]
  BY <1>1, <1>3
<1>5. SetOf(rec_set_start', n + m, i) = i..e
  <2>1. ASSUME NEW j \in SetOf(rec_set_start', n + m, i) PROVE j \in i..e
    <3>1. j \in i..(n + m) /\ \A x \in (i + 1)..j : ~rec_set_start'[x]
      BY DEF SetOf
    <3>2. ~(e + 1 <= j)
      BY <1>4, <3>1
    <3> QED
      BY <3>1, <3>2
  <2>2. ASSUME NEW j \in i..e PROVE j \in SetOf(rec_set_start', n + m, i)
    <3>1. \A x \in (i + 1)..j : ~rec_set_start'[x]
      BY <1>1
    <3> QED
      BY <3>1 DEF SetOf
  <2> QED
    BY <2>1, <2>2
<1>6. SumLengths(rec_flds', i..e) = SumLengths(rec_flds, i..e)
  <2>1. rec_flds \in Seq(Fields) /\ Len(rec_flds) = n /\ Len(rec_flds') = n + m
    BY DEF IInv, TypeOK, rec_size
  <2>2. ASSUME NEW j \in i..e
        PROVE  j \in DOMAIN rec_flds' /\ j \in DOMAIN rec_flds /\ rec_flds'[j] = rec_flds[j]
    BY <2>1
  <2> HIDE DEF rec_size
  <2> QED
    BY <2>2, SumSame
<1>7. parts_aux_set_parts(i) = i..e /\ parts_aux_set_parts(i)' = i..e
  <2>1. parts_aux_set_parts(i) = SetOf(rec_set_start, rec_size, i)
    BY DEF parts_aux_set_parts, SetOf
  <2>2. parts_aux_set_parts(i)' = SetOf(rec_set_start', rec_size', i)
    BY DEF parts_aux_set_parts, SetOf
  <2> QED
    BY <1>1, <1>5, <2>1, <2>2
<1> QED
  BY <1>6, <1>7 DEF parts_aux_set_len

\* The parts of a Set that nothing follows.
LEMMA LastSetParts ==
  ASSUME NEW start, NEW n \in Nat, NEW i \in 1..n, \A k \in (i + 1)..n : ~start[k]
  PROVE  SetOf(start, n, i) = i..n
  BY DEF SetOf

\* The length of the last Set.
LEMMA LastSetLen ==
  ASSUME NEW i, NEW N \in Nat, i \in 1..N, rec_size' = N,
         \A k \in (i + 1)..N : ~rec_set_start'[k]
  PROVE  parts_aux_set_len(i)' = SumLengths(rec_flds', i..N)
<1>1. SetOf(rec_set_start', N, i) = i..N
  BY LastSetParts
<1>2. parts_aux_set_parts(i)' = SetOf(rec_set_start', rec_size', i)
  BY DEF parts_aux_set_parts, SetOf
<1> QED
  BY <1>1, <1>2 DEF parts_aux_set_len

\* The kind of a Set of data or of none is not that of a Set of templates.
LEMMA NoPair ==
  ASSUME NEW x, NEW A, NEW B
  PROVE  <<x>> \notin A \X B
<1> SUFFICES ASSUME <<x>> \in A \X B PROVE FALSE
  OBVIOUS
<1>1. PICK a \in A, b \in B : <<x>> = <<a, b>>
  OBVIOUS
<1>2. Len(<<x>>) = 1 /\ Len(<<a, b>>) = 2
  OBVIOUS
<1> QED
  BY <1>1, <1>2

\* What an insertion leaves of the invariant besides the Sets.
LEMMA InsertedType ==
  ASSUME IInv, NEW new \in Seq(Parts), NEW h \in 1..(rec_size + Len(new)),
         NEW grow \in Nat, parts_insert(new, h, grow),
         last_set_type' \in Kinds, last_set_header' \in Nat \cup {NULL}
  PROVE  /\ TypeOK' /\ ~is_complete' /\ ~Ready'
         /\ Phases' /\ LoopInv' /\ PacketsInv' /\ FieldsInv' /\ PacketAsBuilt'
<1>0. ~is_complete /\ UNCHANGED packet_vars
  BY DEF parts_insert
<1>1. /\ ~is_complete' /\ ~Ready' /\ loop' = NULL
      /\ Phases' /\ LoopInv' /\ PacketsInv' /\ FieldsInv' /\ PacketAsBuilt'
  BY <1>0, Adding
<1>2. TypeOK
  BY DEF IInv
<1>3. /\ rec_flds' \in Seq(Fields) /\ rec_size' = rec_size + Len(new)
      /\ rec_cnt' \in Seq(0..MaxLength) /\ Len(rec_cnt') = rec_size'
      /\ rec_set_start' \in Seq(BOOLEAN) /\ Len(rec_set_start') = rec_size'
      /\ length' \in Seq(Nat) /\ Len(length') = rec_size'
  BY <1>2, InsertFacts DEF IsInserted
<1>4. rec_size' > 0
  <2>1. rec_size \in Nat /\ rec_size > 0 /\ Len(new) \in Nat
    BY <1>2 DEF TypeOK, rec_size
  <2> QED
    BY <1>3, <2>1
<1>5. pkt_arr' = pkt_arr /\ built' = built /\ fetched' = fetched
  BY <1>0 DEF packet_vars
<1>6. TypeOK'
  BY <1>1, <1>2, <1>3, <1>4, <1>5 DEF TypeOK
<1> QED
  BY <1>1, <1>6

\* A new Set that fits into the longest packet, behind the others.
LEMMA AddSetStep ==
  ASSUME IInv, NEW new \in Seq(Parts), NEW h \in 1..(rec_size + Len(new)),
         NEW grow \in Nat, parts_insert(new, h, grow),
         Len(new) > 0, new[1].start, \A k \in 2..Len(new) : ~new[k].start,
         NEW L \in Nat, L = SumLengths(rec_flds', (rec_size + 1)..(rec_size + Len(new))),
         IPFIX_HEADER_LENGTH + L <= MaxLength,
         last_set_type' \in Kinds,
         \/ last_set_type' = <<"data">> /\ last_set_header' = NULL
            /\ h = 1 /\ grow = 0 /\ new[1].set_len = L
         \/ last_set_header' = rec_size + 1 /\ h = rec_size + 1
            /\ new[1].set_len + grow = L
  PROVE  IInv'
<1> SUFFICES ASSUME NEW n, NEW m, n = rec_size, m = Len(new)
             PROVE  IInv'
  OBVIOUS
<1>1. TypeOK
  BY DEF IInv
<1>2. n \in Nat /\ n > 0 /\ m \in Nat /\ m > 0 /\ n = rec_size
  BY <1>1 DEF TypeOK, rec_size
<1>3. /\ rec_size' = n + m
      /\ rec_flds' \in Seq(Fields)
      /\ \A i \in 1..n : rec_flds'[i] = rec_flds[i] /\ rec_set_start'[i] = rec_set_start[i]
      /\ \A k \in 1..m : rec_set_start'[n + k] = new[k].start
      /\ \A k \in 1..m : h = n + k => length'[h] = new[k].set_len + grow
      /\ \A i \in 1..n : i # h => length'[i] = length[i]
      /\ \A k \in 1..m : h # n + k => length'[n + k] = new[k].set_len
  <2>1. IsInserted(new, h, grow)
    BY <1>1, InsertFacts
  <2> QED
    BY <2>1, Zenon DEF IsInserted
<1>4. /\ TypeOK' /\ ~is_complete' /\ ~Ready'
      /\ Phases' /\ LoopInv' /\ PacketsInv' /\ FieldsInv' /\ PacketAsBuilt'
  <2>1. last_set_header' \in Nat \cup {NULL}
    BY <1>2
  <2> QED
    BY <2>1, InsertedType
<1>5. rec_set_start'[n + 1] /\ \A k \in (n + 2)..(n + m) : ~rec_set_start'[k]
  <2>1. ASSUME NEW k \in (n + 2)..(n + m) PROVE ~rec_set_start'[k]
    <3> DEFINE j == k - n
    <3>1. j \in 2..m /\ n + j = k /\ j \in 1..m
      BY <1>2
    <3> HIDE DEF j
    <3>2. ~new[j].start
      BY <3>1
    <3> QED
      BY <1>3, <3>1, <3>2
  <2>2. rec_set_start'[n + 1]
    <3>1. 1 \in 1..m /\ new[1].start
      BY <1>2
    <3>2. \A k \in 1..m : rec_set_start'[n + k] = new[k].start
      BY <1>3
    <3> QED
      BY <3>1, <3>2
  <2> QED
    BY <2>1, <2>2
<1>6. ~Ready /\ ~is_complete
  BY DEF parts_insert, is_complete, Ready
<1>7. parts_aux_set_len(n + 1)' = L
  <2> SUFFICES ASSUME NEW i, NEW N, i = n + 1, N = n + m
               PROVE  parts_aux_set_len(i)' = L
    OBVIOUS
  <2>1. i \in 1..N /\ N \in Nat /\ rec_size' = N
    BY <1>2, <1>3
  <2>2. \A k \in (i + 1)..N : ~rec_set_start'[k]
    BY <1>2, <1>5
  <2>3. parts_aux_set_len(i)' = SumLengths(rec_flds', i..N)
    BY <2>1, <2>2, LastSetLen
  <2> QED
    BY <2>3
<1>8. SetsFit'
  <2>1. rec_size' > 1 => rec_set_start'[2]
    <3>1. CASE n = 1
      BY <1>5, <3>1
    <3>2. CASE n > 1
      <4>1. rec_set_start[2]
        BY <1>2, <1>6, <3>2 DEF IInv, SetsFit
      <4> QED
        BY <1>2, <1>3, <3>2, <4>1
    <3> QED
      BY <1>2, <3>1, <3>2
  <2>2. ASSUME NEW i \in 2..(n + m), rec_set_start'[i]
        PROVE  IPFIX_HEADER_LENGTH + parts_aux_set_len(i)' <= MaxLength
    <3>1. CASE i \in 2..n
      <4>1. i \in 1..n /\ n + 1 \in (i + 1)..(n + 1)
        BY <1>2, <3>1
      <4>2. \E k \in (i + 1)..(n + 1) : k <= n + m => rec_set_start'[k]
        BY <1>5, <4>1
      <4>3. parts_aux_set_len(i)' = parts_aux_set_len(i)
        BY <1>2, <1>3, <4>1, <4>2, OldSets
      <4>4. IPFIX_HEADER_LENGTH + parts_aux_set_len(i) <= MaxLength
        BY <1>2, <1>3, <1>6, <2>2, <3>1, <4>1 DEF IInv, SetsFit
      <4> QED
        BY <4>3, <4>4
    <3>2. CASE i = n + 1
      BY <1>7, <3>2
    <3>3. i \in 2..n \/ i = n + 1 \/ i \in (n + 2)..(n + m)
      BY <1>2, <2>2
    <3> QED
      BY <1>5, <2>2, <3>1, <3>2, <3>3
  <2> QED
    BY <1>3, <2>1, <2>2 DEF SetsFit
<1>9. LastSet'
  <2>1. CASE last_set_type' = <<"data">> /\ last_set_header' = NULL
    <3>1. last_set_type' \notin Types \X {"define", "withdraw"}
      BY <2>1, NoPair
    <3> QED
      BY <2>1, <3>1 DEF LastSet
  <2>2. CASE last_set_header' = n + 1 /\ h = n + 1 /\ new[1].set_len + grow = L
    <3>1. last_set_header' # NULL /\ n + 1 \in 2..(n + m) /\ 1 \in 1..m
      BY <1>2, <2>2, NullAssumption
    <3>2. length'[n + 1] = L
      BY <1>3, <2>2, <3>1
    <3>3. L = SumLengths(rec_flds', (n + 1)..(n + m))
      OBVIOUS
    <3>4. \A k \in ((n + 1) + 1)..(n + m) : ~rec_set_start'[k]
      BY <1>2, <1>5
    <3> QED
      BY <1>3, <1>5, <2>2, <3>1, <3>2, <3>3, <3>4 DEF LastSet
  <2> QED
    BY <2>1, <2>2
<1>10. length'[n + 1] = L
  <2>1. 1 \in 1..m
    BY <1>2
  <2>2. CASE h = 1 /\ grow = 0 /\ new[1].set_len = L
    <3>1. h # n + 1
      BY <1>2, <2>2
    <3> QED
      BY <1>3, <2>1, <2>2, <3>1
  <2>3. CASE h = n + 1 /\ new[1].set_len + grow = L
    BY <1>3, <2>1, <2>3
  <2> QED
    BY <2>2, <2>3
<1>11. SetLengthsTrue'
  <2> SUFFICES ASSUME NEW i \in 2..(n + m), rec_set_start'[i]
               PROVE  length'[i] = parts_aux_set_len(i)'
    BY <1>3 DEF SetLengthsTrue
  <2>1. CASE i \in 2..n
    <3>1. i \in 1..n /\ n + 1 \in (i + 1)..(n + 1) /\ i # h
      BY <1>2, <2>1
    <3>2. \E k \in (i + 1)..(n + 1) : k <= n + m => rec_set_start'[k]
      BY <1>5, <3>1
    <3>3. parts_aux_set_len(i)' = parts_aux_set_len(i)
      BY <1>2, <1>3, <3>1, <3>2, OldSets
    <3>4. length[i] = parts_aux_set_len(i)
      BY <1>3, <1>6, <2>1, <3>1 DEF IInv, SetLengthsTrue
    <3> QED
      BY <1>3, <3>1, <3>3, <3>4
  <2>2. CASE i = n + 1
    BY <1>7, <1>10, <2>2
  <2>3. i \in 2..n \/ i = n + 1 \/ i \in (n + 2)..(n + m)
    BY <1>2
  <2> QED
    BY <1>5, <2>1, <2>2, <2>3
<1> QED
  BY <1>4, <1>8, <1>9, <1>11 DEF IInv

\* The last Set is extended by parts, and is not longer than a Set of templates
\* may be.
LEMMA AddToLastStep ==
  ASSUME IInv, NEW new \in Seq(Parts), NEW L \in Nat,
         parts_insert(new, last_set_header, L),
         \A k \in 1..Len(new) : ~new[k].start,
         L = SumLengths(rec_flds', (rec_size + 1)..(rec_size + Len(new))),
         last_set_type \in Types \X {"define", "withdraw"},
         length[last_set_header] + L <= TMPLT_SET_MAX_LEN,
         UNCHANGED set_vars
  PROVE  IInv'
<1> SUFFICES ASSUME NEW n, NEW m, NEW h, n = rec_size, m = Len(new),
                    h = last_set_header
             PROVE  IInv'
  OBVIOUS
<1>1. TypeOK
  BY DEF IInv
<1>2. n \in Nat /\ n > 0 /\ m \in Nat
  BY <1>1 DEF TypeOK, rec_size
<1>3. ~Ready /\ ~is_complete
  BY DEF parts_insert, is_complete, Ready
<1>4. /\ h # NULL /\ h \in 2..n /\ rec_set_start[h]
      /\ \A k \in (h + 1)..n : ~rec_set_start[k]
      /\ length[h] = SumLengths(rec_flds, h..n)
  BY <1>3 DEF IInv, LastSet
<1>5. h \in 1..(rec_size + Len(new)) /\ parts_insert(new, h, L)
  BY <1>2, <1>4
<1>6. /\ rec_size' = n + m
      /\ rec_flds' \in Seq(Fields)
      /\ \A i \in 1..n : rec_flds'[i] = rec_flds[i] /\ rec_set_start'[i] = rec_set_start[i]
      /\ \A k \in 1..m : rec_set_start'[n + k] = new[k].start
      /\ h <= rec_size => length'[h] = length[h] + L
      /\ \A i \in 1..n : i # h => length'[i] = length[i]
  BY <1>1, <1>5, InsertFacts DEF IsInserted
<1>7. last_set_type' = last_set_type /\ last_set_header' = h
  BY DEF set_vars
<1>8. /\ TypeOK' /\ ~is_complete' /\ ~Ready'
      /\ Phases' /\ LoopInv' /\ PacketsInv' /\ FieldsInv' /\ PacketAsBuilt'
  <2>1. last_set_header' \in Nat \cup {NULL} /\ last_set_type' \in Kinds
    BY <1>1, <1>7 DEF TypeOK
  <2> QED
    BY <1>5, <2>1, InsertedType
<1>9. \A k \in (n + 1)..(n + m) : ~rec_set_start'[k]
  <2> SUFFICES ASSUME NEW k \in (n + 1)..(n + m) PROVE ~rec_set_start'[k]
    OBVIOUS
  <2> DEFINE j == k - n
  <2>1. j \in 1..m /\ n + j = k
    BY <1>2
  <2> HIDE DEF j
  <2>2. ~new[j].start
    BY <2>1
  <2> QED
    BY <1>6, <2>1, <2>2
<1>10. \A k \in (h + 1)..(n + m) : ~rec_set_start'[k]
  <2> SUFFICES ASSUME NEW k \in (h + 1)..(n + m) PROVE ~rec_set_start'[k]
    OBVIOUS
  <2>1. CASE k <= n
    <3>1. k \in (h + 1)..n /\ k \in 1..n
      BY <1>2, <1>4, <2>1
    <3> QED
      BY <1>4, <1>6, <3>1
  <2>2. CASE ~(k <= n)
    <3>1. k \in (n + 1)..(n + m)
      BY <1>2, <1>4, <2>2
    <3> QED
      BY <1>9, <3>1
  <2> QED
    BY <2>1, <2>2
<1>11. SumLengths(rec_flds', h..(n + m)) = length[h] + L
  <2>1. SumLengths(rec_flds', h..n) = SumLengths(rec_flds, h..n)
    <3>1. Len(rec_flds) = n /\ Len(rec_flds') = n + m /\ rec_flds \in Seq(Fields)
      BY <1>1, <1>6 DEF TypeOK, rec_size
    <3>2. ASSUME NEW j \in h..n
          PROVE  j \in DOMAIN rec_flds' /\ j \in DOMAIN rec_flds /\ rec_flds'[j] = rec_flds[j]
      BY <1>2, <1>4, <1>6, <3>1
    <3> QED
      BY <3>2, SumSame
  <2>2. SumsUp(rec_flds', h, n, n + m)
    <3>1. h \in Int /\ n \in Int /\ n + m \in Int /\ h <= n + 1 /\ n <= n + m
      BY <1>2, <1>4
    <3> QED
      BY <3>1, SumSplit
  <2> QED
    BY <1>4, <2>1, <2>2 DEF SumsUp
<1>12. parts_aux_set_len(h)' = length[h] + L
  <2> SUFFICES ASSUME NEW N, N = n + m
               PROVE  parts_aux_set_len(h)' = length[h] + L
    OBVIOUS
  <2>1. h \in 1..N /\ N \in Nat /\ rec_size' = N
    BY <1>2, <1>4, <1>6
  <2>2. \A k \in (h + 1)..N : ~rec_set_start'[k]
    BY <1>10
  <2>3. parts_aux_set_len(h)' = SumLengths(rec_flds', h..N)
    BY <2>1, <2>2, LastSetLen
  <2> QED
    BY <1>11, <2>3
<1>13. rec_set_start'[h] /\ h \in 1..n
  BY <1>2, <1>4, <1>6
<1>14. SetsFit'
  <2>1. rec_size' > 1 => rec_set_start'[2]
    <3>1. n > 1 /\ 2 \in 1..n
      BY <1>2, <1>4
    <3>2. rec_set_start[2]
      BY <1>3, <3>1 DEF IInv, SetsFit
    <3> QED
      BY <1>6, <3>1, <3>2
  <2>2. ASSUME NEW i \in 2..(n + m), rec_set_start'[i]
        PROVE  IPFIX_HEADER_LENGTH + parts_aux_set_len(i)' <= MaxLength
    <3>1. CASE i < h
      <4>1. i \in 1..n /\ i \in 2..n /\ h \in (i + 1)..(n + 1)
        BY <1>2, <1>4, <3>1
      <4>2. \E k \in (i + 1)..(n + 1) : k <= n + m => rec_set_start'[k]
        BY <1>13, <4>1
      <4>3. parts_aux_set_len(i)' = parts_aux_set_len(i)
        BY <1>2, <1>6, <4>1, <4>2, OldSets
      <4>4. IPFIX_HEADER_LENGTH + parts_aux_set_len(i) <= MaxLength
        BY <1>3, <1>6, <2>2, <4>1 DEF IInv, SetsFit
      <4> QED
        BY <4>3, <4>4
    <3>2. CASE i = h
      <4>1. parts_aux_set_len(i)' = length[h] + L
        BY <1>12, <3>2
      <4>2. length[h] + L <= TMPLT_SET_MAX_LEN /\ length[h] \in Nat
        BY <1>1, <1>13 DEF TypeOK
      <4> QED
        BY <4>1, <4>2, BuilderAssumption
    <3>3. i < h \/ i = h \/ i \in (h + 1)..(n + m)
      BY <1>2, <1>4, <2>2
    <3> QED
      BY <1>10, <2>2, <3>1, <3>2, <3>3
  <2> QED
    BY <1>6, <2>1, <2>2 DEF SetsFit
<1>15. LastSet'
  <2>1. length'[h] = length[h] + L
    BY <1>4, <1>6
  <2>2. h \in 2..(n + m)
    BY <1>2, <1>4
  <2> QED
    BY <1>4, <1>6, <1>7, <1>10, <1>11, <1>13, <2>1, <2>2 DEF LastSet
<1>16. SetLengthsTrue'
  <2> SUFFICES ASSUME NEW i \in 2..(n + m), rec_set_start'[i]
               PROVE  length'[i] = parts_aux_set_len(i)'
    BY <1>6 DEF SetLengthsTrue
  <2>1. CASE i < h
    <3>1. i \in 1..n /\ i \in 2..n /\ h \in (i + 1)..(n + 1) /\ i # h
      BY <1>2, <1>4, <2>1
    <3>2. \E k \in (i + 1)..(n + 1) : k <= n + m => rec_set_start'[k]
      BY <1>13, <3>1
    <3>3. parts_aux_set_len(i)' = parts_aux_set_len(i)
      BY <1>2, <1>6, <3>1, <3>2, OldSets
    <3>4. length[i] = parts_aux_set_len(i)
      BY <1>3, <1>6, <3>1 DEF IInv, SetLengthsTrue
    <3> QED
      BY <1>6, <3>1, <3>3, <3>4
  <2>2. CASE i = h
    BY <1>4, <1>6, <1>12, <2>2
  <2>3. i < h \/ i = h \/ i \in (h + 1)..(n + m)
    BY <1>2, <1>4
  <2> QED
    BY <1>10, <2>1, <2>2, <2>3
<1> QED
  BY <1>8, <1>14, <1>15, <1>16 DEF IInv

LengthIs(new, L) ==
  /\ Len(new) = 1 => L = new[1].len
  /\ Len(new) = 2 => L = new[1].len + new[2].len
  /\ Len(new) = 3 => L = new[1].len + new[2].len + new[3].len

\* The length of what was inserted.
LEMMA InsertedLength ==
  ASSUME TypeOK, NEW new \in Seq(Parts), NEW h \in 1..(rec_size + Len(new)),
         NEW grow \in Nat, parts_insert(new, h, grow), Len(new) \in 1..3,
         NEW L, LengthIs(new, L)
  PROVE  L = SumLengths(rec_flds', (rec_size + 1)..(rec_size + Len(new)))
<1> SUFFICES ASSUME NEW n, NEW m, n = rec_size, m = Len(new)
             PROVE  L = SumLengths(rec_flds', (n + 1)..(n + m))
  OBVIOUS
<1>1. /\ rec_flds' \in Seq(Fields) /\ rec_size' = n + m
      /\ \A k \in 1..m : rec_flds'[n + k] = Field(n + k, new[k].len)
  BY InsertFacts DEF IsInserted
<1>2. n \in Nat /\ m \in 1..3 /\ Len(rec_flds') = n + m
  <2>1. n \in Nat
    BY DEF TypeOK, rec_size
  <2>2. Len(rec_flds') = rec_size'
    BY DEF rec_size
  <2> QED
    BY <1>1, <2>1, <2>2
<1>3. \A k \in 1..m : rec_flds'[n + k].len = new[k].len
  <2> SUFFICES ASSUME NEW k \in 1..m PROVE rec_flds'[n + k].len = new[k].len
    OBVIOUS
  <2>1. rec_flds'[n + k] = Field(n + k, new[k].len)
    BY <1>1
  <2> QED
    BY <2>1 DEF Field
<1>4. NewLength(rec_flds', n, m, new)
  BY <1>1, <1>2, <1>3, LengthOfNew
<1> QED
  BY <1>2, <1>4 DEF LengthIs, NewLength

-----------------------------------------------------------------------------
(***************************************************************************)
(* The operations.                                                         *)
(***************************************************************************)

\* bldr_add_dataset keeps the invariant.
LEMMA DatasetStep ==
  ASSUME IInv, NEW n \in Bodies, NEW remapped \in BOOLEAN,
         bldr_add_dataset(n, 1, remapped)
  PROVE  IInv'
<1>1. /\ n \in Nat /\ HEADER_SIZE \in Nat /\ IPFIX_HEADER_LENGTH \in Nat
      /\ MaxLength \in Nat /\ 1 <= MaxLength
      /\ n + HEADER_SIZE + IPFIX_HEADER_LENGTH <= MaxLength
  BY BuilderAssumption
<1>2. /\ HEADER_SIZE \in 0..MaxLength /\ n \in 0..MaxLength /\ 0 \in 0..MaxLength
      /\ 1 \in 0..MaxLength /\ HEADER_SIZE + n \in 0..MaxLength
      /\ IPFIX_HEADER_LENGTH + (HEADER_SIZE + n) <= MaxLength
  BY <1>1
<1>3. last_set_type' = <<"data">> /\ last_set_header' = NULL
      /\ last_set_type' \in Kinds
  BY DEF bldr_add_dataset, Kinds
<1>4. TypeOK /\ rec_size \in Nat
  BY DEF IInv, TypeOK, rec_size
<1> DEFINE L == HEADER_SIZE + n
<1>5. ASSUME NEW new \in Seq(Parts), Len(new) \in 1..3, LengthIs(new, L),
             new[1].start, \A k \in 2..Len(new) : ~new[k].start,
             new[1].set_len = L, parts_insert(new, 1, 0)
      PROVE  IInv'
  <2>1. 1 \in 1..(rec_size + Len(new)) /\ Len(new) > 0
    BY <1>4, <1>5
  <2>2. L = SumLengths(rec_flds', (rec_size + 1)..(rec_size + Len(new)))
    BY <1>4, <1>5, <2>1, InsertedLength
  <2>3. L \in Nat /\ IPFIX_HEADER_LENGTH + L <= MaxLength /\ 0 \in Nat
    BY <1>1, <1>2
  <2> HIDE DEF L
  <2> QED
    BY <1>3, <1>5, <2>1, <2>2, <2>3, AddSetStep
<1>6. CASE remapped
  <2> DEFINE p == Part(HEADER_SIZE, 0, TRUE, HEADER_SIZE + n)
             q == Part(n, 1, FALSE, 0)
             new == <<p, q>>
  <2>1. p \in Parts /\ q \in Parts
    BY <1>1, <1>2 DEF Part, Parts
  <2>4. parts_insert(new, 1, 0)
    BY <1>6 DEF bldr_add_dataset
  <2>6. p.start /\ ~q.start /\ p.len = HEADER_SIZE /\ q.len = n /\ p.set_len = L
    BY DEF Part
  <2> HIDE DEF p, q
  <2>2. new \in Seq(Parts) /\ Len(new) = 2
    BY <2>1
  <2>3. LengthIs(new, L) /\ new[1].start /\ ~new[2].start /\ new[1].set_len = L
    BY <2>2, <2>6 DEF LengthIs
  <2> HIDE DEF new, L
  <2>5. Len(new) \in 1..3 /\ \A k \in 2..Len(new) : ~new[k].start
    BY <2>2, <2>3
  <2> QED
    BY <1>5, <2>2, <2>3, <2>4, <2>5
<1>7. CASE ~remapped
  <2> DEFINE p == Part(HEADER_SIZE + n, 1, TRUE, HEADER_SIZE + n)
             new == <<p>>
  <2>1. p \in Parts
    BY <1>1, <1>2 DEF Part, Parts
  <2>4. parts_insert(new, 1, 0)
    BY <1>7 DEF bldr_add_dataset
  <2>6. p.start /\ p.len = L /\ p.set_len = L
    BY DEF Part
  <2> HIDE DEF p
  <2>2. new \in Seq(Parts) /\ Len(new) = 1
    BY <2>1
  <2>3. LengthIs(new, L) /\ new[1].start /\ new[1].set_len = L
    BY <2>2, <2>6 DEF LengthIs
  <2> HIDE DEF new, L
  <2>5. Len(new) \in 1..3 /\ \A k \in 2..Len(new) : ~new[k].start
    BY <2>2
  <2> QED
    BY <1>5, <2>2, <2>3, <2>4, <2>5
<1> QED
  BY <1>6, <1>7

\* Templates and withdrawals keep it, in a new Set and in the last one.
LEMMA AddToSetStep ==
  ASSUME IInv, NEW kind \in Types \X {"define", "withdraw"},
         NEW new \in Seq(Parts), Len(new) \in 1..2, \A k \in 1..Len(new) : ~new[k].start,
         NEW size \in Nat, LengthIs(new, size),
         IPFIX_HEADER_LENGTH + HEADER_SIZE + size <= MaxLength,
         AddToSet(kind, new, size)
  PROVE  IInv'
<1>1. HEADER_SIZE \in Nat /\ IPFIX_HEADER_LENGTH \in Nat /\ MaxLength \in Nat
  BY BuilderAssumption
<1>2. TypeOK /\ rec_size \in Nat
  BY DEF IInv, TypeOK, rec_size
<1>3. CASE Extends(kind, size)
  <2>1. /\ parts_insert(new, last_set_header, size) /\ UNCHANGED set_vars
        /\ last_set_type = kind
        /\ length[last_set_header] + size <= TMPLT_SET_MAX_LEN
    BY <1>3 DEF AddToSet, Extends
  <2>2. last_set_header \in 1..(rec_size + Len(new))
    <3>1. ~is_complete
      BY <2>1 DEF parts_insert
    <3>2. last_set_header \in 2..rec_size
      BY <2>1, <3>1 DEF IInv, LastSet
    <3> QED
      BY <1>2, <3>2
  <2>3. size = SumLengths(rec_flds', (rec_size + 1)..(rec_size + Len(new)))
    <3>1. Len(new) \in 1..3
      OBVIOUS
    <3> QED
      BY <1>2, <2>1, <2>2, <3>1, InsertedLength
  <2> QED
    BY <2>1, <2>3, AddToLastStep
<1>4. CASE ~Extends(kind, size)
  <2> DEFINE hdr == Part(HEADER_SIZE, 0, TRUE, HEADER_SIZE)
             all == <<hdr>> \o new
             L == HEADER_SIZE + size
             h == rec_size + 1
  <2>1. /\ parts_insert(all, h, size)
        /\ last_set_type' = kind /\ last_set_header' = h
    BY <1>4 DEF AddToSet
  <2>2. hdr \in Parts
    BY <1>1 DEF Part, Parts
  <2>3. hdr.len = HEADER_SIZE /\ hdr.start /\ hdr.set_len = HEADER_SIZE
    BY DEF Part
  <2> HIDE DEF hdr
  <2>4. <<hdr>> \in Seq(Parts) /\ Len(<<hdr>>) = 1 /\ <<hdr>>[1] = hdr
    BY <2>2
  <2>5. /\ all \in Seq(Parts) /\ Len(all) = 1 + Len(new) /\ all[1] = hdr
        /\ \A k \in 1..Len(new) : all[k + 1] = new[k]
    <3>1. /\ <<hdr>> \o new \in Seq(Parts)
          /\ Len(<<hdr>> \o new) = Len(<<hdr>>) + Len(new)
          /\ \A i \in 1..Len(<<hdr>>) + Len(new) :
               (<<hdr>> \o new)[i] = IF i <= Len(<<hdr>>) THEN <<hdr>>[i]
                                     ELSE new[i - Len(<<hdr>>)]
      BY <2>4, ConcatProperties
    <3> HIDE DEF all
    <3>2. /\ all \in Seq(Parts) /\ Len(all) = 1 + Len(new)
          /\ \A i \in 1..1 + Len(new) :
               all[i] = IF i <= 1 THEN <<hdr>>[i] ELSE new[i - 1]
      BY <2>4, <3>1 DEF all
    <3>3. ASSUME NEW k \in 1..Len(new) PROVE all[k + 1] = new[k]
      <4>1. k + 1 \in 1..1 + Len(new) /\ ~(k + 1 <= 1) /\ (k + 1) - 1 = k
        OBVIOUS
      <4> QED
        BY <3>2, <4>1
    <3>4. 1 \in 1..1 + Len(new) /\ 1 <= 1
      OBVIOUS
    <3> QED
      BY <2>4, <3>2, <3>3, <3>4
  <2> HIDE DEF all
  <2>6. Len(all) \in 1..3 /\ Len(all) > 0
    BY <2>5
  <2>7. LengthIs(all, L)
    <3>1. CASE Len(new) = 1
      BY <2>3, <2>5, <3>1 DEF LengthIs
    <3>2. CASE Len(new) = 2
      <4>1. all[2] = new[1] /\ all[3] = new[2] /\ Len(all) = 3
        BY <2>5, <3>2
      <4>2. new[1] \in Parts /\ new[2] \in Parts
        BY <3>2
      <4>3. new[1].len \in Nat /\ new[2].len \in Nat
        BY <1>1, <4>2 DEF Parts
      <4>4. size = new[1].len + new[2].len
        BY <3>2 DEF LengthIs
      <4> DEFINE x == new[1].len
                 y == new[2].len
      <4>6. x \in Nat /\ y \in Nat /\ size = x + y
        BY <4>3, <4>4
      <4>7. all[1].len = HEADER_SIZE /\ all[2].len = x /\ all[3].len = y
        BY <2>3, <2>5, <4>1
      <4> HIDE DEF x, y
      <4>8. L = HEADER_SIZE + x + y
        BY <1>1, <4>6
      <4>5. L = all[1].len + all[2].len + all[3].len
        BY <4>7, <4>8
      <4> QED
        BY <4>1, <4>5 DEF LengthIs
    <3> QED
      BY <3>1, <3>2
  <2>8. h \in 1..(rec_size + Len(all))
    BY <1>2, <2>6
  <2>9. L = SumLengths(rec_flds', (rec_size + 1)..(rec_size + Len(all)))
    BY <1>2, <2>1, <2>5, <2>6, <2>7, <2>8, InsertedLength
  <2>10. all[1].start /\ \A k \in 2..Len(all) : ~all[k].start
    <3>1. ASSUME NEW k \in 2..Len(all) PROVE ~all[k].start
      <4>1. k - 1 \in 1..Len(new) /\ (k - 1) + 1 = k
        BY <2>5
      <4> QED
        BY <2>5, <4>1
    <3> QED
      BY <2>3, <2>5, <3>1
  <2>11. L \in Nat /\ IPFIX_HEADER_LENGTH + L <= MaxLength /\ all[1].set_len + size = L
    BY <1>1, <2>3, <2>5
  <2>12. last_set_type' \in Kinds
    BY <2>1 DEF Kinds
  <2> HIDE DEF L
  <2> QED
    BY <2>1, <2>5, <2>6, <2>8, <2>9, <2>10, <2>11, <2>12, AddSetStep
<1> QED
  BY <1>3, <1>4

\* bldr_add_template and bldr_add_template_withdrawal keep it.
LEMMA TemplateStep ==
  ASSUME IInv, NEW type \in Types,
         \/ \E n \in TemplateBodies, remapped \in BOOLEAN : bldr_add_template(type, n, remapped)
         \/ bldr_add_template_withdrawal(type)
  PROVE  IInv'
<1>1. HEADER_SIZE \in Nat /\ IPFIX_HEADER_LENGTH \in Nat /\ MaxLength \in Nat
      /\ 2 * HEADER_SIZE + IPFIX_HEADER_LENGTH <= MaxLength
  BY BuilderAssumption
<1>2. HEADER_SIZE \in 0..MaxLength /\ 0 \in 0..MaxLength
  BY <1>1
<1>3. ASSUME NEW n \in TemplateBodies, NEW remapped \in BOOLEAN,
             bldr_add_template(type, n, remapped)
      PROVE  IInv'
  <2> DEFINE size == HEADER_SIZE + n
             kind == <<type, "define">>
  <2>1. n \in Nat /\ n + 2 * HEADER_SIZE + IPFIX_HEADER_LENGTH <= MaxLength
    BY BuilderAssumption DEF TemplateBodies
  <2>2. n \in 0..MaxLength /\ size \in 0..MaxLength /\ size \in Nat
        /\ IPFIX_HEADER_LENGTH + HEADER_SIZE + size <= MaxLength
    BY <1>1, <2>1
  <2>3. kind \in Types \X {"define", "withdraw"}
    OBVIOUS
  <2>4. CASE remapped
    <3> DEFINE p == Part(HEADER_SIZE, 0, FALSE, 0)
               q == Part(n, 0, FALSE, 0)
               new == <<p, q>>
    <3>1. p \in Parts /\ q \in Parts
      BY <1>1, <1>2, <2>2 DEF Part, Parts
    <3>4. AddToSet(kind, new, size)
      BY <1>3, <2>4 DEF bldr_add_template
    <3>6. ~p.start /\ ~q.start /\ p.len = HEADER_SIZE /\ q.len = n
      BY DEF Part
    <3> HIDE DEF p, q
    <3>2. new \in Seq(Parts) /\ Len(new) = 2
      BY <3>1
    <3>3. LengthIs(new, size) /\ ~new[1].start /\ ~new[2].start
      BY <3>2, <3>6 DEF LengthIs
    <3> HIDE DEF new, size, kind
    <3>5. Len(new) \in 1..2 /\ \A k \in 1..Len(new) : ~new[k].start
      BY <3>2, <3>3
    <3> QED
      BY <2>2, <2>3, <3>2, <3>3, <3>4, <3>5, AddToSetStep
  <2>5. CASE ~remapped
    <3> DEFINE p == Part(HEADER_SIZE + n, 0, FALSE, 0)
               new == <<p>>
    <3>1. p \in Parts
      BY <1>1, <1>2, <2>2 DEF Part, Parts
    <3>4. AddToSet(kind, new, size)
      BY <1>3, <2>5 DEF bldr_add_template
    <3>6. ~p.start /\ p.len = size
      BY DEF Part
    <3> HIDE DEF p
    <3>2. new \in Seq(Parts) /\ Len(new) = 1
      BY <3>1
    <3>3. LengthIs(new, size) /\ ~new[1].start
      BY <3>2, <3>6 DEF LengthIs
    <3> HIDE DEF new, size, kind
    <3>5. Len(new) \in 1..2 /\ \A k \in 1..Len(new) : ~new[k].start
      BY <3>2, <3>3
    <3> QED
      BY <2>2, <2>3, <3>2, <3>3, <3>4, <3>5, AddToSetStep
  <2> QED
    BY <2>4, <2>5
<1>4. CASE bldr_add_template_withdrawal(type)
  <2> DEFINE kind == <<type, "withdraw">>
             p == Part(HEADER_SIZE, 0, FALSE, 0)
             new == <<p>>
  <2>1. kind \in Types \X {"define", "withdraw"}
    OBVIOUS
  <2>2. p \in Parts
    BY <1>1, <1>2 DEF Part, Parts
  <2>5. AddToSet(kind, new, HEADER_SIZE)
    BY <1>4 DEF bldr_add_template_withdrawal
  <2>8. ~p.start /\ p.len = HEADER_SIZE
    BY DEF Part
  <2> HIDE DEF p
  <2>3. new \in Seq(Parts) /\ Len(new) = 1
    BY <2>2
  <2>4. LengthIs(new, HEADER_SIZE) /\ ~new[1].start
    BY <2>3, <2>8 DEF LengthIs
  <2>6. IPFIX_HEADER_LENGTH + HEADER_SIZE + HEADER_SIZE <= MaxLength
    BY <1>1
  <2> HIDE DEF new, kind
  <2>7. Len(new) \in 1..2 /\ \A k \in 1..Len(new) : ~new[k].start
    BY <2>3, <2>4
  <2> QED
    BY <1>1, <2>1, <2>3, <2>4, <2>5, <2>6, <2>7, AddToSetStep
<1> QED
  BY <1>3, <1>4

\* bldr_start keeps it.
LEMMA StartStep ==
  ASSUME IInv, bldr_start
  PROVE  IInv'
<1>1. /\ rec_flds' = <<rec_flds[1]>> /\ rec_cnt' = <<0>> /\ rec_set_start' = <<FALSE>>
      /\ length' = <<0>> /\ last_set_type' = <<"none">> /\ last_set_header' = NULL
      /\ loop' = NULL /\ pkt_arr' = <<>> /\ built' = <<>> /\ fetched' = NULL
  BY DEF bldr_start
<1>2. ~is_complete' /\ ~Ready' /\ ~Cutting'
  BY <1>1 DEF is_complete, Ready, Cutting
<1> DEFINE f == rec_flds[1]
<1>3. f \in Fields
  BY DEF IInv, TypeOK, rec_size
<1> HIDE DEF f
<1>4. rec_flds' \in Seq(Fields) /\ Len(rec_flds') = 1
  <2>1. rec_flds' = <<f>>
    BY <1>1 DEF f
  <2> QED
    BY <1>3, <2>1
<1>5. rec_size' = 1
  BY <1>4 DEF rec_size
<1>6. TypeOK'
  <2>1. /\ rec_cnt' \in Seq(0..MaxLength) /\ Len(rec_cnt') = 1
        /\ rec_set_start' \in Seq(BOOLEAN) /\ Len(rec_set_start') = 1
        /\ length' \in Seq(Nat) /\ Len(length') = 1
    BY <1>1, BuilderAssumption
  <2>2. pkt_arr' \in Seq(Ranges) /\ built' \in Seq(Fields)
    BY <1>1
  <2>3. last_set_type' \in Kinds
    BY <1>1 DEF Kinds
  <2> QED
    BY <1>1, <1>4, <1>5, <2>1, <2>2, <2>3 DEF TypeOK
<1>7. SetsFit' /\ SetLengthsTrue'
  BY <1>5 DEF SetsFit, SetLengthsTrue
<1>8. LastSet'
  <2>1. last_set_type' \notin Types \X {"define", "withdraw"}
    BY <1>1, NoPair
  <2> QED
    BY <1>1, <2>1 DEF LastSet
<1>9. Phases' /\ LoopInv' /\ PacketsInv' /\ FieldsInv' /\ PacketAsBuilt'
  BY <1>1, <1>2 DEF Phases, LoopInv, PacketsInv, FieldsInv, PacketAsBuilt
<1> QED
  BY <1>6, <1>7, <1>8, <1>9 DEF IInv

\* What the steps that cut do not touch.
LEMMA PartsKept ==
  ASSUME TypeOK, SetsFit, ~Ready, UNCHANGED <<parts_vars, set_vars>>
  PROVE  /\ rec_size' = rec_size
         /\ SetsFit'
         /\ rec_flds' = rec_flds /\ rec_cnt' = rec_cnt
         /\ rec_set_start' = rec_set_start /\ length' = length
         /\ loop' \in Loops \cup {NULL} /\ pkt_arr' \in Seq(Ranges)
            /\ built' \in Seq(Fields) /\ fetched' \in Packets \cup {NULL} => TypeOK'
<1>1. /\ rec_flds' = rec_flds /\ rec_cnt' = rec_cnt
      /\ rec_set_start' = rec_set_start /\ length' = length
      /\ last_set_type' = last_set_type /\ last_set_header' = last_set_header
  BY DEF parts_vars, set_vars
<1>2. rec_size' = rec_size
  BY <1>1 DEF rec_size
<1>3. ASSUME NEW i PROVE parts_aux_set_len(i)' = parts_aux_set_len(i)
  BY <1>1, <1>2 DEF parts_aux_set_len, parts_aux_set_parts
<1>4. SetsFit'
  BY <1>1, <1>2, <1>3 DEF SetsFit
<1>5. loop' \in Loops \cup {NULL} /\ pkt_arr' \in Seq(Ranges)
        /\ built' \in Seq(Fields) /\ fetched' \in Packets \cup {NULL} => TypeOK'
  BY <1>1, <1>2 DEF TypeOK
<1> QED
  BY <1>1, <1>2, <1>4, <1>5

\* bldr_end keeps it.
LEMMA EndStep ==
  ASSUME IInv, NEW size \in Sizes, bldr_end(size)
  PROVE  IInv'
<1> DEFINE max == Max(size, PACKET_MIN_SIZE)
<1>1. /\ ~is_complete
      /\ loop' = [i |-> 2, start |-> 2, cur_len |-> IPFIX_HEADER_LENGTH,
                  parts |-> 0, max_size |-> max, done |-> rec_size = 1]
      /\ built' = rec_flds /\ pkt_arr' = pkt_arr /\ fetched' = fetched
      /\ UNCHANGED <<parts_vars, set_vars>>
  BY DEF bldr_end
<1>2. max \in 1..MaxLength
  BY BuilderAssumption DEF Max
<1> HIDE DEF max
<1>3. loop' \in Loops /\ IPFIX_HEADER_LENGTH \in Nat
  BY <1>1, <1>2, BuilderAssumption DEF Loops
<1>4. loop = NULL /\ ~Ready /\ loop' # NULL
  BY <1>1, <1>3, NullAssumption DEF is_complete, Ready
<1>5. pkt_arr = <<>> /\ fetched = NULL
  BY <1>1, <1>4 DEF IInv, Phases
<1>6. TypeOK /\ SetsFit
  BY DEF IInv
<1>7. /\ rec_size' = rec_size /\ SetsFit' /\ rec_flds' = rec_flds
      /\ rec_set_start' = rec_set_start /\ TypeOK'
  BY <1>1, <1>3, <1>4, <1>6, PartsKept DEF TypeOK
<1>8. /\ loop'.i = 2 /\ loop'.start = 2 /\ loop'.cur_len = IPFIX_HEADER_LENGTH
      /\ loop'.parts = 0 /\ loop'.done = (rec_size = 1)
  BY <1>1
<1>9. is_complete' /\ (Ready' <=> rec_size = 1) /\ (Cutting' <=> rec_size # 1)
  BY <1>4, <1>8 DEF is_complete, Ready, Cutting
<1>10. CutEnd' = 1
  BY <1>7, <1>8, <1>9 DEF CutEnd
<1>11. rec_size \in Nat /\ rec_size > 0
  BY <1>6 DEF TypeOK, rec_size
<1>12. LastSet' /\ SetLengthsTrue'
  BY <1>9 DEF LastSet, SetLengthsTrue
<1>13. Phases'
  BY <1>1, <1>5, <1>7, <1>9 DEF Phases, rec_size
<1>14. LoopInv'
  <2> SUFFICES ASSUME Cutting' PROVE LoopInv'
    BY DEF LoopInv
  <2>1. rec_size > 1 /\ rec_set_start[2]
    BY <1>4, <1>6, <1>9, <1>11 DEF SetsFit
  <2>2. SumLengths(built', 2..(2 - 1)) = 0
    <3>1. 2 \in Int /\ 2 - 1 \in Int /\ 2 - 1 < 2
      OBVIOUS
    <3> QED
      BY <3>1, SumNone
  <2> QED
    BY <1>1, <1>3, <1>7, <1>8, <1>11, <2>1, <2>2 DEF LoopInv
<1>15. PacketsInv'
  BY <1>1, <1>5, <1>10 DEF PacketsInv
<1>16. FieldsInv'
  BY <1>1, <1>7 DEF FieldsInv
<1>17. PacketAsBuilt'
  BY <1>1, <1>5 DEF PacketAsBuilt
<1> QED
  BY <1>7, <1>12, <1>13, <1>14, <1>15, <1>16, <1>17 DEF IInv

\* A packet stays what it is while others are cut off behind it.
LEMMA PacketKept ==
  ASSUME NEW p, PacketInv(p), UNCHANGED <<rec_cnt, rec_set_start, built>>,
         loop'.max_size = loop.max_size, NEW e \in Int, NEW f \in Int,
         CutEnd = e, CutEnd' = f, e <= f, End(p) \in Int
  PROVE  PacketInv(p)'
<1>1. Limited(p)'
  BY DEF PacketInv, Limited, Places
<1>2. End(p)' = End(p) /\ End(p) <= f
  BY DEF PacketInv, End
<1> QED
  BY <1>1, <1>2 DEF PacketInv, Places

\* While packets are cut.
LEMMA CuttingFacts ==
  ASSUME IInv, Cutting
  PROVE  /\ loop \in Loops /\ ~Ready /\ is_complete /\ fetched = NULL
         /\ rec_flds = built /\ rec_size \in Nat
         /\ loop.start \in 2..rec_size /\ rec_set_start[loop.start]
         /\ loop.i \in loop.start..(rec_size + 1) /\ loop.parts = loop.i - loop.start
         /\ CutEnd = loop.start - 1
<1>1. TypeOK /\ Phases /\ LoopInv
  BY DEF IInv
<1>2. loop \in Loops /\ ~Ready /\ is_complete
  BY <1>1 DEF TypeOK, Cutting, Ready, is_complete
<1>3. rec_size \in Nat
  BY <1>1 DEF TypeOK, rec_size
<1> QED
  BY <1>1, <1>2, <1>3 DEF LoopInv, Phases, CutEnd

\* A Set is taken into the packet.
LEMMA NextSetStep ==
  ASSUME IInv, NextSet
  PROVE  IInv'
<1> SUFFICES ASSUME NEW i, NEW n, NEW s, NEW cur, NEW max,
                    i = loop.i, n = rec_size, s = loop.start, cur = loop.cur_len,
                    max = loop.max_size
             PROVE  IInv'
  OBVIOUS
<1>1. /\ Cutting /\ i <= n /\ Fits
      /\ UNCHANGED <<parts_vars, set_vars>>
      /\ pkt_arr' = pkt_arr /\ built' = built /\ fetched' = fetched
  BY DEF NextSet
<1>2. /\ loop \in Loops /\ ~Ready /\ is_complete /\ fetched = NULL
      /\ rec_flds = built /\ n \in Nat
      /\ s \in 2..n /\ rec_set_start[s]
      /\ i \in s..(n + 1) /\ loop.parts = i - s
      /\ CutEnd = s - 1
  BY <1>1, CuttingFacts
<1>3. TypeOK /\ SetsFit /\ Phases /\ PacketsInv
  BY DEF IInv
<1>4. /\ rec_set_start[i]
      /\ cur = IPFIX_HEADER_LENGTH + SumLengths(built, s..(i - 1))
      /\ loop.parts > 0 =>
           /\ cur <= MaxLength
           /\ cur <= max \/ \A k \in (s + 1)..(i - 1) : ~rec_set_start[k]
  BY <1>1 DEF IInv, LoopInv
<1>5. cur \in Nat /\ max \in 1..MaxLength /\ loop.parts \in Nat
  BY <1>2 DEF Loops
<1>6. PICK e \in i..n :
        /\ SetOf(rec_set_start, n, i) = i..e
        /\ \A k \in (i + 1)..e : ~rec_set_start[k]
        /\ e < n => rec_set_start[e + 1]
  <2>1. i \in 1..n
    BY <1>1, <1>2
  <2> QED
    BY <1>2, <2>1, SetRange
<1>7. parts_aux_set_parts(i) = i..e
  BY <1>6, SetParts
<1> DEFINE L == SumLengths(rec_flds, i..e)
<1>8. parts_aux_set_len(i) = L
  BY <1>7 DEF parts_aux_set_len
<1>9. L \in Nat /\ i \in Int /\ e \in Int
  <2>1. i \in Int /\ e \in Int
    BY <1>2
  <2> QED
    BY <2>1, SumType
<1>10. Cardinality(i..e) = e - i + 1
  <2>1. i <= e
    BY <1>2
  <2>2. Cardinality(i..e) = IF i > e THEN 0 ELSE e - i + 1
    BY <1>9, FS_Interval
  <2> QED
    BY <1>9, <2>1, <2>2
<1>11. loop' = [loop EXCEPT !.i = e + 1, !.parts = e + 1 - s, !.cur_len = cur + L]
  <2>1. loop' = [loop EXCEPT !.i = i + Cardinality(i..e),
                             !.parts = loop.parts + Cardinality(i..e),
                             !.cur_len = cur + L]
    BY <1>7, <1>8 DEF NextSet
  <2> DEFINE c == Cardinality(i..e)
  <2> HIDE DEF c
  <2>2. c = e - i + 1 /\ loop.parts = i - s /\ s \in Int
    BY <1>2, <1>10 DEF c
  <2>3. i + c = e + 1 /\ loop.parts + c = e + 1 - s
    BY <1>9, <2>2
  <2> QED
    BY <2>1, <2>3 DEF c
<1> HIDE DEF L
<1>12. /\ loop' \in Loops /\ loop'.i = e + 1 /\ loop'.start = s
       /\ loop'.parts = e + 1 - s /\ loop'.cur_len = cur + L
       /\ loop'.max_size = max /\ loop'.done = loop.done
  <2>1. e + 1 \in Nat /\ e + 1 - s \in Nat /\ cur + L \in Nat
    BY <1>2, <1>5, <1>9
  <2> QED
    BY <1>2, <1>11, <2>1 DEF Loops
<1>13. Cutting' /\ ~Ready' /\ is_complete'
  BY <1>1, <1>12, NullAssumption DEF Cutting, Ready, is_complete
<1>14. /\ rec_size' = n /\ SetsFit' /\ rec_flds' = rec_flds /\ rec_cnt' = rec_cnt
       /\ rec_set_start' = rec_set_start
       /\ TypeOK'
  BY <1>1, <1>2, <1>3, <1>12, PartsKept DEF TypeOK
<1>15. CutEnd' = s - 1
  BY <1>12, <1>13 DEF CutEnd
<1>16. LastSet' /\ SetLengthsTrue'
  BY <1>13 DEF LastSet, SetLengthsTrue
<1>17. Phases'
  BY <1>1, <1>2, <1>3, <1>13, <1>14 DEF Phases
<1>18. cur + L = IPFIX_HEADER_LENGTH + SumLengths(built, s..e)
  <2> DEFINE b == i - 1
  <2>1. s \in Int /\ b \in Int /\ e \in Int /\ s <= b + 1 /\ b <= e /\ b + 1 = i
    BY <1>2, <1>9
  <2>2. SumLengths(built, s..b) \in Nat
    BY <2>1, SumType
  <2>3. cur = IPFIX_HEADER_LENGTH + SumLengths(built, s..b)
    BY <1>4
  <2> HIDE DEF b
  <2>4. SumsUp(built, s, b, e)
    BY <2>1, SumSplit
  <2>5. SumLengths(built, s..e) = SumLengths(built, s..b) + L
    BY <1>2, <2>1, <2>4 DEF SumsUp, L
  <2> QED
    BY <1>9, <2>2, <2>3, <2>5, BuilderAssumption
<1>19. /\ cur + L <= MaxLength
       /\ cur + L <= max \/ \A k \in (s + 1)..e : ~rec_set_start[k]
  <2>1. CASE cur + L <= max
    BY <1>5, <1>9, <2>1, BuilderAssumption
  <2>2. CASE loop.parts = 0
    <3>1. i = s
      BY <1>2, <2>2
    <3>2. SumLengths(built, s..(i - 1)) = 0
      <4>1. s \in Int /\ i - 1 \in Int /\ i - 1 < s
        BY <1>2, <3>1
      <4> QED
        BY <4>1, SumNone
    <3>3. cur = IPFIX_HEADER_LENGTH
      BY <1>4, <3>2, BuilderAssumption
    <3>4. IPFIX_HEADER_LENGTH + L <= MaxLength
      <4>1. i \in 2..n
        BY <1>1, <1>2
      <4> QED
        BY <1>2, <1>3, <1>4, <1>8, <4>1 DEF SetsFit
    <3> QED
      BY <1>6, <3>1, <3>3, <3>4
  <2> QED
    BY <1>1, <1>8, <2>1, <2>2 DEF Fits
<1>20. LoopInv'
  <2>1. e + 1 \in s..(n + 1) /\ (e + 1) - 1 = e /\ (e + 1 <= n => rec_set_start[e + 1])
    BY <1>2, <1>6
  <2> QED
    BY <1>1, <1>2, <1>12, <1>14, <1>18, <1>19, <2>1 DEF LoopInv
<1>21. PacketsInv'
  <2>1. ASSUME NEW k \in DOMAIN pkt_arr PROVE PacketInv(pkt_arr[k])'
    <3>1. PacketInv(pkt_arr[k])
      BY <1>2, <1>3 DEF PacketsInv
    <3> SUFFICES ASSUME NEW p, p = pkt_arr[k] PROVE PacketInv(p)'
      BY <1>1
    <3>2. p \in Ranges
      BY <1>3 DEF TypeOK
    <3>3. End(p) \in Int
      BY <3>2 DEF Ranges, End
    <3>4. s - 1 \in Int /\ s - 1 <= s - 1
      BY <1>2
    <3>5. UNCHANGED <<rec_cnt, rec_set_start, built>> /\ loop'.max_size = loop.max_size
      BY <1>1, <1>12, <1>14
    <3> QED
      BY <1>2, <1>15, <3>1, <3>3, <3>4, <3>5, PacketKept
  <2> QED
    BY <1>1, <1>2, <1>3, <1>15, <2>1 DEF PacketsInv, End, Places
<1>22. FieldsInv'
  BY <1>13 DEF FieldsInv
<1>23. PacketAsBuilt'
  BY <1>1, <1>2 DEF PacketAsBuilt
<1> QED
  BY <1>14, <1>16, <1>17, <1>20, <1>21, <1>22, <1>23 DEF IInv

PlacesOf(s, c) ==
  /\ s - 1 \in Nat /\ c - s + 2 \in Nat
  /\ (s - 1) + (c - s + 2) - 1 = c /\ (s - 1) + 1 = s

\* A packet with its header before the places s to c.
LEMMA PlacesArithmetic ==
  ASSUME NEW s \in Nat, NEW c \in Int, 2 <= s, s <= c
  PROVE  PlacesOf(s, c)
  BY DEF PlacesOf

\* parts_packet_new: the packet that was filled follows the others.
LEMMA PacketAppended ==
  ASSUME IInv, Cutting, loop.parts > 0, parts_packet_new,
         UNCHANGED <<parts_vars, built>>, loop' \in Loops,
         loop'.max_size = loop.max_size, NEW c, c = loop.i - 1, CutEnd' = c
  PROVE  pkt_arr' \in Seq(Ranges) /\ PacketsInv'
<1> SUFFICES ASSUME NEW i, NEW n, NEW s, NEW cur, NEW max, NEW m,
                    i = loop.i, n = rec_size, s = loop.start, cur = loop.cur_len,
                    max = loop.max_size, m = Len(pkt_arr)
             PROVE  pkt_arr' \in Seq(Ranges) /\ PacketsInv'
  OBVIOUS
<1>1. /\ loop \in Loops /\ is_complete /\ rec_flds = built /\ n \in Nat
      /\ s \in 2..n /\ rec_set_start[s]
      /\ i \in s..(n + 1) /\ loop.parts = i - s
      /\ CutEnd = s - 1
  BY CuttingFacts
<1>2. /\ cur = IPFIX_HEADER_LENGTH + SumLengths(built, s..(i - 1))
      /\ cur <= MaxLength
      /\ cur <= max \/ \A k \in (s + 1)..(i - 1) : ~rec_set_start[k]
  BY DEF IInv, LoopInv
<1>3. TypeOK /\ PacketsInv
  BY DEF IInv
<1>4. /\ \A k \in DOMAIN pkt_arr : PacketInv(pkt_arr[k])
      /\ \A k, l \in DOMAIN pkt_arr : k < l => End(pkt_arr[k]) <= pkt_arr[l].start
      /\ \A k \in DOMAIN pkt_arr : k > 1 => pkt_arr[k].start = End(pkt_arr[k - 1])
      /\ pkt_arr # <<>> => End(pkt_arr[Len(pkt_arr)]) = CutEnd
      /\ \A j \in 2..CutEnd : \E k \in DOMAIN pkt_arr : j \in Places(pkt_arr[k])
  BY <1>1, <1>3 DEF PacketsInv
<1>5. /\ s \in Int /\ i \in Int /\ c \in Int /\ c = i - 1 /\ s <= c /\ c <= n
      /\ s + loop.parts - 1 = c /\ loop.parts + 1 = c - s + 2
  <2> SUFFICES ASSUME NEW k, k = loop.parts
               PROVE  /\ s \in Int /\ i \in Int /\ c \in Int /\ c = i - 1
                      /\ s <= c /\ c <= n /\ s + k - 1 = c /\ k + 1 = c - s + 2
    OBVIOUS
  <2>1. c = i - 1
    OBVIOUS
  <2>2. s \in Int /\ i \in Int /\ n \in Int /\ i <= n + 1
    BY <1>1
  <2>3. k = i - s /\ k > 0
    BY <1>1
  <2> QED
    BY <2>1, <2>2, <2>3
<1>0. /\ s - 1 \in Nat /\ c - s + 2 \in Nat
      /\ (s - 1) + (c - s + 2) - 1 = c /\ (s - 1) + 1 = s
  <2>1. s \in Nat /\ s >= 2 /\ c \in Int /\ s <= c
    BY <1>1, <1>5
  <2>2. PlacesOf(s, c)
    BY <2>1, PlacesArithmetic
  <2> QED
    BY <2>2 DEF PlacesOf
<1> SUFFICES ASSUME NEW p, p = [start |-> s - 1, size |-> loop.parts + 1,
                                backup |-> rec_flds[s + loop.parts - 1],
                                rec_cnt |-> Total(rec_cnt, s..(s + loop.parts - 1))]
             PROVE  pkt_arr' \in Seq(Ranges) /\ PacketsInv'
  OBVIOUS
<1>6. p = [start |-> s - 1, size |-> c - s + 2, backup |-> built[c],
           rec_cnt |-> Total(rec_cnt, s..c)]
  BY <1>1, <1>5
<1>7. Total(rec_cnt, s..c) \in Nat
  BY <1>5, FS_Interval, TotalType
<1>8. built[c] \in Fields
  <2>1. c \in 1..n
    BY <1>1, <1>5
  <2> QED
    BY <1>1, <1>3, <2>1 DEF TypeOK, rec_size
<1>9. p \in Ranges
  BY <1>0, <1>6, <1>7, <1>8 DEF Ranges
<1>10. p.start = s - 1 /\ p.size = c - s + 2 /\ p.backup = built[c]
       /\ p.rec_cnt = Total(rec_cnt, s..c)
  BY <1>6
<1>11. End(p) = c /\ Places(p) = s..c
  <2>1. p.start + p.size - 1 = c /\ p.start + 1 = s
    BY <1>0, <1>10
  <2> QED
    BY <2>1 DEF End, Places
<1>12. pkt_arr' = Append(pkt_arr, p)
  BY DEF parts_packet_new
<1>13. /\ m \in Nat /\ pkt_arr' \in Seq(Ranges) /\ Len(pkt_arr') = m + 1
       /\ DOMAIN pkt_arr = 1..m /\ DOMAIN pkt_arr' = 1..(m + 1)
       /\ \A k \in 1..m : pkt_arr'[k] = pkt_arr[k]
       /\ pkt_arr'[m + 1] = p
  <2>1. pkt_arr \in Seq(Ranges) /\ m \in Nat /\ DOMAIN pkt_arr = 1..m
    BY <1>3 DEF TypeOK
  <2>2. /\ Append(pkt_arr, p) \in Seq(Ranges)
        /\ Len(Append(pkt_arr, p)) = Len(pkt_arr) + 1
        /\ \A k \in 1..Len(pkt_arr) : Append(pkt_arr, p)[k] = pkt_arr[k]
        /\ Append(pkt_arr, p)[Len(pkt_arr) + 1] = p
    BY <1>9, <2>1, AppendProperties
  <2>3. pkt_arr' \in Seq(Ranges) /\ Len(pkt_arr') = m + 1
    BY <1>12, <2>2
  <2>4. DOMAIN pkt_arr' = 1..(m + 1)
    BY <2>3
  <2> QED
    BY <1>12, <2>1, <2>2, <2>3, <2>4
<1>14. rec_cnt' = rec_cnt /\ rec_set_start' = rec_set_start /\ built' = built
       /\ is_complete'
  BY NullAssumption DEF parts_vars, is_complete
<1>15. PacketInv(p)'
  <2>1. IPFIX_HEADER_LENGTH + SumLengths(built, s..c) = cur
    BY <1>2, <1>5
  <2>2. p.start + 1 = s /\ p.start >= 1 /\ p.size > 1
    BY <1>1, <1>5, <1>10
  <2>3. Limited(p)'
    <3>1. cur <= max \/ \A k \in s..c : k > s => ~rec_set_start[k]
      BY <1>1, <1>2, <1>5
    <3>2. Places(p)' = s..c
      BY <1>11 DEF Places
    <3> QED
      BY <1>2, <1>14, <2>1, <2>2, <3>1, <3>2 DEF Limited
  <2>4. End(p)' = c /\ Places(p)' = s..c /\ c <= c
    BY <1>5, <1>11 DEF End, Places
  <2> QED
    BY <1>1, <1>10, <1>14, <2>2, <2>3, <2>4 DEF PacketInv
<1>16. \A k \in 1..m : pkt_arr[k] \in Ranges /\ End(pkt_arr[k]) \in Int
  <2> SUFFICES ASSUME NEW k \in 1..m
               PROVE  pkt_arr[k] \in Ranges /\ End(pkt_arr[k]) \in Int
    OBVIOUS
  <2>1. pkt_arr[k] \in Ranges
    BY <1>3, <1>13 DEF TypeOK
  <2> QED
    BY <2>1 DEF Ranges, End
<1>17. ASSUME NEW k \in 1..(m + 1) PROVE PacketInv(pkt_arr[k])'
  <2> SUFFICES ASSUME NEW q, q = pkt_arr'[k] PROVE PacketInv(q)'
    OBVIOUS
  <2>1. CASE k \in 1..m
    <3>1. PacketInv(q) /\ End(q) \in Int
      BY <1>4, <1>13, <1>16, <2>1
    <3>2. s - 1 \in Int /\ s - 1 <= c
      BY <1>5
    <3>3. UNCHANGED <<rec_cnt, rec_set_start, built>>
      BY <1>14
    <3> QED
      BY <1>1, <1>5, <3>1, <3>2, <3>3, PacketKept
  <2>2. CASE k = m + 1
    BY <1>13, <1>15, <2>2
  <2> QED
    BY <1>13, <2>1, <2>2
<1>18. \A k, l \in 1..(m + 1) : k < l => End(pkt_arr'[k]) <= pkt_arr'[l].start
  <2> SUFFICES ASSUME NEW k \in 1..(m + 1), NEW l \in 1..(m + 1), k < l
               PROVE  End(pkt_arr'[k]) <= pkt_arr'[l].start
    OBVIOUS
  <2>1. k \in 1..m
    BY <1>13
  <2>2. CASE l \in 1..m
    BY <1>4, <1>13, <2>1, <2>2
  <2>3. CASE l = m + 1
    <3>1. End(pkt_arr[k]) <= s - 1
      BY <1>1, <1>4, <1>13, <2>1 DEF PacketInv
    <3> QED
      BY <1>10, <1>13, <2>1, <2>3, <3>1
  <2> QED
    BY <1>13, <2>2, <2>3
<1>19. \A k \in 1..(m + 1) : k > 1 => pkt_arr'[k].start = End(pkt_arr'[k - 1])
  <2> SUFFICES ASSUME NEW k \in 1..(m + 1), k > 1
               PROVE  pkt_arr'[k].start = End(pkt_arr'[k - 1])
    OBVIOUS
  <2>1. k - 1 \in 1..m
    BY <1>13
  <2>2. CASE k \in 1..m
    BY <1>4, <1>13, <2>1, <2>2
  <2>3. CASE k = m + 1
    <3>1. m > 0 /\ k - 1 = m
      BY <1>13, <2>3
    <3>2. pkt_arr # <<>>
      BY <1>13, <3>1
    <3>3. End(pkt_arr[m]) = s - 1
      BY <1>1, <1>4, <3>2
    <3>4. pkt_arr'[k - 1] = pkt_arr[m]
      BY <1>13, <2>1, <3>1
    <3> QED
      BY <1>10, <1>13, <2>3, <3>3, <3>4
  <2> QED
    BY <1>13, <2>2, <2>3
<1>20. \A j \in 2..c : \E k \in 1..(m + 1) : j \in Places(pkt_arr'[k])
  <2> SUFFICES ASSUME NEW j \in 2..c
               PROVE  \E k \in 1..(m + 1) : j \in Places(pkt_arr'[k])
    OBVIOUS
  <2>1. CASE j <= s - 1
    <3>1. j \in 2..CutEnd
      BY <1>1, <1>5, <2>1
    <3>2. PICK k \in 1..m : j \in Places(pkt_arr[k])
      BY <1>4, <1>13, <3>1
    <3>3. k \in 1..(m + 1) /\ pkt_arr'[k] = pkt_arr[k]
      BY <1>13
    <3> QED
      BY <3>2, <3>3
  <2>2. CASE ~(j <= s - 1)
    <3>1. j \in s..c /\ m + 1 \in 1..(m + 1)
      BY <1>5, <1>13, <2>2
    <3> QED
      BY <1>11, <1>13, <3>1
  <2> QED
    BY <2>1, <2>2
<1>21. PacketsInv'
  <2>1. End(pkt_arr'[Len(pkt_arr')]) = c
    BY <1>11, <1>13
  <2> QED
    BY <1>13, <1>17, <1>18, <1>19, <1>20, <2>1 DEF PacketsInv, End, Places
<1> QED
  BY <1>13, <1>21

\* A packet is cut off, before a Set or at the end of the parts.
LEMMA PacketStep ==
  ASSUME IInv, NextPacket \/ LastPacket
  PROVE  IInv'
<1> SUFFICES ASSUME NEW i, NEW n, NEW c, i = loop.i, n = rec_size, c = i - 1
             PROVE  IInv'
  OBVIOUS
<1>1. /\ Cutting /\ parts_packet_new
      /\ UNCHANGED <<parts_vars, set_vars>>
      /\ built' = built /\ fetched' = fetched
  BY DEF NextPacket, LastPacket
<1>2. /\ loop \in Loops /\ ~Ready /\ is_complete /\ fetched = NULL
      /\ rec_flds = built /\ n \in Nat
      /\ loop.start \in 2..n
      /\ i \in loop.start..(n + 1) /\ loop.parts = i - loop.start
  BY <1>1, CuttingFacts
<1>3. TypeOK /\ SetsFit /\ Phases
  BY DEF IInv
<1>4. loop.parts > 0
  <2>1. CASE NextPacket
    BY <1>2, <2>1 DEF NextPacket, Fits
  <2>2. CASE LastPacket
    BY <1>2, <2>2 DEF LastPacket
  <2> QED
    BY <2>1, <2>2
<1>5. /\ loop' \in Loops /\ loop'.max_size = loop.max_size /\ loop' # NULL
      /\ NextPacket => /\ i <= n /\ loop'.done = loop.done /\ loop'.start = i
                       /\ loop'.i = i /\ loop'.parts = 0
                       /\ loop'.cur_len = IPFIX_HEADER_LENGTH
      /\ ~NextPacket => i > n /\ loop'.done = TRUE
  <2>1. CASE NextPacket
    <3>1. loop' = [loop EXCEPT !.start = i, !.parts = 0, !.cur_len = IPFIX_HEADER_LENGTH]
          /\ i <= n
      BY <2>1 DEF NextPacket
    <3>2. i \in Nat /\ IPFIX_HEADER_LENGTH \in Nat /\ 0 \in Nat
      BY <1>2, BuilderAssumption
    <3> QED
      BY <1>2, <2>1, <3>1, <3>2, NullAssumption DEF Loops
  <2>2. CASE ~NextPacket
    <3>1. loop' = [loop EXCEPT !.done = TRUE] /\ i > n
      BY <2>2 DEF LastPacket
    <3> QED
      BY <1>2, <2>2, <3>1, NullAssumption DEF Loops
  <2> QED
    BY <2>1, <2>2
<1>6. is_complete' /\ (Ready' <=> ~NextPacket) /\ (Cutting' <=> NextPacket)
  BY <1>1, <1>5 DEF is_complete, Ready, Cutting
<1>7. UNCHANGED <<parts_vars, built>>
  BY <1>1
<1>8. rec_size' = n
  BY <1>1 DEF parts_vars, rec_size
<1>9. CutEnd' = c
  BY <1>2, <1>5, <1>6, <1>8 DEF CutEnd
<1>10. pkt_arr' \in Seq(Ranges) /\ PacketsInv'
  BY <1>1, <1>4, <1>5, <1>7, <1>9, PacketAppended
<1>11. /\ SetsFit' /\ rec_flds' = rec_flds /\ rec_set_start' = rec_set_start
       /\ TypeOK'
  BY <1>1, <1>2, <1>3, <1>5, <1>10, PartsKept DEF TypeOK
<1>12. LastSet' /\ SetLengthsTrue'
  BY <1>6 DEF LastSet, SetLengthsTrue
<1>13. Phases'
  BY <1>1, <1>2, <1>3, <1>6, <1>8 DEF Phases
<1>14. LoopInv'
  <2> SUFFICES ASSUME NextPacket PROVE LoopInv'
    BY <1>6 DEF LoopInv
  <2>1. rec_set_start[i] /\ i \in 2..n
    BY <1>1, <1>2, <1>5 DEF IInv, LoopInv
  <2>2. SumLengths(built, i..(i - 1)) = 0
    <3>1. i \in Int /\ i - 1 \in Int /\ i - 1 < i
      BY <1>2
    <3> QED
      BY <3>1, SumNone
  <2>3. i \in i..(n + 1) /\ i - i = 0
    BY <1>2, <2>1
  <2>4. IPFIX_HEADER_LENGTH + 0 = IPFIX_HEADER_LENGTH
    BY BuilderAssumption
  <2> QED
    BY <1>1, <1>2, <1>5, <1>8, <1>11, <2>1, <2>2, <2>3, <2>4 DEF LoopInv
<1>15. FieldsInv'
  BY <1>1, <1>2, <1>11 DEF FieldsInv
<1>16. PacketAsBuilt'
  BY <1>1, <1>2 DEF PacketAsBuilt
<1> QED
  BY <1>10, <1>11, <1>12, <1>13, <1>14, <1>15, <1>16 DEF IInv

IsHandedOut(flds, a, b, parts) ==
  /\ parts \in Seq(Fields) /\ Len(parts) = b - a + 1
  /\ \A k \in 1..Len(parts) : parts[k] = flds[a + k - 1]
  /\ IPFIX_HEADER_LENGTH + SumLengths(flds, (a + 1)..b)
       = SumLengths(parts, DOMAIN parts)

\* The parts of a packet as they are handed out: their number, each of them, and
\* their length.
LEMMA HandedOut ==
  ASSUME NEW flds \in Seq(Fields), NEW a \in Nat, NEW b \in Nat,
         1 <= a, a < b, b <= Len(flds), flds[a] = PacketHeader,
         NEW parts, parts = SubSeq(flds, a, b)
  PROVE  IsHandedOut(flds, a, b, parts)
<1>1. b \in a..Len(flds) /\ a \in 1..(Len(flds) + 1) /\ b \in (a - 1)..Len(flds)
  OBVIOUS
<1>2. /\ SubSeq(flds, a, b) \in Seq(Fields)
      /\ Len(SubSeq(flds, a, b)) = IF a <= b THEN b - a + 1 ELSE 0
      /\ \A i \in 1..(b - a + 1) : SubSeq(flds, a, b)[i] = flds[a + i - 1]
  BY <1>1, SubSeqProperties
<1>3. /\ parts \in Seq(Fields) /\ Len(parts) = b - a + 1
      /\ \A i \in 1..(b - a + 1) : parts[i] = flds[a + i - 1]
  BY <1>2
<1> DEFINE n == b - a + 1
           f == [i \in DOMAIN flds |-> flds[i].len]
           g == [i \in DOMAIN parts |-> parts[i].len]
           d == 1 - a
<1>4. n \in Nat /\ n > 1 /\ DOMAIN parts = 1..n /\ d \in Int
      /\ (a + 1) + d = 2 /\ b + d = n
  BY <1>3
<1>5. \A i \in (a + 1)..b : g[i + d] = f[i]
  <2> SUFFICES ASSUME NEW i \in (a + 1)..b PROVE g[i + d] = f[i]
    OBVIOUS
  <2> DEFINE k == i + d
  <2>1. k \in 1..n /\ a + k - 1 = i /\ i \in DOMAIN flds
    OBVIOUS
  <2> HIDE DEF n, d, k
  <2>2. parts[k] = flds[i]
    BY <1>3, <2>1 DEF n
  <2>3. k \in DOMAIN parts
    BY <1>4, <2>1
  <2> QED
    BY <2>1, <2>2, <2>3 DEF k
<1> HIDE DEF f, g, d, n
<1>6. Total(g, 2..n) = Total(f, (a + 1)..b)
  <2>1. a + 1 \in Int /\ b \in Int
    OBVIOUS
  <2> DEFINE s == a + 1
  <2>2. s \in Int /\ \A i \in s..b : g[i + d] = f[i]
    BY <1>5, <2>1
  <2> HIDE DEF s
  <2>3. Shifted(f, g, s, b, d)
    BY <1>4, <2>1, <2>2, TotalShift
  <2> QED
    BY <1>4, <2>3 DEF Shifted, s
<1>7. SumLengths(parts, 2..n) = SumLengths(flds, (a + 1)..b)
  BY <1>6 DEF SumLengths, f, g
<1>8. SumLengths(parts, 1..1) = IPFIX_HEADER_LENGTH
  <2>1. 1 \in 1..n /\ 1 \in DOMAIN parts /\ a + 1 - 1 = a
    BY <1>4
  <2>2. parts[1] = flds[a]
    BY <1>3, <2>1 DEF n
  <2>3. parts[1].len = IPFIX_HEADER_LENGTH
    BY <2>2 DEF PacketHeader, Field
  <2> QED
    BY <1>3, <2>1, <2>3, SumOne
<1>9. SumsUp(parts, 1, 1, n)
  <2>1. 1 \in Int /\ n \in Int /\ 1 <= 1 + 1 /\ 1 <= n
    BY <1>4
  <2> QED
    BY <2>1, SumSplit
<1>10. SumLengths(parts, 1..n) = SumLengths(parts, 1..1) + SumLengths(parts, 2..n)
  <2>1. 1 + 1 = 2
    OBVIOUS
  <2> QED
    BY <1>9, <2>1 DEF SumsUp
<1>11. SumLengths(parts, DOMAIN parts)
         = IPFIX_HEADER_LENGTH + SumLengths(flds, (a + 1)..b)
  BY <1>4, <1>7, <1>8, <1>10
<1> QED
  BY <1>3, <1>11 DEF IsHandedOut

\* The places of a packet between its header and its last part are not the start
\* of another packet.
LEMMA InnerPlaces ==
  ASSUME IInv, Ready, NEW idx \in DOMAIN pkt_arr, NEW j \in Int,
         pkt_arr[idx].start < j, j < End(pkt_arr[idx])
  PROVE  rec_flds[j] = built[j]
<1>1. TypeOK /\ PacketsInv /\ FieldsInv /\ is_complete
  BY DEF IInv, Ready, is_complete
<1>2. \A k \in DOMAIN pkt_arr : pkt_arr[k] \in Ranges /\ PacketInv(pkt_arr[k])
  BY <1>1 DEF TypeOK, PacketsInv
<1>3. \A k \in DOMAIN pkt_arr :
        /\ pkt_arr[k].start \in Nat /\ End(pkt_arr[k]) \in Int
        /\ pkt_arr[k].start >= 1 /\ pkt_arr[k].start < End(pkt_arr[k])
        /\ End(pkt_arr[k]) <= rec_size
  <2> SUFFICES ASSUME NEW k \in DOMAIN pkt_arr, NEW p, p = pkt_arr[k]
               PROVE  /\ p.start \in Nat /\ End(p) \in Int
                      /\ p.start >= 1 /\ p.start < End(p) /\ End(p) <= rec_size
    OBVIOUS
  <2>1. p.start \in Nat /\ p.size \in Nat
    BY <1>2 DEF Ranges
  <2>2. p.start >= 1 /\ p.size > 1 /\ End(p) <= rec_size
    BY <1>2 DEF PacketInv, CutEnd
  <2> QED
    BY <2>1, <2>2 DEF End
<1>4. ASSUME NEW k \in DOMAIN pkt_arr, pkt_arr[k].start = j PROVE FALSE
  <2>1. k \in Int /\ idx \in Int
    BY <1>1 DEF TypeOK
  <2>2. CASE k = idx
    BY <1>3, <1>4, <2>2
  <2>3. CASE k < idx
    <3>1. End(pkt_arr[k]) <= pkt_arr[idx].start
      BY <1>1, <2>3 DEF PacketsInv
    <3> QED
      BY <1>3, <1>4, <3>1
  <2>4. CASE idx < k
    <3>1. End(pkt_arr[idx]) <= pkt_arr[k].start
      BY <1>1, <2>4 DEF PacketsInv
    <3> QED
      BY <1>3, <1>4, <3>1
  <2> QED
    BY <2>1, <2>2, <2>3, <2>4
<1>5. j \in 1..rec_size
  <2>1. rec_size \in Nat
    BY <1>1 DEF TypeOK, rec_size
  <2> QED
    BY <1>3, <2>1
<1> QED
  BY <1>1, <1>4, <1>5 DEF FieldsInv

\* bldr_pkts_iovec keeps it, whichever packet is asked for.
LEMMA FetchStep ==
  ASSUME IInv, NEW idx, bldr_pkts_iovec(idx)
  PROVE  IInv'
<1> SUFFICES ASSUME NEW p, p = pkt_arr[idx], NEW a, a = p.start,
                    NEW b, b = End(p), NEW n, n = rec_size,
                    NEW flds, flds = Prepared(p),
                    NEW parts, parts = SubSeq(flds, a, b)
             PROVE  IInv'
  OBVIOUS
<1>1. /\ Ready /\ idx \in DOMAIN pkt_arr
      /\ rec_flds' = flds
      /\ fetched' = [idx |-> idx, parts |-> parts,
                     length |-> IPFIX_HEADER_LENGTH + SumLengths(flds, (a + 1)..b),
                     rec_cnt |-> p.rec_cnt]
      /\ rec_cnt' = rec_cnt /\ rec_set_start' = rec_set_start /\ length' = length
      /\ last_set_type' = last_set_type /\ last_set_header' = last_set_header
      /\ loop' = loop /\ pkt_arr' = pkt_arr /\ built' = built
  BY DEF bldr_pkts_iovec, set_vars, End
<1>2. TypeOK /\ Phases /\ PacketsInv /\ FieldsInv /\ is_complete
  BY <1>1 DEF IInv, Ready, is_complete
<1>3. p \in Ranges /\ PacketInv(p) /\ idx \in Nat
  BY <1>1, <1>2 DEF TypeOK, PacketsInv
<1>4. /\ a \in Nat /\ p.size \in Nat /\ p.backup \in Fields /\ p.rec_cnt \in Nat
  BY <1>3 DEF Ranges
<1>5. /\ a >= 1 /\ p.size > 1 /\ b <= n /\ p.backup = built[b]
      /\ p.rec_cnt = Total(rec_cnt, Places(p))
  BY <1>1, <1>3, <1>4 DEF PacketInv, CutEnd
<1>6. n \in Nat /\ rec_flds \in Seq(Fields) /\ Len(rec_flds) = n
  BY <1>2 DEF TypeOK, rec_size
<1>7. b \in Nat /\ a < b /\ a \in 1..n /\ b \in 1..n
  <2> SUFFICES ASSUME NEW z, z = p.size
               PROVE  b \in Nat /\ a < b /\ a \in 1..n /\ b \in 1..n
    OBVIOUS
  <2>1. z \in Nat /\ z > 1 /\ b = a + z - 1
    BY <1>4, <1>5 DEF End
  <2> QED
    BY <1>4, <1>5, <1>6, <2>1
<1>8. PacketHeader \in Fields
  BY BuilderAssumption DEF PacketHeader, Field, Fields
<1>9. /\ flds \in Seq(Fields) /\ Len(flds) = n
      /\ flds[a] = PacketHeader /\ flds[b] = built[b]
      /\ \A j \in 1..n : j # a /\ j # b => flds[j] = rec_flds[j]
  <2> DEFINE g == [rec_flds EXCEPT ![b] = p.backup]
  <2>1. flds = [g EXCEPT ![a] = PacketHeader]
    BY DEF Prepared, End
  <2>2. rec_flds \in [1..n -> Fields]
    BY <1>6
  <2>3. g \in [1..n -> Fields] /\ g[b] = p.backup
        /\ \A j \in 1..n : j # b => g[j] = rec_flds[j]
    BY <1>4, <1>7, <2>2
  <2> HIDE DEF g
  <2>4. flds \in [1..n -> Fields] /\ flds[a] = PacketHeader
        /\ \A j \in 1..n : j # a => flds[j] = g[j]
    BY <1>7, <1>8, <2>1, <2>3
  <2>5. flds \in Seq(Fields) /\ Len(flds) = n
    BY <1>6, <2>4
  <2> QED
    BY <1>5, <1>6, <1>7, <2>3, <2>4, <2>5
<1>10. /\ parts \in Seq(Fields) /\ Len(parts) = b - a + 1
       /\ \A k \in 1..Len(parts) : parts[k] = flds[a + k - 1]
       /\ IPFIX_HEADER_LENGTH + SumLengths(flds, (a + 1)..b)
            = SumLengths(parts, DOMAIN parts)
  <2>1. 1 <= a /\ b <= Len(flds)
    BY <1>7, <1>9
  <2>2. IsHandedOut(flds, a, b, parts)
    BY <1>4, <1>7, <1>9, <2>1, HandedOut
  <2> QED
    BY <2>2 DEF IsHandedOut
<1>11. \A j \in (a + 1)..b : flds[j] = built[j]
  <2> SUFFICES ASSUME NEW j \in (a + 1)..b PROVE flds[j] = built[j]
    OBVIOUS
  <2>1. CASE j = b
    BY <1>9, <2>1
  <2>2. CASE j # b
    <3>1. j \in Int /\ a < j /\ j < b /\ j \in 1..n /\ j # a
      BY <1>4, <1>6, <1>7, <2>2
    <3>2. rec_flds[j] = built[j]
      BY <1>1, <1>4, <3>1, InnerPlaces
    <3> QED
      BY <1>9, <2>2, <3>1, <3>2
  <2> QED
    BY <2>1, <2>2
<1>12. fetched' \in Packets
  <2>1. IPFIX_HEADER_LENGTH + SumLengths(flds, (a + 1)..b) \in Nat
    <3>1. a + 1 \in Int /\ b \in Int
      BY <1>7
    <3>2. SumLengths(flds, (a + 1)..b) \in Nat
      BY <3>1, SumType
    <3> QED
      BY <3>2, BuilderAssumption
  <2> QED
    BY <1>1, <1>3, <1>4, <1>10, <2>1 DEF Packets
<1>13. rec_size' = n
  BY <1>1, <1>9 DEF rec_size
<1>14. TypeOK'
  BY <1>1, <1>2, <1>9, <1>12, <1>13 DEF TypeOK
<1>15. Ready' /\ is_complete' /\ ~Cutting'
  BY <1>1 DEF Ready, is_complete, Cutting
<1>16. SetsFit' /\ SetLengthsTrue' /\ LastSet' /\ LoopInv'
  BY <1>15 DEF SetsFit, SetLengthsTrue, LastSet, LoopInv
<1>17. Phases'
  BY <1>1, <1>2, <1>13, <1>15 DEF Phases
<1>18. PacketsInv'
  <2>1. CutEnd' = CutEnd /\ CutEnd = n
    BY <1>1, <1>13, <1>15 DEF CutEnd
  <2>2. ASSUME NEW k \in DOMAIN pkt_arr PROVE PacketInv(pkt_arr[k])'
    <3> SUFFICES ASSUME NEW q, q = pkt_arr[k] PROVE PacketInv(q)'
      BY <1>1
    <3>1. q \in Ranges /\ PacketInv(q)
      BY <1>2 DEF TypeOK, PacketsInv
    <3>2. End(q) \in Int /\ n \in Int /\ n <= n
      BY <1>6, <3>1 DEF Ranges, End
    <3>3. UNCHANGED <<rec_cnt, rec_set_start, built>> /\ loop'.max_size = loop.max_size
      BY <1>1
    <3> QED
      BY <2>1, <3>1, <3>2, <3>3, PacketKept
  <2> QED
    BY <1>1, <1>2, <2>1, <2>2 DEF PacketsInv, End, Places
<1>19. FieldsInv'
  <2> SUFFICES ASSUME NEW j \in 1..n
               PROVE  \/ flds[j] = built[j]
                      \/ flds[j] = PacketHeader /\ \E k \in DOMAIN pkt_arr : pkt_arr[k].start = j
    BY <1>1, <1>13 DEF FieldsInv
  <2>1. CASE j = a
    BY <1>1, <1>9, <2>1
  <2>2. CASE j = b
    BY <1>9, <2>2
  <2>3. CASE j # a /\ j # b
    <3>1. flds[j] = rec_flds[j]
      BY <1>9, <2>3
    <3> QED
      BY <1>1, <1>2, <3>1 DEF FieldsInv
  <2> QED
    BY <2>1, <2>2, <2>3
<1>20. PacketAsBuilt'
  <2>1. /\ fetched'.idx = idx /\ fetched'.parts = parts
        /\ fetched'.length = SumLengths(parts, DOMAIN parts)
        /\ fetched'.rec_cnt = Total(rec_cnt', Places(p))
    BY <1>1, <1>5, <1>10
  <2>2. parts[1] = PacketHeader
    <3>1. 1 \in 1..Len(parts) /\ a + 1 - 1 = a
      BY <1>7, <1>10
    <3> QED
      BY <1>9, <1>10, <3>1
  <2>3. ASSUME NEW k \in 2..Len(parts) PROVE parts[k] = built[a + k - 1]
    <3> DEFINE j == a + k - 1
    <3>1. k \in 1..Len(parts) /\ j \in (a + 1)..b
      BY <1>7, <1>10
    <3>2. parts[k] = flds[j]
      BY <1>10, <3>1
    <3> HIDE DEF j
    <3>3. parts[k] = built[j]
      BY <1>11, <3>1, <3>2
    <3> QED
      BY <3>3 DEF j
  <2>4. pkt_arr'[fetched'.idx] = p
    BY <1>1, <2>1
  <2> QED
    BY <1>1, <2>1, <2>2, <2>3, <2>4 DEF PacketAsBuilt, Places
<1> QED
  BY <1>14, <1>16, <1>17, <1>18, <1>19, <1>20 DEF IInv

-----------------------------------------------------------------------------
(***************************************************************************)
(* The theorems.                                                           *)
(***************************************************************************)

\* A new builder has no parts but the place of the header.
LEMMA InitIInv == Init => IInv
<1> SUFFICES ASSUME Init PROVE IInv
  OBVIOUS
<1>1. /\ rec_flds = <<Field(0, 0)>> /\ rec_cnt = <<0>> /\ rec_set_start = <<FALSE>>
      /\ length = <<0>> /\ last_set_type = <<"none">> /\ last_set_header = NULL
      /\ loop = NULL /\ pkt_arr = <<>> /\ built = <<>> /\ fetched = NULL
  BY DEF Init
<1>2. ~is_complete /\ ~Ready /\ ~Cutting
  BY <1>1 DEF is_complete, Ready, Cutting
<1> DEFINE f == Field(0, 0)
<1>3. f \in Fields
  BY BuilderAssumption DEF Field, Fields
<1>4. rec_flds = <<f>>
  BY <1>1
<1> HIDE DEF f
<1>5. rec_flds \in Seq(Fields) /\ Len(rec_flds) = 1 /\ rec_size = 1
  BY <1>3, <1>4 DEF rec_size
<1>6. TypeOK
  <2>1. /\ rec_cnt \in Seq(0..MaxLength) /\ Len(rec_cnt) = 1
        /\ rec_set_start \in Seq(BOOLEAN) /\ Len(rec_set_start) = 1
        /\ length \in Seq(Nat) /\ Len(length) = 1
    BY <1>1, BuilderAssumption
  <2>2. pkt_arr \in Seq(Ranges) /\ built \in Seq(Fields) /\ last_set_type \in Kinds
    BY <1>1 DEF Kinds
  <2> QED
    BY <1>1, <1>5, <2>1, <2>2 DEF TypeOK
<1>7. LastSet
  BY <1>1, NoPair DEF LastSet
<1>8. /\ SetsFit /\ SetLengthsTrue /\ Phases
      /\ LoopInv /\ PacketsInv /\ FieldsInv /\ PacketAsBuilt
  BY <1>1, <1>2, <1>5
     DEF SetsFit, SetLengthsTrue, Phases, LoopInv, PacketsInv, FieldsInv, PacketAsBuilt
<1> QED
  BY <1>6, <1>7, <1>8 DEF IInv

\* The invariant is about the variables alone.
LEMMA Stutters ==
  ASSUME IInv, UNCHANGED vars
  PROVE  IInv'
<1>1. /\ rec_flds' = rec_flds /\ rec_cnt' = rec_cnt /\ rec_set_start' = rec_set_start
      /\ length' = length /\ last_set_type' = last_set_type
      /\ last_set_header' = last_set_header
      /\ loop' = loop /\ pkt_arr' = pkt_arr /\ built' = built /\ fetched' = fetched
  BY DEF vars, parts_vars, set_vars, packet_vars
<1>2. TypeOK' /\ SetsFit' /\ SetLengthsTrue' /\ LastSet'
  BY <1>1 DEF IInv, TypeOK, SetsFit, SetLengthsTrue, LastSet, rec_size, parts_aux_set_len,
              parts_aux_set_parts, is_complete, Ready
<1>3. Phases' /\ LoopInv' /\ FieldsInv' /\ PacketAsBuilt'
  BY <1>1 DEF IInv, Phases, LoopInv, FieldsInv, PacketAsBuilt, rec_size,
              is_complete, Ready, Cutting, Places
<1>4. PacketsInv'
  BY <1>1 DEF IInv, PacketsInv, PacketInv, Limited, CutEnd, End, rec_size,
              is_complete, Ready, Places
<1> QED
  BY <1>2, <1>3, <1>4 DEF IInv

\* Every operation keeps the invariant.
LEMMA NextIInv == IInv /\ [Next]_vars => IInv'
<1> SUFFICES ASSUME IInv, [Next]_vars PROVE IInv'
  OBVIOUS
<1>1. CASE bldr_start
  BY <1>1, StartStep
<1>2. ASSUME NEW n \in Bodies, NEW remapped \in BOOLEAN, bldr_add_dataset(n, 1, remapped)
      PROVE  IInv'
  BY <1>2, DatasetStep
<1>3. ASSUME NEW n \in TemplateBodies, NEW remapped \in BOOLEAN, NEW type \in Types,
             bldr_add_template(type, n, remapped)
      PROVE  IInv'
  BY <1>3, TemplateStep
<1>4. ASSUME NEW type \in Types, bldr_add_template_withdrawal(type) PROVE IInv'
  BY <1>4, TemplateStep
<1>5. ASSUME NEW size \in Sizes, bldr_end(size) PROVE IInv'
  BY <1>5, EndStep
<1>6. CASE NextSet
  BY <1>6, NextSetStep
<1>7. CASE NextPacket \/ LastPacket
  BY <1>7, PacketStep
<1>8. ASSUME NEW idx \in 1..MaxParts, bldr_pkts_iovec(idx) PROVE IInv'
  BY <1>8, FetchStep
<1>9. CASE UNCHANGED vars
  BY <1>9, Stutters
<1> QED
  BY <1>1, <1>2, <1>3, <1>4, <1>5, <1>6, <1>7, <1>8, <1>9 DEF Next

\* The invariant holds for every message, however its templates and data come,
\* and for every size of packets.
THEOREM Invariant == Spec => []IInv
  BY InitIInv, NextIInv, PTL DEF Spec

\* PacketAsBuilt: packets that share the array of parts, and put their headers
\* over each other's last parts, are nevertheless handed out as they were built,
\* in any order and any number of times (bldr_pkts_iovec).
THEOREM PacketsIntact == Spec => []PacketAsBuilt
<1>1. IInv => PacketAsBuilt
  BY DEF IInv
<1> QED
  BY <1>1, Invariant, PTL

\* NothingLeftOut: the packets that bldr_end cuts have every part once, in order,
\* and no Set is split between two of them.
THEOREM PacketsComplete == Spec => []NothingLeftOut
<1>1. IInv => NothingLeftOut
  <2> SUFFICES ASSUME IInv, Ready PROVE NothingLeftOut
    BY DEF NothingLeftOut
  <2> DEFINE U == UNION {Places(pkt_arr[k]) : k \in DOMAIN pkt_arr}
  <2>1. PacketsInv /\ TypeOK /\ is_complete /\ CutEnd = rec_size
    BY DEF IInv, Ready, is_complete, CutEnd
  <2>2. rec_size \in Nat
    BY <2>1 DEF TypeOK, rec_size
  <2>3. ASSUME NEW k \in DOMAIN pkt_arr
        PROVE  /\ pkt_arr[k].size > 1 /\ rec_set_start[pkt_arr[k].start + 1]
               /\ Places(pkt_arr[k]) \subseteq 2..rec_size
               /\ k > 1 => pkt_arr[k].start = End(pkt_arr[k - 1])
    <3> SUFFICES ASSUME NEW p, p = pkt_arr[k]
                 PROVE  /\ p.size > 1 /\ rec_set_start[p.start + 1]
                        /\ Places(p) \subseteq 2..rec_size
                        /\ k > 1 => p.start = End(pkt_arr[k - 1])
      OBVIOUS
    <3>1. PacketInv(p) /\ (k > 1 => p.start = End(pkt_arr[k - 1])) /\ p \in Ranges
      BY <2>1 DEF PacketsInv, TypeOK
    <3>2. p.start \in Nat /\ p.size \in Nat
      BY <3>1 DEF Ranges
    <3>3. p.start >= 1 /\ p.size > 1 /\ p.start + p.size - 1 <= rec_size
          /\ rec_set_start[p.start + 1]
      BY <2>1, <3>1 DEF PacketInv, End
    <3>4. Places(p) \subseteq 2..rec_size
      BY <2>2, <3>2, <3>3 DEF Places
    <3> QED
      BY <3>1, <3>3, <3>4
  <2>4. ASSUME NEW j \in 2..rec_size PROVE j \in U
    BY <2>1 DEF PacketsInv
  <2>5. ASSUME NEW j \in U PROVE j \in 2..rec_size
    BY <2>3
  <2>6. U = 2..rec_size
    BY <2>4, <2>5
  <2> QED
    BY <2>3, <2>6 DEF NothingLeftOut, End
<1> QED
  BY <1>1, Invariant, PTL

\* SetLengthsTrue: the length in every Set header that was inserted is that of the
\* parts up to the next Set: a template never goes to a Set of another kind, or
\* behind data (bldr_add_template, bldr_aux_insert_set_header).
THEOREM SetHeadersTrue == Spec => []SetLengthsTrue
<1>1. IInv => SetLengthsTrue
  BY DEF IInv
<1> QED
  BY <1>1, Invariant, PTL

\* PacketsLimited: a packet exceeds the configured size only if it is a single
\* Set, and never the longest IPFIX message, so that its length field does not
\* overflow (parts_packets_prepare).
THEOREM PacketsBounded == Spec => []PacketsLimited
<1>1. IInv => PacketsLimited
  <2> SUFFICES ASSUME IInv, Ready PROVE PacketsLimited
    BY DEF PacketsLimited
  <2>1. \A k \in DOMAIN pkt_arr : Limited(pkt_arr[k])
    BY DEF IInv, Ready, is_complete, PacketsInv, PacketInv
  <2> QED
    BY <2>1 DEF PacketsLimited, Limited
<1> QED
  BY <1>1, Invariant, PTL

=============================================================================
