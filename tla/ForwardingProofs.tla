--------------------------- MODULE ForwardingProofs ---------------------------
(***************************************************************************)
(* Proofs about the forwarding storage (module Forwarding).                *)
(***************************************************************************)
EXTENDS Forwarding, FiniteSetTheorems, SequenceTheorems, WellFoundedInduction,
        TLAPS

-----------------------------------------------------------------------------
(***************************************************************************)
(* group_move: what Only and Without take out of a group.                  *)
(***************************************************************************)

\* A set of numbers that is closed under successor from zero has them all.
LEMMA Induction ==
  ASSUME NEW P, 0 \in P, \A n \in Nat : n \in P => n + 1 \in P
  PROVE  Nat \subseteq P
<1> SUFFICES ASSUME Nat \ P # {} PROVE FALSE
  BY Zenon
<1> DEFINE T == Nat \ P
<1>1. T \subseteq Nat /\ T # {}
  OBVIOUS
<1> HIDE DEF T
<1>2. PICK m \in T : \A y \in T : ~(<<y, m>> \in OpToRel(<, Nat))
  BY <1>1, WFMin, NatLessThanWellFounded, Zenon
<1> USE DEF T
<1>3. m \in Nat /\ m \notin P /\ m # 0
  OBVIOUS
<1>4. m - 1 \in Nat /\ m - 1 < m /\ (m - 1) + 1 = m
  BY <1>3
<1>5. m - 1 \notin T
  BY <1>2, <1>3, <1>4 DEF OpToRel
<1> QED
  BY <1>3, <1>4, <1>5

\* The recursion of Only, up to n.
Takes(f, group, S, n) ==
  f = [i \in 0..n |->
         IF i = 0 THEN <<>>
         ELSE IF group[i] \in S THEN Append(f[i - 1], group[i])
         ELSE f[i - 1]]

LEMMA TakesExists ==
  ASSUME NEW group, NEW S
  PROVE  \A n \in Nat : \E f : Takes(f, group, S, n)
<1> DEFINE P == {n \in Nat : \E f : Takes(f, group, S, n)}
<1>1. 0 \in P
  <2> DEFINE g == [i \in 0..0 |-> <<>>]
  <2>1. Takes(g, group, S, 0)
    BY DEF Takes
  <2> QED
    BY <2>1
<1>2. ASSUME NEW n \in Nat, n \in P PROVE n + 1 \in P
  <2>1. PICK f : Takes(f, group, S, n)
    BY <1>2
  <2> DEFINE last == IF group[n + 1] \in S THEN Append(f[n], group[n + 1]) ELSE f[n]
             g == [i \in 0..(n + 1) |-> IF i = n + 1 THEN last ELSE f[i]]
  <2>2. ASSUME NEW i \in 0..(n + 1)
        PROVE  g[i] = IF i = 0 THEN <<>>
                      ELSE IF group[i] \in S THEN Append(g[i - 1], group[i])
                      ELSE g[i - 1]
    <3>1. CASE i = n + 1
      <4>1. g[n] = f[n] /\ i - 1 = n /\ i # 0
        BY <3>1
      <4> QED
        BY <3>1, <4>1
    <3>2. CASE i # n + 1
      <4>1. i \in 0..n /\ g[i] = f[i]
        BY <3>2
      <4>2. i # 0 => i - 1 \in 0..(n + 1) /\ i - 1 # n + 1
        BY <4>1
      <4>3. i # 0 => g[i - 1] = f[i - 1]
        BY <4>2
      <4>4. f[i] = IF i = 0 THEN <<>>
                   ELSE IF group[i] \in S THEN Append(f[i - 1], group[i])
                   ELSE f[i - 1]
        BY <2>1, <4>1 DEF Takes
      <4> QED
        BY <4>1, <4>3, <4>4
    <3> QED
      BY <3>1, <3>2
  <2>3. Takes(g, group, S, n + 1)
    <3> HIDE DEF last
    <3>1. g = [i \in 0..(n + 1) |-> g[i]]
      OBVIOUS
    <3> HIDE DEF g
    <3> QED
      BY <2>2, <3>1 DEF Takes
  <2> QED
    BY <2>3
<1>3. Nat \subseteq P
  <2> HIDE DEF P
  <2> QED
    BY <1>1, <1>2, Induction
<1> QED
  BY <1>3

LEMMA OnlyTakes ==
  ASSUME NEW group, NEW S, Len(group) \in Nat
  PROVE  \E f : Takes(f, group, S, Len(group)) /\ Only(group, S) = f[Len(group)]
<1> DEFINE g == CHOOSE f : Takes(f, group, S, Len(group))
<1>1. Takes(g, group, S, Len(group))
  BY TakesExists
<1>2. Only(group, S) = g[Len(group)]
  BY DEF Only, Takes
<1> QED
  BY <1>1, <1>2

\* One step of the recursion.
LEMMA AppendFacts ==
  ASSUME NEW X, NEW s \in Seq(X), NEW x \in X
  PROVE  /\ Append(s, x) \in Seq(X) /\ Len(Append(s, x)) = Len(s) + 1
         /\ ToSet(Append(s, x)) = ToSet(s) \cup {x}
<1>1. Append(s, x) \in Seq(X) /\ Len(Append(s, x)) = Len(s) + 1
      /\ \A i \in 1..Len(s) : Append(s, x)[i] = s[i]
      /\ Append(s, x)[Len(s) + 1] = x
  OBVIOUS
<1>2. DOMAIN Append(s, x) = 1..(Len(s) + 1) /\ DOMAIN s = 1..Len(s) /\ Len(s) \in Nat
  BY <1>1
<1>3. ASSUME NEW y \in ToSet(Append(s, x)) PROVE y \in ToSet(s) \cup {x}
  BY <1>1, <1>2 DEF ToSet
<1>4. ASSUME NEW y \in ToSet(s) PROVE y \in ToSet(Append(s, x))
  <2>1. PICK i \in 1..Len(s) : y = s[i]
    BY <1>2 DEF ToSet
  <2>2. i \in 1..(Len(s) + 1)
    BY <1>2
  <2> QED
    BY <1>1, <1>2, <2>1, <2>2 DEF ToSet
<1>5. x \in ToSet(Append(s, x))
  <2>1. Len(s) + 1 \in 1..(Len(s) + 1)
    BY <1>2
  <2> QED
    BY <1>1, <1>2, <2>1 DEF ToSet
<1> QED
  BY <1>1, <1>3, <1>4, <1>5

\* What has been taken after i members, and what has been left.
Partition(group, X, S, f, g, i) ==
  /\ f[i] \in Seq(X) /\ g[i] \in Seq(X)
  /\ Len(f[i]) + Len(g[i]) = i
  /\ ToSet(f[i]) = {group[j] : j \in 1..i} \cap S
  /\ ToSet(g[i]) = {group[j] : j \in 1..i} \ S

LEMMA OnlyFacts ==
  ASSUME NEW X, NEW group \in Seq(X), NEW S
  PROVE  /\ Only(group, S) \in Seq(X) /\ Without(group, S) \in Seq(X)
         /\ Len(Only(group, S)) + Len(Without(group, S)) = Len(group)
         /\ ToSet(Only(group, S)) = ToSet(group) \cap S
         /\ ToSet(Without(group, S)) = ToSet(group) \ S
<1> DEFINE n == Len(group)
           R == ToSet(group) \ S
<1>1. n \in Nat /\ DOMAIN group = 1..n
  OBVIOUS
<1>2. PICK f : Takes(f, group, S, n) /\ Only(group, S) = f[n]
  BY <1>1, OnlyTakes
<1>3. PICK g : Takes(g, group, R, n) /\ Without(group, S) = g[n]
  BY <1>1, OnlyTakes DEF Without
<1> DEFINE P == {i \in Nat : i <= n => Partition(group, X, S, f, g, i)}
<1>4. \A i \in 1..n : group[i] \in X /\ (group[i] \in R <=> group[i] \notin S)
  BY <1>1 DEF ToSet
<1> HIDE DEF n, R
<1>5. 0 \in P
  <2>1. f[0] = <<>> /\ g[0] = <<>>
    BY <1>1, <1>2, <1>3 DEF Takes
  <2>2. ToSet(<<>>) = {}
    BY DEF ToSet
  <2>3. {group[j] : j \in 1..0} = {}
    OBVIOUS
  <2>4. f[0] \in Seq(X) /\ g[0] \in Seq(X) /\ Len(f[0]) = 0 /\ Len(g[0]) = 0
    BY <2>1
  <2>5. Partition(group, X, S, f, g, 0)
    BY <2>1, <2>2, <2>3, <2>4 DEF Partition
  <2> QED
    BY <2>5
<1>6. ASSUME NEW i \in Nat, i \in P PROVE i + 1 \in P
  <2> SUFFICES ASSUME i + 1 <= n PROVE Partition(group, X, S, f, g, i + 1)
    OBVIOUS
  <2> DEFINE x == group[i + 1]
  <2>1. i + 1 \in 1..n /\ i <= n /\ i + 1 \in 0..n /\ i + 1 # 0 /\ (i + 1) - 1 = i
    BY <1>1
  <2>2. x \in X /\ (x \in R <=> x \notin S)
    BY <1>4, <2>1
  <2>3. f[i + 1] = IF x \in S THEN Append(f[i], x) ELSE f[i]
    BY <1>2, <2>1 DEF Takes
  <2>4. g[i + 1] = IF x \in R THEN Append(g[i], x) ELSE g[i]
    BY <1>3, <2>1 DEF Takes
  <2>5. Partition(group, X, S, f, g, i)
    BY <1>6, <2>1
  <2>6. {group[j] : j \in 1..(i + 1)} = {group[j] : j \in 1..i} \cup {x}
    <3>1. 1..(i + 1) = 1..i \cup {i + 1}
      OBVIOUS
    <3> QED
      BY <3>1
  <2> HIDE DEF x
  <2>7. CASE x \in S
    <3>1. f[i + 1] = Append(f[i], x) /\ g[i + 1] = g[i]
      BY <2>2, <2>3, <2>4, <2>7
    <3>2. f[i] \in Seq(X)
      BY <2>5 DEF Partition
    <3>3. /\ f[i + 1] \in Seq(X) /\ Len(f[i + 1]) = Len(f[i]) + 1
          /\ ToSet(f[i + 1]) = ToSet(f[i]) \cup {x}
      BY <2>2, <3>1, <3>2, AppendFacts
    <3> HIDE DEF P
    <3>4. Len(f[i + 1]) + Len(g[i + 1]) = i + 1
      <4> DEFINE a == Len(f[i])
                 b == Len(g[i])
      <4>1. a \in Nat /\ b \in Nat
        BY <2>5, LenProperties DEF Partition
      <4>2. a + b = i
        BY <2>5 DEF Partition
      <4> HIDE DEF a, b
      <4>3. (a + 1) + b = i + 1
        BY <4>1, <4>2
      <4> QED
        BY <3>1, <3>3, <4>3 DEF a, b
    <3> QED
      BY <2>5, <2>6, <2>7, <3>1, <3>3, <3>4 DEF Partition
  <2>8. CASE x \notin S
    <3>1. g[i + 1] = Append(g[i], x) /\ f[i + 1] = f[i]
      BY <2>2, <2>3, <2>4, <2>8
    <3>2. g[i] \in Seq(X) /\ f[i] \in Seq(X)
      BY <2>5 DEF Partition
    <3>3. /\ g[i + 1] \in Seq(X) /\ Len(g[i + 1]) = Len(g[i]) + 1
          /\ ToSet(g[i + 1]) = ToSet(g[i]) \cup {x}
      BY <2>2, <3>1, <3>2, AppendFacts
    <3> HIDE DEF P
    <3>4. Len(f[i + 1]) + Len(g[i + 1]) = i + 1
      <4> DEFINE a == Len(f[i])
                 b == Len(g[i])
      <4>1. a \in Nat /\ b \in Nat
        BY <2>5, LenProperties DEF Partition
      <4>2. a + b = i
        BY <2>5 DEF Partition
      <4> HIDE DEF a, b
      <4>3. a + (b + 1) = i + 1
        BY <4>1, <4>2
      <4> QED
        BY <3>1, <3>3, <4>3 DEF a, b
    <3> QED
      BY <2>5, <2>6, <2>8, <3>1, <3>3, <3>4 DEF Partition
  <2> QED
    BY <2>7, <2>8
<1>7. Nat \subseteq P
  <2> HIDE DEF P
  <2> QED
    BY <1>5, <1>6, Induction
<1>8. Partition(group, X, S, f, g, n)
  BY <1>1, <1>7
<1>9. ToSet(group) = {group[j] : j \in 1..n}
  BY <1>1 DEF ToSet
<1> QED
  BY <1>2, <1>3, <1>8, <1>9 DEF Partition, n


Injective(s) == \A i, j \in DOMAIN s : s[i] = s[j] => i = j

\* s is t without the member at p.
IsRemoved(s, t, p, X) ==
  /\ s \in Seq(X) /\ Len(s) = Len(t) - 1
  /\ \A i \in 1..(p - 1) : s[i] = t[i]
  /\ \A i \in p..(Len(t) - 1) : s[i] = t[i + 1]
  /\ ToSet(s) = ToSet(t) \ {t[p]}

LEMMA RemoveAtFacts ==
  ASSUME NEW X, NEW t \in Seq(X), NEW p \in 1..Len(t), Injective(t)
  PROVE  IsRemoved(RemoveAt(t, p), t, p, X)
<1> DEFINE n == Len(t)
           a == SubSeq(t, 1, p - 1)
           b == SubSeq(t, p + 1, n)
           s == RemoveAt(t, p)
<1>1. n \in Nat /\ p \in Int /\ 1 <= p /\ p <= n /\ DOMAIN t = 1..n
  OBVIOUS
<1>2. /\ a \in Seq(X) /\ Len(a) = p - 1
      /\ \A i \in 1..(p - 1) : a[i] = t[i]
  OBVIOUS
<1>3. b \in Seq(X) /\ Len(b) = n - p
  OBVIOUS
<1>4. \A i \in 1..(n - p) : b[i] = t[p + i]
  <2> SUFFICES ASSUME NEW i \in 1..(n - p) PROVE b[i] = t[p + i]
    OBVIOUS
  <2>1. b[i] = t[(p + 1) + i - 1]
    OBVIOUS
  <2>2. (p + 1) + i - 1 = p + i
    BY <1>1
  <2> QED
    BY <2>1, <2>2
<1>5. s = a \o b
  BY DEF RemoveAt
<1> HIDE DEF n, a, b, s
<1>6. s \in Seq(X) /\ Len(s) = n - 1
      /\ \A i \in 1..(n - 1) : s[i] = IF i <= p - 1 THEN a[i] ELSE b[i - (p - 1)]
  <2>1. Len(a) + Len(b) = n - 1
    BY <1>1, <1>2, <1>3
  <2>2. /\ s \in Seq(X) /\ Len(s) = Len(a) + Len(b)
        /\ \A i \in 1..(Len(a) + Len(b)) :
             s[i] = IF i <= Len(a) THEN a[i] ELSE b[i - Len(a)]
    BY <1>2, <1>3, <1>5, ConcatProperties
  <2> QED
    BY <1>2, <2>1, <2>2
<1>7. \A i \in 1..(p - 1) : s[i] = t[i]
  BY <1>1, <1>2, <1>6
<1>8. \A i \in p..(n - 1) : s[i] = t[i + 1]
  <2> SUFFICES ASSUME NEW i \in p..(n - 1) PROVE s[i] = t[i + 1]
    OBVIOUS
  <2> DEFINE k == i - (p - 1)
  <2>1. i \in 1..(n - 1) /\ ~(i <= p - 1) /\ k \in 1..(n - p) /\ p + k = i + 1
    BY <1>1
  <2> HIDE DEF k
  <2>2. s[i] = b[k]
    BY <1>6, <2>1 DEF k
  <2> QED
    BY <1>4, <2>1, <2>2
<1>9. DOMAIN s = 1..(n - 1)
  BY <1>6
<1>10. ASSUME NEW x \in ToSet(s) PROVE x \in ToSet(t) \ {t[p]}
  <2>1. PICK i \in 1..(n - 1) : x = s[i]
    BY <1>9 DEF ToSet
  <2>2. CASE i <= p - 1
    <3>1. x = t[i] /\ i \in 1..n /\ i # p
      BY <1>1, <1>7, <2>1, <2>2
    <3> QED
      BY <1>1, <3>1 DEF ToSet, Injective
  <2>3. CASE ~(i <= p - 1)
    <3>1. x = t[i + 1] /\ i + 1 \in 1..n /\ i + 1 # p
      BY <1>1, <1>8, <2>1, <2>3
    <3> QED
      BY <1>1, <3>1 DEF ToSet, Injective
  <2> QED
    BY <2>2, <2>3
<1>11. ASSUME NEW x \in ToSet(t) \ {t[p]} PROVE x \in ToSet(s)
  <2>1. PICK i \in 1..n : x = t[i] /\ i # p
    BY <1>1 DEF ToSet
  <2>2. CASE i < p
    <3>1. x = s[i] /\ i \in 1..(n - 1)
      BY <1>1, <1>7, <2>1, <2>2
    <3> QED
      BY <1>9, <3>1 DEF ToSet
  <2>3. CASE i > p
    <3> DEFINE k == i - 1
    <3>1. k \in p..(n - 1) /\ k + 1 = i /\ k \in 1..(n - 1)
      BY <1>1, <2>3
    <3> HIDE DEF k
    <3>2. x = s[k]
      BY <1>8, <2>1, <3>1
    <3> QED
      BY <1>9, <3>1, <3>2 DEF ToSet
  <2> QED
    BY <1>1, <2>1, <2>2, <2>3
<1> QED
  BY <1>6, <1>7, <1>8, <1>10, <1>11 DEF IsRemoved, n, s

\* group_remove finds the destination where it is.
LEMMA RemoveFacts ==
  ASSUME NEW X, NEW t \in Seq(X), NEW p \in 1..Len(t), Injective(t)
  PROVE  IsRemoved(group_remove(t, t[p]), t, p, X)
<1> DEFINE q == CHOOSE i \in DOMAIN t : t[i] = t[p] /\ \A j \in 1..(i - 1) : t[j] # t[p]
<1>1. DOMAIN t = 1..Len(t) /\ Len(t) \in Nat
  OBVIOUS
<1>2. \A j \in 1..(p - 1) : t[j] # t[p]
  <2> SUFFICES ASSUME NEW j \in 1..(p - 1), t[j] = t[p] PROVE FALSE
    OBVIOUS
  <2>1. j \in 1..Len(t) /\ j # p
    BY <1>1
  <2> QED
    BY <1>1, <2>1 DEF Injective
<1>3. \E i \in DOMAIN t : t[i] = t[p] /\ \A j \in 1..(i - 1) : t[j] # t[p]
  BY <1>1, <1>2
<1>4. q \in DOMAIN t /\ t[q] = t[p]
  BY <1>3
<1>5. q = p
  <2> HIDE DEF q
  <2> QED
    BY <1>1, <1>4 DEF Injective
<1>6. group_remove(t, t[p]) = RemoveAt(t, q)
  BY DEF group_remove
<1> QED
  BY <1>5, <1>6, RemoveAtFacts

\* u is s followed by t.
IsConcat(u, s, t, X) ==
  /\ u \in Seq(X) /\ Len(u) = Len(s) + Len(t)
  /\ ToSet(u) = ToSet(s) \cup ToSet(t)
  /\ \A i \in 1..Len(s) : u[i] = s[i]
  /\ \A i \in 1..Len(t) : u[Len(s) + i] = t[i]

LEMMA ConcatFacts ==
  ASSUME NEW X, NEW s \in Seq(X), NEW t \in Seq(X)
  PROVE  IsConcat(s \o t, s, t, X)
<1> DEFINE u == s \o t
           n == Len(s)
           m == Len(t)
<1>1. n \in Nat /\ m \in Nat /\ DOMAIN s = 1..n /\ DOMAIN t = 1..m
  OBVIOUS
<1>2. u \in Seq(X) /\ Len(u) = n + m
      /\ \A i \in 1..(n + m) : u[i] = IF i <= n THEN s[i] ELSE t[i - n]
  BY ConcatProperties
<1> HIDE DEF u, n, m
<1>3. DOMAIN u = 1..(n + m)
  BY <1>2
<1>4. \A i \in 1..n : i \in 1..(n + m) /\ u[i] = s[i]
  BY <1>1, <1>2
<1>5. \A i \in 1..m : n + i \in 1..(n + m) /\ u[n + i] = t[i]
  <2> SUFFICES ASSUME NEW i \in 1..m PROVE n + i \in 1..(n + m) /\ u[n + i] = t[i]
    OBVIOUS
  <2> DEFINE k == n + i
  <2>1. k \in 1..(n + m) /\ ~(k <= n) /\ k - n = i
    BY <1>1
  <2> HIDE DEF k
  <2>2. u[k] = t[i]
    BY <1>2, <2>1
  <2> QED
    BY <2>1, <2>2 DEF k
<1>6. ASSUME NEW x \in ToSet(u) PROVE x \in ToSet(s) \cup ToSet(t)
  <2>1. PICK i \in 1..(n + m) : x = u[i]
    BY <1>3 DEF ToSet
  <2>2. CASE i <= n
    <3>1. i \in 1..n
      BY <1>1, <2>2
    <3> QED
      BY <1>1, <1>2, <2>1, <2>2, <3>1 DEF ToSet
  <2>3. CASE ~(i <= n)
    <3>1. i - n \in 1..m
      BY <1>1, <2>3
    <3> QED
      BY <1>1, <1>2, <2>1, <2>3, <3>1 DEF ToSet
  <2> QED
    BY <2>2, <2>3
<1>7. ToSet(s) \subseteq ToSet(u)
  BY <1>1, <1>3, <1>4 DEF ToSet
<1>8. ToSet(t) \subseteq ToSet(u)
  BY <1>1, <1>3, <1>5 DEF ToSet
<1> QED
  BY <1>2, <1>4, <1>5, <1>6, <1>7, <1>8 DEF IsConcat, u, n, m


-----------------------------------------------------------------------------
(***************************************************************************)
(* The sender.  What goes out on a connection only grows by whole packets, *)
(* and a packet that the socket takes in parts is split in its place.      *)
(***************************************************************************)

Clients ==
  [open : BOOLEAN, stream : Seq(Pieces), buffer : Seq(Pieces), seq : Nat]

Out(s) == s.stream \o s.buffer

\* A closed socket leaves nothing behind.
CleanIfClosed(s) == ~s.open => s.stream = <<>> /\ s.buffer = <<>>

IsSplit(new, old) ==
  \/ new = old
  \/ \E a, c \in Seq(Pieces) : \E p \in Pieces :
       /\ p.part = "whole"
       /\ old = (a \o <<p>>) \o c
       /\ new = (a \o <<First(p), Rest(p)>>) \o c

LEMMA PartsOfPieces ==
  ASSUME NEW p \in Pieces
  PROVE  /\ First(p) \in Pieces /\ First(p).part = "first"
         /\ First(p).tmplts = p.tmplts /\ First(p).data = p.data
         /\ First(p).seq = p.seq
         /\ Rest(p) \in Pieces /\ Rest(p).part = "rest"
         /\ Rest(p).tmplts = p.tmplts /\ Rest(p).data = p.data
         /\ Rest(p).seq = p.seq
         /\ Rest(First(p)) = Rest(p) /\ First(Rest(p)) = First(p)
  BY DEF Pieces, First, Rest

\* The pieces of the buffer that the socket takes.
IsTaken(s, b, n) ==
  (s \o SubSeq(b, 1, n)) \o SubSeq(b, n + 1, Len(b)) = s \o b

LEMMA TakenPieces ==
  ASSUME NEW X, NEW s \in Seq(X), NEW b \in Seq(X), NEW n \in 0..Len(b)
  PROVE  /\ SubSeq(b, 1, n) \in Seq(X) /\ SubSeq(b, n + 1, Len(b)) \in Seq(X)
         /\ IsTaken(s, b, n)
<1>1. SubSeq(b, 1, n) \in Seq(X) /\ SubSeq(b, n + 1, Len(b)) \in Seq(X)
  OBVIOUS
<1>2. SubSeq(b, 1, n) \o SubSeq(b, n + 1, Len(b)) = SubSeq(b, 1, Len(b))
  <2>1. 1 \in 1..(Len(b) + 1) /\ n \in (1 - 1)..Len(b) /\ Len(b) \in n..Len(b)
    OBVIOUS
  <2> QED
    BY <2>1, ConcatAdjacentSubSeq
<1>3. SubSeq(b, 1, Len(b)) = b
  BY SubSeqFull
<1>4. (s \o SubSeq(b, 1, n)) \o SubSeq(b, n + 1, Len(b))
        = s \o (SubSeq(b, 1, n) \o SubSeq(b, n + 1, Len(b)))
  <2> DEFINE u == SubSeq(b, 1, n)
             v == SubSeq(b, n + 1, Len(b))
  <2> HIDE DEF u, v
  <2>1. u \in Seq(X) /\ v \in Seq(X)
    BY <1>1 DEF u, v
  <2>2. (s \o u) \o v = s \o (u \o v)
    BY <2>1, ConcatAssociative
  <2> QED
    BY <2>2 DEF u, v
<1> QED
  BY <1>1, <1>2, <1>3, <1>4 DEF IsTaken

Regrouped(a, r, v) == (a \o r) \o v = a \o (r \o v)

LEMMA Regroup ==
  ASSUME NEW X, NEW a \in Seq(X), NEW r \in Seq(X), NEW v \in Seq(X)
  PROVE  Regrouped(a, r, v)
  BY ConcatAssociative DEF Regrouped

LEMMA Tuples ==
  ASSUME NEW X, NEW f \in X, NEW r \in X
  PROVE  /\ <<f>> \in Seq(X) /\ <<f, r>> \in Seq(X) /\ <<f, r>> = <<f>> \o <<r>>
<1>1. <<f>> \in Seq(X) /\ <<r>> \in Seq(X) /\ <<f, r>> \in Seq(X)
  OBVIOUS
<1>2. Len(<<f>>) = 1 /\ Len(<<r>>) = 1 /\ Len(<<f, r>>) = 2
  OBVIOUS
<1>3. <<f>> \o <<r>> \in Seq(X) /\ Len(<<f>> \o <<r>>) = 2
      /\ (<<f>> \o <<r>>)[1] = f /\ (<<f>> \o <<r>>)[2] = r
  BY <1>1, <1>2, ConcatProperties
<1>4. <<f, r>> = <<f>> \o <<r>>
  <2> DEFINE p == <<f, r>>
             q == <<f>> \o <<r>>
  <2>1. \A i \in 1..2 : p[i] = q[i]
    BY <1>3
  <2>2. p \in Seq(X) /\ q \in Seq(X) /\ Len(p) = 2 /\ Len(q) = 2
    BY <1>1, <1>2, <1>3
  <2> HIDE DEF p, q
  <2>3. p = q
    BY <2>1, <2>2, SeqEqual
  <2> QED
    BY <2>3 DEF p, q
<1> QED
  BY <1>1, <1>4

\* A piece of the buffer between the ones before and the ones after it.
LEMMA SplitPiece ==
  ASSUME NEW s \in Seq(Pieces), NEW b \in Seq(Pieces), NEW n \in 1..Len(b),
         b[n].part = "whole"
  PROVE  /\ (s \o SubSeq(b, 1, n - 1)) \o <<First(b[n])>> \in Seq(Pieces)
         /\ <<Rest(b[n])>> \o SubSeq(b, n + 1, Len(b)) \in Seq(Pieces)
         /\ IsSplit(((s \o SubSeq(b, 1, n - 1)) \o <<First(b[n])>>)
                      \o (<<Rest(b[n])>> \o SubSeq(b, n + 1, Len(b))), s \o b)
<1> DEFINE p == b[n]
           m == n - 1
           u == SubSeq(b, 1, m)
           v == SubSeq(b, n + 1, Len(b))
           w == SubSeq(b, n, Len(b))
           a == s \o u
           f == First(p)
           r == Rest(p)
<1>1. p \in Pieces /\ f \in Pieces /\ r \in Pieces
  BY PartsOfPieces
<1>2. m \in 0..Len(b) /\ m + 1 = n /\ n \in 0..Len(b)
  OBVIOUS
<1> HIDE DEF m
<1>3. u \in Seq(Pieces) /\ w \in Seq(Pieces) /\ a \o w = s \o b
  <2>1. /\ u \in Seq(Pieces) /\ SubSeq(b, m + 1, Len(b)) \in Seq(Pieces)
        /\ IsTaken(s, b, m)
    BY <1>2, TakenPieces
  <2> QED
    BY <1>2, <2>1, Zenon DEF IsTaken
<1>4. v \in Seq(Pieces)
  BY <1>2, TakenPieces
<1>5. w = <<p>> \o v
  <2>1. n \in 1..Len(b) /\ Len(b) \in n..Len(b)
    OBVIOUS
  <2> QED
    BY <2>1, SubSeqRecursiveFirst
<1>6. p.part = "whole"
  OBVIOUS
<1> HIDE DEF p, u, v, w
<1>7. a \in Seq(Pieces)
  BY <1>3, ConcatProperties
<1> HIDE DEF a, f, r
<1>8. <<p>> \in Seq(Pieces) /\ <<f>> \in Seq(Pieces) /\ <<r>> \in Seq(Pieces)
      /\ <<f, r>> = <<f>> \o <<r>>
  BY <1>1, Tuples
<1> DEFINE pp == <<p>>
           ff == <<f>>
           rr == <<r>>
<1> HIDE DEF pp, ff, rr
<1>9. pp \in Seq(Pieces) /\ ff \in Seq(Pieces) /\ rr \in Seq(Pieces)
  BY <1>8 DEF pp, ff, rr
<1>10. s \o b = (a \o pp) \o v
  <2>1. a \o w = a \o (pp \o v)
    BY <1>5 DEF pp
  <2>2. a \o (pp \o v) = (a \o pp) \o v
    <3>1. Regrouped(a, pp, v)
      BY <1>4, <1>7, <1>9, Regroup
    <3> QED
      BY <3>1, Zenon DEF Regrouped
  <2> QED
    BY <1>3, <2>1, <2>2, Zenon
<1>11. a \o ff \in Seq(Pieces) /\ rr \o v \in Seq(Pieces)
  BY <1>4, <1>7, <1>9, ConcatProperties
<1>12. (a \o ff) \o (rr \o v) = (a \o (ff \o rr)) \o v
  <2>1. Regrouped(a \o ff, rr, v) /\ Regrouped(a, ff, rr)
    BY <1>4, <1>7, <1>9, <1>11, Regroup
  <2> QED
    BY <2>1, Zenon DEF Regrouped
<1>13. ff \o rr = <<f, r>>
  BY <1>8 DEF ff, rr
<1>14. IsSplit((a \o ff) \o (rr \o v), s \o b)
  BY <1>1, <1>4, <1>6, <1>7, <1>10, <1>12, <1>13 DEF IsSplit, f, r, pp
<1> QED
  BY <1>11, <1>14 DEF a, f, ff, m, p, r, rr, u, v

\* The piece at m became two.
SplitAt(new, old, m) ==
  /\ new \in Seq(Pieces) /\ Len(new) = Len(old) + 1
  /\ old[m].part = "whole"
  /\ new[m] = First(old[m]) /\ new[m + 1] = Rest(old[m])
  /\ \A j \in 1..(m - 1) : new[j] = old[j]
  /\ \A j \in (m + 1)..Len(old) : new[j + 1] = old[j]

LEMMA SplitPoints ==
  ASSUME NEW new, NEW old \in Seq(Pieces), IsSplit(new, old), new # old
  PROVE  \E m \in 1..Len(old) : SplitAt(new, old, m)
<1>1. PICK a \in Seq(Pieces), c \in Seq(Pieces), p \in Pieces :
         /\ p.part = "whole"
         /\ old = (a \o <<p>>) \o c
         /\ new = (a \o <<First(p), Rest(p)>>) \o c
  BY Zenon DEF IsSplit
<1> DEFINE f == First(p)
           r == Rest(p)
           n == Len(a)
           k == Len(c)
           ap == a \o <<p>>
           afr == a \o <<f, r>>
<1>2. f \in Pieces /\ r \in Pieces
  BY PartsOfPieces
<1> HIDE DEF f, r
<1>3. <<p>> \in Seq(Pieces) /\ <<f, r>> \in Seq(Pieces)
      /\ Len(<<p>>) = 1 /\ Len(<<f, r>>) = 2
      /\ <<p>>[1] = p /\ <<f, r>>[1] = f /\ <<f, r>>[2] = r
  BY <1>2
<1>4. n \in Nat /\ k \in Nat
  OBVIOUS
<1>5. /\ ap \in Seq(Pieces) /\ Len(ap) = n + 1
      /\ \A i \in 1..n : ap[i] = a[i]
      /\ ap[n + 1] = p
  <2>1. ap \in Seq(Pieces) /\ Len(ap) = n + 1
        /\ \A i \in 1..(n + 1) : ap[i] = IF i <= n THEN a[i] ELSE <<p>>[i - n]
    BY <1>3, <1>4, ConcatProperties
  <2>2. n + 1 \in 1..(n + 1) /\ ~(n + 1 <= n) /\ (n + 1) - n = 1
    BY <1>4
  <2> HIDE DEF n, ap
  <2>3. ap[n + 1] = p
    BY <1>3, <2>1, <2>2
  <2>4. \A i \in 1..n : ap[i] = a[i]
    BY <1>4, <2>1
  <2> QED
    BY <2>1, <2>3, <2>4
<1>6. /\ afr \in Seq(Pieces) /\ Len(afr) = n + 2
      /\ \A i \in 1..n : afr[i] = a[i]
      /\ afr[n + 1] = f /\ afr[n + 2] = r
  <2>1. afr \in Seq(Pieces) /\ Len(afr) = n + 2
        /\ \A i \in 1..(n + 2) : afr[i] = IF i <= n THEN a[i] ELSE <<f, r>>[i - n]
    BY <1>3, <1>4, ConcatProperties
  <2>2. /\ n + 1 \in 1..(n + 2) /\ ~(n + 1 <= n) /\ (n + 1) - n = 1
        /\ n + 2 \in 1..(n + 2) /\ ~(n + 2 <= n) /\ (n + 2) - n = 2
    BY <1>4
  <2> HIDE DEF n, afr
  <2>3. afr[n + 1] = f /\ afr[n + 2] = r
    BY <1>3, <2>1, <2>2
  <2>4. \A i \in 1..n : afr[i] = a[i]
    BY <1>4, <2>1
  <2> QED
    BY <2>1, <2>3, <2>4
<1> HIDE DEF n, k, ap, afr
<1>7. /\ Len(old) = n + 1 + k
      /\ \A i \in 1..(n + 1) : old[i] = ap[i]
      /\ \A i \in 1..k : old[n + 1 + i] = c[i]
  <2>1. old = ap \o c
    BY <1>1 DEF ap
  <2>2. IsConcat(old, ap, c, Pieces)
    BY <1>5, <2>1, ConcatFacts
  <2>3. Len(c) = k
    BY DEF k
  <2> QED
    BY <1>4, <1>5, <2>2, <2>3 DEF IsConcat
<1>8. /\ new \in Seq(Pieces) /\ Len(new) = n + 2 + k
      /\ \A i \in 1..(n + 2) : new[i] = afr[i]
      /\ \A i \in 1..k : new[n + 2 + i] = c[i]
  <2>1. new = afr \o c
    BY <1>1 DEF afr, f, r
  <2>2. IsConcat(new, afr, c, Pieces)
    BY <1>6, <2>1, ConcatFacts
  <2>3. Len(c) = k
    BY DEF k
  <2> QED
    BY <1>4, <1>6, <2>2, <2>3 DEF IsConcat
<1> DEFINE m == n + 1
<1>9. m \in 1..Len(old) /\ m \in 1..(n + 1) /\ m \in 1..(n + 2) /\ m + 1 \in 1..(n + 2)
      /\ m + 1 = n + 2 /\ m - 1 = n
  BY <1>4, <1>7
<1>10. old[m] = p /\ new[m] = f /\ new[m + 1] = r
  BY <1>5, <1>6, <1>7, <1>8, <1>9
<1>11. \A j \in 1..n : j \in 1..(n + 1) /\ j \in 1..(n + 2)
  BY <1>4
<1>12. \A j \in 1..(m - 1) : new[j] = old[j]
  <2> HIDE DEF m
  <2> SUFFICES ASSUME NEW j \in 1..n PROVE new[j] = old[j]
    BY <1>9
  <2> QED
    BY <1>5, <1>6, <1>7, <1>8, <1>11
<1>13. \A j \in (m + 1)..Len(old) : new[j + 1] = old[j]
  <2> SUFFICES ASSUME NEW j \in (m + 1)..Len(old) PROVE new[j + 1] = old[j]
    OBVIOUS
  <2> DEFINE i == j - (n + 1)
  <2>1. i \in 1..k /\ n + 1 + i = j /\ n + 2 + i = j + 1
    BY <1>4, <1>7
  <2> HIDE DEF i, m
  <2> QED
    BY <1>7, <1>8, <2>1
<1>14. Len(new) = Len(old) + 1
  BY <1>4, <1>7, <1>8
<1> HIDE DEF m
<1>15. SplitAt(new, old, m)
  BY <1>1, <1>8, <1>10, <1>12, <1>13, <1>14 DEF SplitAt, f, r
<1> QED
  BY <1>9, <1>15


(***************************************************************************)
(* What the properties say of the pieces that go out on one connection.    *)
(***************************************************************************)

Whole(out) ==
  \A i \in DOMAIN out :
    /\ out[i].part = "first" => i < Len(out) /\ out[i + 1] = Rest(out[i])
    /\ out[i].part = "rest" => i > 1 /\ out[i - 1] = First(out[i])

Announced(out) == UNION {out[j].tmplts : j \in DOMAIN out}

Explained(out) ==
  \A i \in DOMAIN out : out[i].data # NULL =>
    \E j \in 1..i : out[i].data \in out[j].tmplts

RecordsBefore(out, i) ==
  {j \in 1..(i - 1) : out[j].data # NULL /\ out[j].part # "rest"}

Numbered(out) ==
  \A i \in DOMAIN out : out[i].part # "rest" =>
    out[i].seq = Cardinality(RecordsBefore(out, i))

RecordsOf(out) == Cardinality(RecordsBefore(out, Len(out) + 1))

LEMMA SplitWhole ==
  ASSUME NEW old \in Seq(Pieces), NEW new, NEW m \in 1..Len(old),
         SplitAt(new, old, m), Whole(old)
  PROVE  Whole(new)
<1> DEFINE n == Len(old)
<1>1. n \in Nat /\ m \in Nat /\ 1 <= m /\ m <= n /\ DOMAIN old = 1..n
      /\ Len(new) = n + 1 /\ DOMAIN new = 1..(n + 1)
  BY DEF SplitAt
<1>2. \A i \in 1..n : old[i] \in Pieces
  OBVIOUS
<1> HIDE DEF n
<1> SUFFICES ASSUME NEW i \in 1..(n + 1)
             PROVE  /\ new[i].part = "first" => i < n + 1 /\ new[i + 1] = Rest(new[i])
                    /\ new[i].part = "rest" => i > 1 /\ new[i - 1] = First(new[i])
  BY <1>1 DEF Whole
<1>3. /\ old[m].part = "whole" /\ new[m] = First(old[m])
      /\ new[m + 1] = Rest(old[m])
      /\ \A j \in 1..(m - 1) : new[j] = old[j]
      /\ \A j \in (m + 1)..n : new[j + 1] = old[j]
  BY DEF SplitAt, n
<1>4. CASE i < m
  <2>1. i \in 1..(m - 1) /\ i \in 1..n /\ i < n + 1 /\ new[i] = old[i]
    BY <1>1, <1>3, <1>4
  <2>2. ASSUME new[i].part = "first" PROVE new[i + 1] = Rest(new[i])
    <3>1. old[i + 1] = Rest(old[i]) /\ i + 1 \in 1..n
      BY <1>1, <2>1, <2>2 DEF Whole, n
    <3>2. old[i + 1].part = "rest"
      BY <1>2, <2>1, <3>1, PartsOfPieces
    <3>3. i + 1 # m
      BY <1>3, <3>2
    <3>4. i + 1 \in 1..(m - 1)
      BY <1>1, <2>1, <3>3
    <3> QED
      BY <1>3, <2>1, <3>1, <3>4
  <2>3. ASSUME new[i].part = "rest" PROVE i > 1 /\ new[i - 1] = First(new[i])
    <3>1. i > 1 /\ old[i - 1] = First(old[i])
      BY <1>1, <2>1, <2>3 DEF Whole
    <3>2. i - 1 \in 1..(m - 1)
      BY <1>1, <2>1, <3>1
    <3> QED
      BY <1>3, <2>1, <3>1, <3>2
  <2> QED
    BY <2>1, <2>2, <2>3
<1>5. CASE i = m
  <2>1. new[i].part = "first" /\ new[i + 1] = Rest(new[i]) /\ i < n + 1
    BY <1>1, <1>2, <1>3, <1>5, PartsOfPieces
  <2> QED
    BY <2>1
<1>6. CASE i = m + 1
  <2>1. new[i].part = "rest" /\ new[i - 1] = First(new[i]) /\ i > 1
    <3>1. i - 1 = m /\ i > 1
      BY <1>1, <1>6
    <3> QED
      BY <1>1, <1>2, <1>3, <1>6, <3>1, PartsOfPieces
  <2> QED
    BY <2>1
<1>7. CASE i > m + 1
  <2> DEFINE k == i - 1
  <2>1. k \in (m + 1)..n /\ k + 1 = i /\ k \in 1..n
    BY <1>1, <1>7
  <2> HIDE DEF k
  <2>2. new[i] = old[k]
    <3>1. new[k + 1] = old[k]
      <4>1. k \in (m + 1)..n
        BY <2>1
      <4> QED
        BY <1>1, <1>3, <4>1
    <3> QED
      BY <2>1, <3>1
  <2>3. ASSUME new[i].part = "first" PROVE i < n + 1 /\ new[i + 1] = Rest(new[i])
    <3>1. k < n /\ old[k + 1] = Rest(old[k])
      BY <1>1, <2>1, <2>2, <2>3 DEF Whole, n
    <3>2. k + 1 \in (m + 1)..n /\ (k + 1) + 1 = i + 1 /\ i < n + 1
      BY <1>1, <2>1, <3>1
    <3>3. new[(k + 1) + 1] = old[k + 1]
      <4>1. k + 1 \in (m + 1)..n
        BY <3>2
      <4> QED
        BY <1>1, <1>3, <4>1
    <3> QED
      BY <2>2, <3>1, <3>2, <3>3
  <2>4. ASSUME new[i].part = "rest" PROVE i > 1 /\ new[i - 1] = First(new[i])
    <3>1. k > 1 /\ old[k - 1] = First(old[k])
      BY <1>1, <2>1, <2>2, <2>4 DEF Whole
    <3>2. old[k - 1].part = "first"
      BY <1>2, <2>1, <3>1, PartsOfPieces
    <3>3. k - 1 # m
      BY <1>3, <3>2
    <3>4. k - 1 \in (m + 1)..n /\ (k - 1) + 1 = i - 1 /\ i > 1
      BY <1>1, <2>1, <3>1, <3>3
    <3>5. new[(k - 1) + 1] = old[k - 1]
      <4>1. k - 1 \in (m + 1)..n
        BY <3>4
      <4> QED
        BY <1>1, <1>3, <4>1
    <3> QED
      BY <2>2, <3>1, <3>4, <3>5
  <2> QED
    BY <2>3, <2>4
<1> QED
  BY <1>1, <1>4, <1>5, <1>6, <1>7

\* Where the pieces of old are in new.
Moved(m, i) == IF i <= m THEN i ELSE i + 1

MovesPieces(new, old, m) ==
  /\ \A i \in 1..Len(old) :
       /\ Moved(m, i) \in 1..Len(new) /\ Moved(m, i) # m + 1
       /\ new[Moved(m, i)].tmplts = old[i].tmplts
       /\ new[Moved(m, i)].data = old[i].data
       /\ new[Moved(m, i)].seq = old[i].seq
       /\ new[Moved(m, i)].part = "rest" <=> old[i].part = "rest"
  /\ \A k \in 1..Len(new) :
       k # m + 1 => \E i \in 1..Len(old) : k = Moved(m, i)
  /\ m + 1 \in 1..Len(new) /\ new[m + 1].part = "rest"
  /\ new[m + 1].tmplts = old[m].tmplts /\ new[m + 1].data = old[m].data

LEMMA SplitMoves ==
  ASSUME NEW old \in Seq(Pieces), NEW new, NEW m \in 1..Len(old),
         SplitAt(new, old, m)
  PROVE  MovesPieces(new, old, m)
<1> DEFINE n == Len(old)
<1>1. n \in Nat /\ m \in Nat /\ 1 <= m /\ m <= n /\ Len(new) = n + 1
  BY DEF SplitAt
<1>2. \A i \in 1..n : old[i] \in Pieces
  OBVIOUS
<1> HIDE DEF n
<1>3. /\ old[m].part = "whole" /\ new[m] = First(old[m])
      /\ new[m + 1] = Rest(old[m])
      /\ \A j \in 1..(m - 1) : new[j] = old[j]
      /\ \A j \in (m + 1)..n : new[j + 1] = old[j]
  BY DEF SplitAt, n
<1>4. ASSUME NEW i \in 1..n
      PROVE  /\ Moved(m, i) \in 1..(n + 1) /\ Moved(m, i) # m + 1
             /\ new[Moved(m, i)].tmplts = old[i].tmplts
             /\ new[Moved(m, i)].data = old[i].data
             /\ new[Moved(m, i)].seq = old[i].seq
             /\ new[Moved(m, i)].part = "rest" <=> old[i].part = "rest"
  <2>1. CASE i < m
    <3>1. Moved(m, i) = i /\ i \in 1..(m - 1) /\ i \in 1..(n + 1) /\ i # m + 1
      BY <1>1, <2>1 DEF Moved
    <3> QED
      BY <1>3, <3>1
  <2>2. CASE i = m
    <3>1. Moved(m, i) = m /\ m \in 1..(n + 1) /\ m # m + 1 /\ old[m] \in Pieces
      BY <1>1, <1>2, <2>2 DEF Moved
    <3> QED
      BY <1>3, <2>2, <3>1, PartsOfPieces
  <2>3. CASE i > m
    <3>1. Moved(m, i) = i + 1 /\ i \in (m + 1)..n /\ i + 1 \in 1..(n + 1) /\ i + 1 # m + 1
      BY <1>1, <2>3 DEF Moved
    <3>2. new[i + 1] = old[i]
      <4>1. i \in (m + 1)..n
        BY <3>1
      <4> QED
        BY <1>1, <1>3, <4>1
    <3> QED
      BY <3>1, <3>2
  <2> QED
    BY <1>1, <2>1, <2>2, <2>3
<1>5. ASSUME NEW k \in 1..(n + 1), k # m + 1 PROVE \E i \in 1..n : k = Moved(m, i)
  <2>1. CASE k <= m
    <3>1. k \in 1..n /\ k = Moved(m, k)
      BY <1>1, <2>1 DEF Moved
    <3> QED
      BY <3>1
  <2>2. CASE k > m
    <3>1. k - 1 \in 1..n /\ k = Moved(m, k - 1)
      BY <1>1, <1>5, <2>2 DEF Moved
    <3> QED
      BY <3>1
  <2> QED
    BY <1>1, <2>1, <2>2
<1>6. m + 1 \in 1..(n + 1) /\ old[m] \in Pieces
  BY <1>1, <1>2
<1> QED
  BY <1>1, <1>3, <1>4, <1>5, <1>6, PartsOfPieces DEF MovesPieces, n


LEMMA SplitAnnounced ==
  ASSUME NEW old \in Seq(Pieces), NEW new, NEW m \in 1..Len(old),
         SplitAt(new, old, m)
  PROVE  Announced(new) = Announced(old)
<1>1. MovesPieces(new, old, m)
  BY SplitMoves
<1>2. DOMAIN old = 1..Len(old) /\ DOMAIN new = 1..Len(new)
  BY DEF SplitAt
<1>3. ASSUME NEW t \in Announced(old) PROVE t \in Announced(new)
  <2>1. PICK i \in 1..Len(old) : t \in old[i].tmplts
    BY <1>2 DEF Announced
  <2>2. Moved(m, i) \in 1..Len(new) /\ t \in new[Moved(m, i)].tmplts
    BY <1>1, <2>1 DEF MovesPieces
  <2> QED
    BY <1>2, <2>2 DEF Announced
<1>4. ASSUME NEW t \in Announced(new) PROVE t \in Announced(old)
  <2>1. PICK k \in 1..Len(new) : t \in new[k].tmplts
    BY <1>2 DEF Announced
  <2>2. CASE k = m + 1
    BY <1>1, <1>2, <2>1, <2>2 DEF Announced, MovesPieces
  <2>3. CASE k # m + 1
    <3>1. PICK i \in 1..Len(old) : k = Moved(m, i)
      BY <1>1, <2>3 DEF MovesPieces
    <3>2. t \in old[i].tmplts
      BY <1>1, <2>1, <3>1 DEF MovesPieces
    <3> QED
      BY <1>2, <3>2 DEF Announced
  <2> QED
    BY <2>2, <2>3
<1> QED
  BY <1>3, <1>4

LEMMA SplitExplained ==
  ASSUME NEW old \in Seq(Pieces), NEW new, NEW m \in 1..Len(old),
         SplitAt(new, old, m), Explained(old)
  PROVE  Explained(new)
<1>1. MovesPieces(new, old, m)
  BY SplitMoves
<1>2. DOMAIN old = 1..Len(old) /\ DOMAIN new = 1..Len(new) /\ Len(old) \in Nat
      /\ Len(new) \in Nat
  BY DEF SplitAt
<1>3. ASSUME NEW i \in 1..Len(old), NEW k \in 1..Len(new), Moved(m, i) <= k,
             old[i].data = new[k].data, new[k].data # NULL
      PROVE  \E j \in 1..k : new[k].data \in new[j].tmplts
  <2>1. PICK j \in 1..i : old[i].data \in old[j].tmplts
    BY <1>2, <1>3 DEF Explained
  <2>2. j \in 1..Len(old) /\ Moved(m, j) <= Moved(m, i)
    BY <1>2 DEF Moved
  <2>3. Moved(m, j) \in 1..Len(new) /\ new[Moved(m, j)].tmplts = old[j].tmplts
        /\ Moved(m, i) \in 1..Len(new)
    BY <1>1, <2>2 DEF MovesPieces
  <2>4. Moved(m, j) \in 1..k
    BY <1>2, <1>3, <2>2, <2>3
  <2> QED
    BY <1>3, <2>1, <2>3, <2>4
<1> SUFFICES ASSUME NEW k \in 1..Len(new), new[k].data # NULL
             PROVE  \E j \in 1..k : new[k].data \in new[j].tmplts
  BY <1>2 DEF Explained
<1>4. CASE k = m + 1
  <2>1. Moved(m, m) <= k /\ old[m].data = new[k].data
    BY <1>1, <1>2, <1>4 DEF MovesPieces, Moved
  <2> QED
    BY <1>3, <2>1
<1>5. CASE k # m + 1
  <2>1. PICK i \in 1..Len(old) : k = Moved(m, i)
    BY <1>1, <1>5 DEF MovesPieces
  <2>2. Moved(m, i) <= k /\ old[i].data = new[k].data
    BY <1>1, <1>2, <2>1 DEF MovesPieces
  <2> QED
    BY <1>3, <2>2
<1> QED
  BY <1>4, <1>5

LEMMA RecordsFinite ==
  ASSUME NEW out, NEW i \in Int
  PROVE  IsFiniteSet(RecordsBefore(out, i)) /\ Cardinality(RecordsBefore(out, i)) \in Nat
<1>1. IsFiniteSet(1..(i - 1)) /\ RecordsBefore(out, i) \in SUBSET (1..(i - 1))
  BY FS_Interval DEF RecordsBefore
<1>2. IsFiniteSet(RecordsBefore(out, i))
  BY <1>1, FS_Subset
<1> QED
  BY <1>2, FS_CardinalityType

LEMMA SplitRecords ==
  ASSUME NEW old \in Seq(Pieces), NEW new, NEW m \in 1..Len(old),
         SplitAt(new, old, m), NEW i \in 1..(Len(old) + 1)
  PROVE  Cardinality(RecordsBefore(new, Moved(m, i))) = Cardinality(RecordsBefore(old, i))
<1> DEFINE n == Len(old)
           S == RecordsBefore(old, i)
           T == RecordsBefore(new, Moved(m, i))
           f == [j \in S |-> Moved(m, j)]
<1>1. MovesPieces(new, old, m)
  BY SplitMoves
<1>2. n \in Nat /\ m \in Nat /\ 1 <= m /\ m <= n /\ Len(new) = n + 1
  BY DEF SplitAt
<1>3. \A j \in 1..n : /\ Moved(m, j) \in Int
                      /\ j < i <=> Moved(m, j) < Moved(m, i)
  BY <1>2 DEF Moved
<1>4. ASSUME NEW j \in S PROVE j \in 1..n /\ Moved(m, j) \in T
  <2>1. j \in 1..n /\ j < i /\ old[j].data # NULL /\ old[j].part # "rest"
    BY <1>2 DEF RecordsBefore
  <2>2. Moved(m, j) \in 1..(n + 1) /\ new[Moved(m, j)].data # NULL
        /\ new[Moved(m, j)].part # "rest"
    BY <1>1, <1>2, <2>1 DEF MovesPieces
  <2>3. Moved(m, j) \in 1..(Moved(m, i) - 1)
    BY <1>2, <1>3, <2>1, <2>2 DEF Moved
  <2> QED
    BY <2>1, <2>2, <2>3 DEF RecordsBefore
<1>5. ASSUME NEW k \in T PROVE \E j \in S : f[j] = k
  <2>1. k \in 1..(n + 1) /\ k < Moved(m, i) /\ new[k].data # NULL /\ new[k].part # "rest"
    BY <1>2 DEF RecordsBefore, Moved
  <2>2. k # m + 1
    BY <1>1, <2>1 DEF MovesPieces
  <2>3. PICK j \in 1..n : k = Moved(m, j)
    BY <1>1, <1>2, <2>1, <2>2 DEF MovesPieces
  <2>4. old[j].data # NULL /\ old[j].part # "rest"
    BY <1>1, <2>1, <2>3 DEF MovesPieces
  <2>5. j \in 1..(i - 1)
    BY <1>2, <1>3, <2>1, <2>3
  <2>6. j \in S
    BY <2>4, <2>5 DEF RecordsBefore
  <2> QED
    BY <2>3, <2>6
<1>6. \A j, k \in 1..n : Moved(m, j) = Moved(m, k) => j = k
  BY <1>2 DEF Moved
<1>7. f \in Bijection(S, T)
  <2> HIDE DEF S, T, n
  <2>1. f \in [S -> T]
    BY <1>4
  <2>2. \A j, k \in S : f[j] = f[k] => j = k
    BY <1>4, <1>6
  <2> QED
    BY <1>5, <2>1, <2>2 DEF Bijection, Injection, Surjection, IsInjective
<1>8. ExistsBijection(S, T)
  BY <1>7 DEF ExistsBijection
<1>9. IsFiniteSet(S)
  BY RecordsFinite
<1> HIDE DEF S, T
<1>10. Cardinality(T) = Cardinality(S)
  BY <1>8, <1>9, FS_Bijection
<1> QED
  BY <1>10 DEF S, T

LEMMA SplitNumbered ==
  ASSUME NEW old \in Seq(Pieces), NEW new, NEW m \in 1..Len(old),
         SplitAt(new, old, m)
  PROVE  /\ Numbered(old) => Numbered(new)
         /\ RecordsOf(new) = RecordsOf(old)
<1>1. MovesPieces(new, old, m)
  BY SplitMoves
<1>2. DOMAIN old = 1..Len(old) /\ DOMAIN new = 1..Len(new) /\ Len(old) \in Nat
      /\ Len(new) = Len(old) + 1
  BY DEF SplitAt
<1>3. RecordsOf(new) = RecordsOf(old)
  <2>1. Moved(m, Len(old) + 1) = Len(new) + 1 /\ Len(old) + 1 \in 1..(Len(old) + 1)
    BY <1>2 DEF Moved
  <2> QED
    BY <2>1, SplitRecords DEF RecordsOf
<1>4. ASSUME Numbered(old) PROVE Numbered(new)
  <2> SUFFICES ASSUME NEW k \in 1..Len(new), new[k].part # "rest"
               PROVE  new[k].seq = Cardinality(RecordsBefore(new, k))
    BY <1>2 DEF Numbered
  <2>1. k # m + 1
    BY <1>1 DEF MovesPieces
  <2>2. PICK i \in 1..Len(old) : k = Moved(m, i)
    BY <1>1, <2>1 DEF MovesPieces
  <2>3. old[i].part # "rest" /\ new[k].seq = old[i].seq
    BY <1>1, <2>2 DEF MovesPieces
  <2>4. old[i].seq = Cardinality(RecordsBefore(old, i))
    BY <1>2, <1>4, <2>3 DEF Numbered
  <2>5. i \in 1..(Len(old) + 1)
    BY <1>2
  <2>6. Cardinality(RecordsBefore(new, Moved(m, i))) = Cardinality(RecordsBefore(old, i))
    BY <2>5, SplitRecords
  <2> QED
    BY <2>2, <2>3, <2>4, <2>6
<1> QED
  BY <1>3, <1>4


\* new is as good as old, and goes out with the same templates and records.
AsGood(new, old) ==
  /\ new \in Seq(Pieces)
  /\ Announced(new) = Announced(old)
  /\ RecordsOf(new) = RecordsOf(old)
  /\ Whole(old) => Whole(new)
  /\ Explained(old) => Explained(new)
  /\ Numbered(old) => Numbered(new)

LEMMA SplitAsGood ==
  ASSUME NEW old \in Seq(Pieces), NEW new, IsSplit(new, old)
  PROVE  AsGood(new, old)
<1>1. CASE new = old
  BY <1>1 DEF AsGood
<1>2. CASE new # old
  <2>1. PICK m \in 1..Len(old) : SplitAt(new, old, m)
    BY <1>2, SplitPoints
  <2>2. new \in Seq(Pieces)
    BY <2>1 DEF SplitAt
  <2> QED
    BY <2>1, <2>2, SplitWhole, SplitAnnounced, SplitExplained, SplitNumbered DEF AsGood
<1> QED
  BY <1>1, <1>2

\* A packet more.
LEMMA AppendPiece ==
  ASSUME NEW old \in Seq(Pieces), NEW p \in Pieces, p.part = "whole"
  PROVE  /\ Append(old, p) \in Seq(Pieces)
         /\ Announced(Append(old, p)) = Announced(old) \cup p.tmplts
         /\ Whole(old) => Whole(Append(old, p))
         /\ /\ Explained(old)
            /\ p.data # NULL => p.data \in Announced(old) \cup p.tmplts
            => Explained(Append(old, p))
         /\ Numbered(old) /\ p.seq = RecordsOf(old) => Numbered(Append(old, p))
         /\ RecordsOf(Append(old, p)) =
              IF p.data # NULL THEN RecordsOf(old) + 1 ELSE RecordsOf(old)
<1> DEFINE n == Len(old)
           new == Append(old, p)
<1>1. /\ n \in Nat /\ new \in Seq(Pieces) /\ Len(new) = n + 1
      /\ DOMAIN old = 1..n /\ DOMAIN new = 1..(n + 1)
      /\ \A i \in 1..n : new[i] = old[i]
      /\ new[n + 1] = p
  OBVIOUS
<1>2. n = Len(old)
  OBVIOUS
<1> HIDE DEF n, new
<1>3. 1..(n + 1) = 1..n \cup {n + 1} /\ n + 1 \notin 1..n
  BY <1>1
<1>4. Announced(new) = Announced(old) \cup p.tmplts
  <2>1. ASSUME NEW t \in Announced(new) PROVE t \in Announced(old) \cup p.tmplts
    BY <1>1, <1>3 DEF Announced
  <2>2. ASSUME NEW t \in Announced(old) PROVE t \in Announced(new)
    BY <1>1, <1>3 DEF Announced
  <2>3. ASSUME NEW t \in p.tmplts PROVE t \in Announced(new)
    BY <1>1, <1>3 DEF Announced
  <2> QED
    BY <2>1, <2>2, <2>3
<1>5. ASSUME Whole(old) PROVE Whole(new)
  <2> SUFFICES ASSUME NEW i \in 1..(n + 1)
               PROVE  /\ new[i].part = "first" => i < n + 1 /\ new[i + 1] = Rest(new[i])
                      /\ new[i].part = "rest" => i > 1 /\ new[i - 1] = First(new[i])
    BY <1>1 DEF Whole
  <2>1. CASE i = n + 1
    BY <1>1, <2>1
  <2>2. CASE i \in 1..n
    <3>1. /\ old[i].part = "first" => i < n /\ old[i + 1] = Rest(old[i])
          /\ old[i].part = "rest" => i > 1 /\ old[i - 1] = First(old[i])
      BY <1>1, <1>2, <1>5, <2>2 DEF Whole
    <3>2. i < n + 1 /\ (i < n => i + 1 \in 1..n) /\ (i > 1 => i - 1 \in 1..n)
      BY <1>1, <2>2
    <3> QED
      BY <1>1, <2>2, <3>1, <3>2
  <2> QED
    BY <1>3, <2>1, <2>2
<1>6. ASSUME Explained(old), p.data # NULL => p.data \in Announced(old) \cup p.tmplts
      PROVE  Explained(new)
  <2> SUFFICES ASSUME NEW i \in 1..(n + 1), new[i].data # NULL
               PROVE  \E j \in 1..i : new[i].data \in new[j].tmplts
    BY <1>1 DEF Explained
  <2>1. CASE i = n + 1
    <3>1. new[i].data \in Announced(new)
      BY <1>1, <1>4, <1>6, <2>1
    <3> QED
      BY <1>1, <2>1, <3>1 DEF Announced
  <2>2. CASE i \in 1..n
    <3>1. PICK j \in 1..i : old[i].data \in old[j].tmplts
      BY <1>1, <1>6, <2>2 DEF Explained
    <3>2. j \in 1..n
      BY <1>1, <2>2
    <3> QED
      BY <1>1, <2>2, <3>1, <3>2
  <2> QED
    BY <1>3, <2>1, <2>2
<1>7. \A i \in 1..(n + 1) : RecordsBefore(new, i) = RecordsBefore(old, i)
  <2> SUFFICES ASSUME NEW i \in 1..(n + 1)
               PROVE  RecordsBefore(new, i) = RecordsBefore(old, i)
    OBVIOUS
  <2>1. \A j \in 1..(i - 1) : j \in 1..n
    BY <1>1
  <2> QED
    BY <1>1, <2>1 DEF RecordsBefore
<1>8. ASSUME Numbered(old), p.seq = RecordsOf(old) PROVE Numbered(new)
  <2> SUFFICES ASSUME NEW i \in 1..(n + 1), new[i].part # "rest"
               PROVE  new[i].seq = Cardinality(RecordsBefore(old, i))
    BY <1>1, <1>7 DEF Numbered
  <2>1. CASE i = n + 1
    BY <1>1, <1>2, <1>8, <2>1 DEF RecordsOf
  <2>2. CASE i \in 1..n
    BY <1>1, <1>8, <2>2 DEF Numbered
  <2> QED
    BY <1>3, <2>1, <2>2
<1>9. RecordsOf(new) = IF p.data # NULL THEN RecordsOf(old) + 1 ELSE RecordsOf(old)
  <2> DEFINE S == RecordsBefore(old, n + 1)
             T == RecordsBefore(new, (n + 1) + 1)
  <2>1. n + 1 \in 1..(n + 1) /\ ((n + 1) + 1) - 1 = n + 1 /\ (n + 1) - 1 = n
    BY <1>1
  <2>2. T = IF p.data # NULL THEN S \cup {n + 1} ELSE S
    <3>1. S = {j \in 1..n : new[j].data # NULL /\ new[j].part # "rest"}
      BY <1>1, <2>1 DEF RecordsBefore
    <3>2. T = {j \in 1..(n + 1) : new[j].data # NULL /\ new[j].part # "rest"}
      BY <2>1 DEF RecordsBefore
    <3> HIDE DEF S, T
    <3> QED
      BY <1>1, <1>3, <3>1, <3>2
  <2>3. n + 1 \notin S
    BY <1>1, <2>1 DEF RecordsBefore
  <2>4. IsFiniteSet(S) /\ Cardinality(S) \in Nat
    BY <1>1, RecordsFinite
  <2>5. RecordsOf(old) = Cardinality(S) /\ RecordsOf(new) = Cardinality(T)
    BY <1>1, <1>2 DEF RecordsOf
  <2> HIDE DEF S, T
  <2>6. Cardinality(S \cup {n + 1}) = Cardinality(S) + 1
    BY <2>3, <2>4, FS_AddElement
  <2> QED
    BY <2>2, <2>5, <2>6
<1> QED
  BY <1>1, <1>4, <1>5, <1>6, <1>8, <1>9 DEF new


-----------------------------------------------------------------------------
(***************************************************************************)
(* The operations of the sender.                                           *)
(***************************************************************************)

\* c is s after its socket was closed.
IsClosed(c, s) ==
  /\ c \in Clients /\ ~c.open /\ c.seq = s.seq
  /\ c.stream = <<>> /\ c.buffer = <<>>

LEMMA CloseFacts ==
  ASSUME NEW s \in Clients
  PROVE  IsClosed(sender_socket_close(s), s)
<1> DEFINE c == sender_socket_close(s)
<1>1. <<>> \in Seq(Pieces)
  OBVIOUS
<1>2. ~c.open /\ c.stream = <<>> /\ c.buffer = <<>> /\ c.seq = s.seq
  BY DEF Clients, sender_socket_close
<1>3. c \in Clients
  BY <1>1 DEF Clients, sender_socket_close
<1> QED
  BY <1>2, <1>3 DEF IsClosed

\* c is s after the socket took some of what waits, or nothing.
IsFlushed(c, s) ==
  /\ c \in Clients /\ c.open = s.open /\ c.seq = s.seq
  /\ IsSplit(Out(c), Out(s))

LEMMA FlushFacts ==
  ASSUME NEW s \in Clients, NEW udp \in BOOLEAN, NEW f \in sender_send_buffer(s, udp)
  PROVE  IsClosed(f, s) \/ IsFlushed(f, s)
<1>1. /\ s.stream \in Seq(Pieces) /\ s.buffer \in Seq(Pieces)
      /\ s.open \in BOOLEAN /\ s.seq \in Nat
      /\ s = [open |-> s.open, stream |-> s.stream, buffer |-> s.buffer, seq |-> s.seq]
  BY DEF Clients
<1>2. \/ \E n \in 0..Len(s.buffer) :
           f = [s EXCEPT !.stream = s.stream \o SubSeq(s.buffer, 1, n),
                         !.buffer = SubSeq(s.buffer, n + 1, Len(s.buffer))]
      \/ \E n \in 1..Len(s.buffer) :
           /\ s.buffer[n].part = "whole"
           /\ f = [s EXCEPT !.stream = (s.stream \o SubSeq(s.buffer, 1, n - 1))
                                         \o <<First(s.buffer[n])>>,
                            !.buffer = <<Rest(s.buffer[n])>>
                                         \o SubSeq(s.buffer, n + 1, Len(s.buffer))]
      \/ f = sender_socket_close(s)
  <2>1. \/ \E n \in (IF udp THEN {0, Len(s.buffer)} ELSE 0..Len(s.buffer)) :
             f = [s EXCEPT !.stream = s.stream \o SubSeq(s.buffer, 1, n),
                           !.buffer = SubSeq(s.buffer, n + 1, Len(s.buffer))]
        \/ \E n \in {i \in 1..Len(s.buffer) : ~udp /\ s.buffer[i].part = "whole"} :
             f = [s EXCEPT !.stream = (s.stream \o SubSeq(s.buffer, 1, n - 1))
                                           \o <<First(s.buffer[n])>>,
                           !.buffer = <<Rest(s.buffer[n])>>
                                         \o SubSeq(s.buffer, n + 1, Len(s.buffer))]
        \/ f = sender_socket_close(s)
    BY Zenon DEF sender_send_buffer
  <2>2. (IF udp THEN {0, Len(s.buffer)} ELSE 0..Len(s.buffer)) \subseteq 0..Len(s.buffer)
    BY <1>1
  <2> QED
    BY <2>1, <2>2, Zenon
<1>3. ASSUME NEW st \in Seq(Pieces), NEW b \in Seq(Pieces),
             f = [s EXCEPT !.stream = st, !.buffer = b],
             IsSplit(st \o b, s.stream \o s.buffer)
      PROVE  IsFlushed(f, s)
  <2>1. f.stream = st /\ f.buffer = b /\ f.open = s.open /\ f.seq = s.seq /\ f \in Clients
    BY <1>3 DEF Clients
  <2> QED
    BY <1>3, <2>1 DEF IsFlushed, Out
<1>4. ASSUME NEW n \in 0..Len(s.buffer),
             f = [s EXCEPT !.stream = s.stream \o SubSeq(s.buffer, 1, n),
                           !.buffer = SubSeq(s.buffer, n + 1, Len(s.buffer))]
      PROVE  IsFlushed(f, s)
  <2> DEFINE st == s.stream \o SubSeq(s.buffer, 1, n)
             b == SubSeq(s.buffer, n + 1, Len(s.buffer))
  <2>1. SubSeq(s.buffer, 1, n) \in Seq(Pieces) /\ b \in Seq(Pieces)
        /\ IsTaken(s.stream, s.buffer, n)
    BY <1>1, TakenPieces
  <2>2. st \in Seq(Pieces)
    BY <1>1, <2>1, ConcatProperties
  <2>3. IsSplit(st \o b, s.stream \o s.buffer)
    BY <2>1, Zenon DEF IsSplit, IsTaken
  <2>4. f = [s EXCEPT !.stream = st, !.buffer = b]
    BY <1>4
  <2> HIDE DEF st, b
  <2> QED
    BY <1>3, <2>1, <2>2, <2>3, <2>4
<1>5. ASSUME NEW n \in 1..Len(s.buffer), s.buffer[n].part = "whole",
             f = [s EXCEPT !.stream = (s.stream \o SubSeq(s.buffer, 1, n - 1))
                                        \o <<First(s.buffer[n])>>,
                           !.buffer = <<Rest(s.buffer[n])>>
                                        \o SubSeq(s.buffer, n + 1, Len(s.buffer))]
      PROVE  IsFlushed(f, s)
  <2> DEFINE st == (s.stream \o SubSeq(s.buffer, 1, n - 1)) \o <<First(s.buffer[n])>>
             b == <<Rest(s.buffer[n])>> \o SubSeq(s.buffer, n + 1, Len(s.buffer))
  <2>1. st \in Seq(Pieces) /\ b \in Seq(Pieces) /\ IsSplit(st \o b, s.stream \o s.buffer)
    BY <1>1, <1>5, SplitPiece
  <2>2. f = [s EXCEPT !.stream = st, !.buffer = b]
    BY <1>5
  <2> HIDE DEF st, b
  <2> QED
    BY <1>3, <2>1, <2>2
<1> QED
  BY <1>2, <1>4, <1>5, CloseFacts

\* c is s after the packet p went out, whole or in parts, now or later.
IsSent(c, s, p) ==
  /\ c \in Clients /\ c.open /\ c.seq = s.seq
  /\ \E mid \in Seq(Pieces) :
       IsSplit(mid, Out(s)) /\ IsSplit(Out(c), Append(mid, p))

\* What comes of a packet.
SendResult(r, s, required, p) ==
  \/ r.status = "closed" /\ IsClosed(r.client, s)
  \/ r.status = "busy" /\ ~required /\ IsFlushed(r.client, s)
  \/ r.status = "ok" /\ s.open /\ IsSent(r.client, s, p)


AppendsLast(s, b, p) == s \o Append(b, p) = Append(s \o b, p)

LEMMA AppendLast ==
  ASSUME NEW X, NEW s \in Seq(X), NEW b \in Seq(X), NEW p \in X
  PROVE  AppendsLast(s, b, p)
<1> DEFINE u == s \o Append(b, p)
           v == Append(s \o b, p)
<1>1. Append(b, p) = b \o <<p>> /\ v = (s \o b) \o <<p>>
  <2>1. s \o b \in Seq(X)
    BY ConcatProperties
  <2> QED
    BY <2>1, AppendIsConcat
<1>2. <<p>> \in Seq(X)
  OBVIOUS
<1>3. Regrouped(s, b, <<p>>)
  BY <1>2, Regroup
<1> QED
  BY <1>1, <1>3, Zenon DEF Regrouped, AppendsLast


\* What does not fit into the buffer costs the connection.
LEMMA StoreFacts ==
  ASSUME NEW s \in Clients, s.open, NEW p \in Pieces
  PROVE  LET r == sender_buffer_store(s, p) IN
         \/ r.status = "closed" /\ IsClosed(r.client, s)
         \/ /\ r.status = "ok" /\ r.client \in Clients /\ r.client.open
            /\ r.client.seq = s.seq /\ Out(r.client) = Append(Out(s), p)
<1> DEFINE r == sender_buffer_store(s, p)
           c == [s EXCEPT !.buffer = Append(s.buffer, p)]
<1>1. CASE Len(s.buffer) = BufferSize
  <2>1. r = [client |-> sender_socket_close(s), status |-> "closed"]
    BY <1>1 DEF sender_buffer_store, Closed, Result
  <2> QED
    BY <2>1, CloseFacts
<1>2. CASE Len(s.buffer) # BufferSize
  <2>1. r = [client |-> c, status |-> "ok"]
    BY <1>2 DEF sender_buffer_store, Result
  <2>2. s.stream \in Seq(Pieces) /\ s.buffer \in Seq(Pieces)
    BY DEF Clients
  <2>3. Append(s.buffer, p) \in Seq(Pieces)
    BY <2>2
  <2>4. /\ c \in Clients /\ c.open /\ c.seq = s.seq
        /\ c.stream = s.stream /\ c.buffer = Append(s.buffer, p)
    BY <2>3 DEF Clients
  <2>5. AppendsLast(s.stream, s.buffer, p)
    BY <2>2, AppendLast
  <2>6. Out(c) = Append(Out(s), p)
    BY <2>4, <2>5 DEF Out, AppendsLast
  <2> HIDE DEF c, r
  <2> QED
    BY <2>1, <2>4, <2>6 DEF r
<1> QED
  BY <1>1, <1>2

\* sendmsg, when nothing waits.
LEMMA TransmitFacts ==
  ASSUME NEW s \in Clients, s.open, s.buffer = <<>>, NEW udp \in BOOLEAN,
         NEW required \in BOOLEAN, NEW p \in Pieces, p.part = "whole",
         NEW r \in Transmit(s, udp, required, p)
  PROVE  \/ r.status = "closed" /\ IsClosed(r.client, s)
         \/ r.status = "busy" /\ ~required /\ r.client = s
         \/ /\ r.status = "ok" /\ r.client \in Clients /\ r.client.open
            /\ r.client.seq = s.seq /\ IsSplit(Out(r.client), Append(Out(s), p))
<1> DEFINE Good(q) == /\ q.status = "ok" /\ q.client \in Clients /\ q.client.open
                      /\ q.client.seq = s.seq
                      /\ IsSplit(Out(q.client), Append(Out(s), p))
           Bad(q) == q.status = "closed" /\ IsClosed(q.client, s)
           c == [s EXCEPT !.stream = Append(s.stream, p)]
           g == [s EXCEPT !.stream = Append(s.stream, First(p))]
<1>1. \/ r = Result(c, "ok")
      \/ r = Closed(s)
      \/ r = sender_buffer_store(g, Rest(p))
      \/ r = sender_buffer_store(s, p)
      \/ ~required /\ r = Result(s, "busy")
  BY DEF Transmit
<1>2. s.stream \in Seq(Pieces) /\ First(p) \in Pieces /\ Rest(p) \in Pieces
  BY PartsOfPieces DEF Clients
<1>3. Append(s.stream, p) \in Seq(Pieces) /\ Append(s.stream, First(p)) \in Seq(Pieces)
  BY <1>2
<1>4. Out(s) = s.stream
  BY <1>2, ConcatEmptySeq DEF Out
<1>5. ASSUME r = Result(c, "ok") PROVE Good(r)
  <2>1. /\ c \in Clients /\ c.open /\ c.seq = s.seq
        /\ c.stream = Append(s.stream, p) /\ c.buffer = <<>>
    BY <1>3 DEF Clients
  <2>2. Out(c) = Append(Out(s), p)
    BY <1>3, <1>4, <2>1, ConcatEmptySeq DEF Out
  <2>3. r.status = "ok" /\ r.client = c
    BY <1>5 DEF Result
  <2> HIDE DEF c
  <2> QED
    BY <2>1, <2>2, <2>3 DEF IsSplit
<1>6. ASSUME r = Closed(s) PROVE Bad(r)
  BY <1>6, CloseFacts DEF Closed, Result
<1>7. ASSUME r = sender_buffer_store(s, p) PROVE Good(r) \/ Bad(r)
  BY <1>7, StoreFacts DEF IsSplit
<1>8. ASSUME r = sender_buffer_store(g, Rest(p)) PROVE Good(r) \/ Bad(r)
  <2>1. /\ g \in Clients /\ g.open /\ g.seq = s.seq
        /\ g.stream = Append(s.stream, First(p)) /\ g.buffer = <<>>
    BY <1>3 DEF Clients
  <2>2. Out(g) = Append(s.stream, First(p))
    BY <1>3, <2>1, ConcatEmptySeq DEF Out
  <2> HIDE DEF g
  <2>3. \/ r.status = "closed" /\ IsClosed(r.client, g)
        \/ /\ r.status = "ok" /\ r.client \in Clients /\ r.client.open
           /\ r.client.seq = g.seq /\ Out(r.client) = Append(Out(g), Rest(p))
    BY <1>2, <1>8, <2>1, StoreFacts
  <2>4. ASSUME r.status = "closed", IsClosed(r.client, g) PROVE Bad(r)
    BY <2>1, <2>4 DEF IsClosed
  <2>5. IsSplit(Append(Append(s.stream, First(p)), Rest(p)), Append(Out(s), p))
    <3> DEFINE a == s.stream
               f == First(p)
               q == Rest(p)
    <3>1. Append(a, p) = (a \o <<p>>) \o <<>>
      <4>1. Append(a, p) = a \o <<p>>
        BY <1>2, AppendIsConcat
      <4> QED
        BY <1>3, <4>1, ConcatEmptySeq
    <3>2. Append(Append(a, f), q) = (a \o <<f, q>>) \o <<>>
      <4> HIDE DEF a, f, q
      <4>1. a \in Seq(Pieces) /\ f \in Pieces /\ q \in Pieces
        BY <1>2 DEF a, f, q
      <4>2. Append(a, f) = a \o <<f>> /\ Append(a, f) \in Seq(Pieces)
        BY <4>1, AppendIsConcat
      <4>3. Append(Append(a, f), q) = Append(a, f) \o <<q>>
        BY <4>1, <4>2, AppendIsConcat
      <4>4. <<f>> \in Seq(Pieces) /\ <<q>> \in Seq(Pieces) /\ <<f, q>> = <<f>> \o <<q>>
            /\ <<f, q>> \in Seq(Pieces)
        BY <4>1, Tuples
      <4>5. Regrouped(a, <<f>>, <<q>>)
        BY <4>1, <4>4, Regroup
      <4>6. Append(Append(a, f), q) = a \o <<f, q>>
        BY <4>2, <4>3, <4>4, <4>5, Zenon DEF Regrouped
      <4>7. a \o <<f, q>> \in Seq(Pieces)
        BY <4>1, <4>4, ConcatProperties
      <4>8. (a \o <<f, q>>) \o <<>> = a \o <<f, q>>
        BY <4>7, ConcatEmptySeq
      <4> QED
        BY <4>6, <4>8, Zenon
    <3>3. <<>> \in Seq(Pieces)
      OBVIOUS
    <3> QED
      BY <1>2, <1>4, <3>1, <3>2, <3>3, Zenon DEF IsSplit
  <2>6. ASSUME r.status = "ok", r.client \in Clients, r.client.open,
               r.client.seq = g.seq, Out(r.client) = Append(Out(g), Rest(p))
        PROVE  Good(r)
    BY <2>1, <2>2, <2>5, <2>6
  <2> QED
    BY <2>3, <2>4, <2>6
<1>9. ASSUME ~required, r = Result(s, "busy")
      PROVE  r.status = "busy" /\ ~required /\ r.client = s
  BY <1>9 DEF Result
<1> QED
  BY <1>1, <1>5, <1>6, <1>7, <1>8, <1>9


LEMMA SplitNothing ==
  ASSUME NEW new, IsSplit(new, <<>>)
  PROVE  new = <<>>
<1> SUFFICES ASSUME new # <<>> PROVE FALSE
  OBVIOUS
<1>1. <<>> \in Seq(Pieces) /\ Len(<<>>) = 0
  OBVIOUS
<1>2. \E m \in 1..Len(<<>>) : SplitAt(new, <<>>, m)
  BY <1>1, SplitPoints
<1> QED
  BY <1>1, <1>2

\* sender_send_parts as a whole.
LEMMA SendFacts ==
  ASSUME NEW s \in Clients, CleanIfClosed(s), NEW udp \in BOOLEAN,
         NEW required \in BOOLEAN, NEW p \in Pieces, p.part = "whole",
         NEW r \in sender_send_parts(s, udp, required, p)
  PROVE  SendResult(r, s, required, p)
<1>1. PICK f \in sender_send_buffer(s, udp) :
         r \in IF ~f.open THEN {Result(f, "closed")}
               ELSE IF f.buffer # <<>>
               THEN IF required THEN {sender_buffer_store(f, p)}
                                ELSE {Result(f, "busy")}
               ELSE Transmit(f, udp, required, p)
  BY Zenon DEF sender_send_parts
<1>2. IsClosed(f, s) \/ IsFlushed(f, s)
  BY FlushFacts
<1>3. f \in Clients /\ f.seq = s.seq
  BY <1>2 DEF IsClosed, IsFlushed
<1>4. ASSUME ~f.open PROVE SendResult(r, s, required, p)
  <2>1. r.status = "closed" /\ r.client = f
    BY <1>1, <1>4 DEF Result
  <2>2. ASSUME IsFlushed(f, s) PROVE f.stream = <<>> /\ f.buffer = <<>>
    <3>1. s.stream = <<>> /\ s.buffer = <<>>
      BY <1>4, <2>2 DEF IsFlushed, CleanIfClosed
    <3>2. Out(s) = <<>>
      BY <3>1 DEF Out
    <3>3. Out(f) = <<>>
      BY <2>2, <3>2, SplitNothing DEF IsFlushed
    <3>4. f.stream \in Seq(Pieces) /\ f.buffer \in Seq(Pieces)
      BY <1>3 DEF Clients
    <3> QED
      BY <3>3, <3>4, ConcatEqualIffEmpty DEF Out
  <2>3. IsClosed(f, s)
    BY <1>2, <1>3, <1>4, <2>2 DEF IsClosed
  <2> QED
    BY <2>1, <2>3 DEF SendResult
<1>5. ASSUME f.open PROVE SendResult(r, s, required, p)
  <2>1. IsFlushed(f, s) /\ s.open
    BY <1>2, <1>5 DEF IsClosed, IsFlushed
  <2>2. Out(f) \in Seq(Pieces) /\ IsSplit(Out(f), Out(s))
    BY <1>3, <2>1, ConcatProperties DEF Clients, IsFlushed, Out
  <2>3. ASSUME r.status = "closed", IsClosed(r.client, f)
        PROVE  SendResult(r, s, required, p)
    BY <1>3, <2>3 DEF SendResult, IsClosed
  <2>4. ASSUME r.status = "busy", ~required, r.client = f
        PROVE  SendResult(r, s, required, p)
    BY <2>1, <2>4 DEF SendResult
  <2>5. ASSUME r.status = "ok", r.client \in Clients, r.client.open,
               r.client.seq = f.seq, IsSplit(Out(r.client), Append(Out(f), p))
        PROVE  SendResult(r, s, required, p)
    BY <1>3, <2>1, <2>2, <2>5 DEF SendResult, IsSent
  <2>6. CASE f.buffer # <<>>
    <3>1. CASE required
      <4>1. r = sender_buffer_store(f, p)
        BY <1>1, <1>5, <2>6, <3>1
      <4> QED
        BY <1>3, <1>5, <2>3, <2>5, <4>1, StoreFacts DEF IsSplit
    <3>2. CASE ~required
      <4>1. r = Result(f, "busy")
        BY <1>1, <1>5, <2>6, <3>2
      <4> QED
        BY <2>4, <3>2, <4>1 DEF Result
    <3> QED
      BY <3>1, <3>2
  <2>7. CASE f.buffer = <<>>
    <3>1. r \in Transmit(f, udp, required, p)
      BY <1>1, <1>5, <2>7
    <3>2. \/ r.status = "closed" /\ IsClosed(r.client, f)
          \/ r.status = "busy" /\ ~required /\ r.client = f
          \/ /\ r.status = "ok" /\ r.client \in Clients /\ r.client.open
             /\ r.client.seq = f.seq /\ IsSplit(Out(r.client), Append(Out(f), p))
      BY <1>3, <1>5, <2>7, <3>1, TransmitFacts
    <3> QED
      BY <2>3, <2>4, <2>5, <3>2
  <2> QED
    BY <2>6, <2>7
<1> QED
  BY <1>3, <1>4, <1>5 DEF Clients


-----------------------------------------------------------------------------
(***************************************************************************)
(* The inductive invariant.                                                *)
(***************************************************************************)

PacketSet == [tmplts : SUBSET Templates, data : Templates \cup {NULL}]

PlainMains == [pc : {"idle", "reconnected", "parse", "closed"}]

ResendMains == [pc : {"resend"}, idx : Nat, pkt : PacketSet]

NextMains ==
  [pc : {"next"}, pkts : Seq(PacketSet), new : SUBSET Templates, k : Nat, idx : Nat,
   attempts : Nat, tried : SUBSET Destinations, start : SUBSET Destinations]

OthersMains ==
  [pc : {"others"}, pkts : Seq(PacketSet), required : BOOLEAN, k : Nat, idx : Nat,
   except : Int]

Types ==
  /\ mode \in Modes
  /\ conn \in Seq(Destinations) /\ disconn \in Seq(Destinations)
  /\ ready \in Seq(Destinations)
  /\ ready_empty \in BOOLEAN
  /\ group_mtx \in {NULL, "main"}
  /\ dst_idx \in Nat
  /\ client \in [Destinations -> Clients]
  /\ templates \subseteq Templates
  /\ main \in PlainMains \cup ResendMains \cup NextMains \cup OthersMains
  /\ messages \in 0..MaxMessages
  /\ connections \in 0..MaxConnections

GoodClient(s) ==
  s \in Clients /\ CleanIfClosed(s) /\ Whole(Out(s)) /\ Explained(Out(s))

ClientsGood == \A d \in Destinations : GoodClient(client[d])

\* The message that is sent: the templates that are new, and those of the
\* packets before k.
New == NewTemplates(main.pkts)

SentBefore(k) == UNION {main.pkts[j].tmplts : j \in 1..(k - 1)}

\* The templates that the destination at conn[i] was given.
KnownAt(i) ==
  CASE main.pc = "others" ->
         IF i - 1 < main.idx \/ i - 1 = main.except THEN templates
         ELSE IF i - 1 = main.idx THEN (templates \ New) \cup SentBefore(main.k)
         ELSE templates \ New
    [] main.pc = "next" ->
         IF main.attempts > 0 /\ i - 1 = Turn
         THEN (templates \ New) \cup SentBefore(main.k)
         ELSE templates \ New
    [] OTHER -> templates

Knows(s, T) == s.open => T \subseteq Announced(Out(s))

ConnKnows == \A i \in DOMAIN conn : Knows(client[conn[i]], KnownAt(i))

\* Every packet can be understood by who has the old templates and the packets
\* before.
MessageClear ==
  main.pc \in {"next", "others"} =>
    /\ \A k \in DOMAIN main.pkts : main.pkts[k].data # NULL =>
         main.pkts[k].data \in (templates \ New)
                               \cup UNION {main.pkts[j].tmplts : j \in 1..k}
    /\ main.k \in 1..(Len(main.pkts) + 1)

ResendInv ==
  main.pc = "resend" => main.idx > 0 /\ main.pkt = Packet(templates, NULL)

OthersInv ==
  main.pc = "others" =>
    /\ main.required \/ New = {}
    /\ main.except = main.idx => main.k = 1

\* The places of conn that the walk has still to try.
Within(p, t, a, n) == (t <= p /\ p < t + a) \/ p + n < t + a

Untried ==
  {conn[i] : i \in {j \in DOMAIN conn :
     main.attempts > 0 /\ Within(j - 1, Turn, main.attempts, Len(conn))}}

NextInv ==
  main.pc = "next" =>
    /\ main.new = New
    /\ main.attempts <= Len(conn)
    /\ New # {} => main.attempts = Len(conn)
    /\ main.start = main.tried \cup Untried

NumberedClient(s) == Numbered(Out(s)) /\ s.seq = RecordsOf(Out(s))

Numbers ==
  \A d \in Destinations \ Udp :
    /\ NumberedClient(client[d])
    /\ d \in ToSet(disconn) \cup ToSet(ready) => Out(client[d]) = <<>>

IInv ==
  /\ Types /\ OneGroup /\ ClientsGood /\ ConnKnows /\ MessageClear
  /\ ResendInv /\ OthersInv /\ NextInv /\ Numbers


-----------------------------------------------------------------------------
(***************************************************************************)
(* The three groups together are the destinations, each once.              *)
(***************************************************************************)

LEMMA CardinalityUpTo ==
  ASSUME NEW n \in Nat
  PROVE  IsFiniteSet(1..n) /\ Cardinality(1..n) = n
<1>1. IsFiniteSet(1..n) /\ Cardinality(1..n) = IF 1 > n THEN 0 ELSE n - 1 + 1
  BY FS_Interval
<1>2. (IF 1 > n THEN 0 ELSE n - 1 + 1) = n
  OBVIOUS
<1> QED
  BY <1>1, <1>2

LEMMA DestinationsFinite ==
  IsFiniteSet(Destinations) /\ Cardinality(Destinations) = Len(Configured)
<1> DEFINE n == Len(Configured)
<1>1. Configured \in [1..n -> Destinations] /\ n \in Nat /\ DOMAIN Configured = 1..n
  BY ForwardingAssumption, LenProperties
<1>2. \A x \in Destinations : \E i \in 1..n : Configured[i] = x
  BY <1>1 DEF Destinations, ToSet
<1>3. Configured \in Bijection(1..n, Destinations)
  BY <1>1, <1>2, ForwardingAssumption DEF Bijection, Injection, Surjection, IsInjective
<1>4. IsFiniteSet(1..n) /\ Cardinality(1..n) = n
  BY <1>1, CardinalityUpTo
<1>5. ExistsBijection(1..n, Destinations)
  BY <1>3 DEF ExistsBijection
<1> QED
  BY <1>4, <1>5, FS_Bijection

IsPartition(a, b, c) ==
  /\ Len(a \o b \o c) = Cardinality(Destinations)
  /\ ToSet(a \o b \o c) = Destinations

LEMMA PartitionFacts ==
  ASSUME NEW a \in Seq(Destinations), NEW b \in Seq(Destinations),
         NEW c \in Seq(Destinations)
  PROVE  /\ IsPartition(a, b, c) <=>
              /\ Len(a) + Len(b) + Len(c) = Cardinality(Destinations)
              /\ ToSet(a) \cup ToSet(b) \cup ToSet(c) = Destinations
         /\ IsPartition(a, b, c) =>
              /\ Injective(a) /\ Injective(b) /\ Injective(c)
              /\ ToSet(a) \cap ToSet(b) = {} /\ ToSet(a) \cap ToSet(c) = {}
              /\ ToSet(b) \cap ToSet(c) = {}
<1> DEFINE ab == a \o b
           u == ab \o c
           n == Len(a)
           m == Len(b)
           k == Len(c)
<1>1. n \in Nat /\ m \in Nat /\ k \in Nat
      /\ DOMAIN a = 1..n /\ DOMAIN b = 1..m /\ DOMAIN c = 1..k
  OBVIOUS
<1>2. IsConcat(ab, a, b, Destinations)
  BY ConcatFacts
<1>3. ab \in Seq(Destinations)
  BY <1>2 DEF IsConcat
<1> HIDE DEF ab
<1>4. IsConcat(u, ab, c, Destinations)
  BY <1>3, ConcatFacts
<1> HIDE DEF u, n, m, k
<1>5. /\ u \in Seq(Destinations) /\ Len(ab) = n + m /\ Len(u) = n + m + k
      /\ ToSet(u) = ToSet(a) \cup ToSet(b) \cup ToSet(c)
  BY <1>2, <1>4 DEF IsConcat, n, m, k
<1>6. /\ \A i \in 1..n : ab[i] = a[i]
      /\ \A i \in 1..m : ab[n + i] = b[i]
  BY <1>2 DEF IsConcat, n, m
<1>7. /\ \A i \in 1..(n + m) : u[i] = ab[i]
      /\ \A i \in 1..k : u[n + m + i] = c[i]
  BY <1>4, <1>5 DEF IsConcat, k
<1>8. IsPartition(a, b, c) <=> Len(u) = Cardinality(Destinations) /\ ToSet(u) = Destinations
  BY DEF IsPartition, u, ab
<1>9. ASSUME IsPartition(a, b, c) PROVE Injective(u)
  <2>1. DOMAIN u = 1..Len(u) /\ Len(u) \in Nat /\ u \in [1..Len(u) -> Destinations]
    BY <1>5, LenProperties
  <2>2. u \in Surjection(1..Len(u), Destinations)
    <3>1. \A t \in Destinations : \E i \in 1..Len(u) : u[i] = t
      BY <1>8, <1>9, <2>1 DEF ToSet
    <3> QED
      BY <2>1, <3>1 DEF Surjection
  <2>3. IsFiniteSet(1..Len(u)) /\ Cardinality(1..Len(u)) = Len(u)
    BY <2>1, CardinalityUpTo
  <2>4. u \in Injection(1..Len(u), Destinations)
    BY <1>8, <1>9, <2>2, <2>3, FS_SurjSameCardinalityImpliesInj
  <2> QED
    BY <2>1, <2>4 DEF Injection, IsInjective, Injective
<1>10. DOMAIN u = 1..(n + m + k)
  BY <1>5
<1>11. /\ \A i \in 1..n : i \in 1..(n + m + k) /\ u[i] = a[i]
       /\ \A i \in 1..m : n + i \in 1..(n + m + k) /\ u[n + i] = b[i]
       /\ \A i \in 1..k : n + m + i \in 1..(n + m + k) /\ u[n + m + i] = c[i]
  <2>1. ASSUME NEW i \in 1..n PROVE i \in 1..(n + m + k) /\ i \in 1..(n + m)
    BY <1>1
  <2>2. ASSUME NEW i \in 1..m PROVE n + i \in 1..(n + m + k) /\ n + i \in 1..(n + m)
    BY <1>1
  <2>3. ASSUME NEW i \in 1..k PROVE n + m + i \in 1..(n + m + k)
    BY <1>1
  <2> QED
    BY <1>6, <1>7, <2>1, <2>2, <2>3
<1>12. ASSUME Injective(u)
       PROVE  Injective(a) /\ Injective(b) /\ Injective(c)
  <2>1. Injective(a)
    BY <1>1, <1>10, <1>11, <1>12 DEF Injective
  <2>2. ASSUME NEW i \in 1..m, NEW j \in 1..m, b[i] = b[j] PROVE i = j
    <3>1. n + i = n + j
      BY <1>10, <1>11, <1>12, <2>2 DEF Injective
    <3> QED
      BY <1>1, <3>1
  <2>3. ASSUME NEW i \in 1..k, NEW j \in 1..k, c[i] = c[j] PROVE i = j
    <3>1. n + m + i = n + m + j
      BY <1>10, <1>11, <1>12, <2>3 DEF Injective
    <3> QED
      BY <1>1, <3>1
  <2> QED
    BY <1>1, <2>1, <2>2, <2>3 DEF Injective
<1>13. ASSUME Injective(u)
       PROVE  /\ ToSet(a) \cap ToSet(b) = {} /\ ToSet(a) \cap ToSet(c) = {}
              /\ ToSet(b) \cap ToSet(c) = {}
  <2>1. ASSUME NEW i \in 1..n, NEW j \in 1..m, a[i] = b[j] PROVE FALSE
    <3>1. i = n + j
      BY <1>10, <1>11, <1>13, <2>1 DEF Injective
    <3> QED
      BY <1>1, <3>1
  <2>2. ASSUME NEW i \in 1..n, NEW j \in 1..k, a[i] = c[j] PROVE FALSE
    <3>1. i = n + m + j
      BY <1>10, <1>11, <1>13, <2>2 DEF Injective
    <3> QED
      BY <1>1, <3>1
  <2>3. ASSUME NEW i \in 1..m, NEW j \in 1..k, b[i] = c[j] PROVE FALSE
    <3>1. n + i = n + m + j
      BY <1>10, <1>11, <1>13, <2>3 DEF Injective
    <3> QED
      BY <1>1, <3>1
  <2> QED
    BY <1>1, <2>1, <2>2, <2>3 DEF ToSet
<1>14. IsPartition(a, b, c) <=>
              /\ Len(a) + Len(b) + Len(c) = Cardinality(Destinations)
              /\ ToSet(a) \cup ToSet(b) \cup ToSet(c) = Destinations
  BY <1>5, <1>8 DEF n, m, k
<1> QED
  BY <1>9, <1>12, <1>13, <1>14


-----------------------------------------------------------------------------
(***************************************************************************)
(* One packet to one destination.                                          *)
(***************************************************************************)

PacketResult(r, s, required, pkt) ==
  /\ GoodClient(r.client)
  /\ \/ /\ r.status = "closed"
        /\ ~r.client.open /\ r.client.seq = s.seq /\ Out(r.client) = <<>>
     \/ /\ r.status = "busy"
        /\ ~required
        /\ Knows(s, Announced(Out(r.client)))
        /\ r.client.open = s.open
        /\ Announced(Out(r.client)) = Announced(Out(s))
        /\ NumberedClient(s) => NumberedClient(r.client)
     \/ /\ r.status = "ok"
        /\ s.open /\ r.client.open
        /\ Announced(Out(r.client)) = Announced(Out(s)) \cup pkt.tmplts
        /\ NumberedClient(s) => NumberedClient(r.client)

LEMMA ResultShape ==
  ASSUME NEW s, NEW udp, NEW required, NEW p,
         NEW r \in sender_send_parts(s, udp, required, p)
  PROVE  r = [client |-> r.client, status |-> r.status]
<1>1. \E c, status : r = [client |-> c, status |-> status]
  <2>1. PICK f \in sender_send_buffer(s, udp) :
           r \in IF ~f.open THEN {Result(f, "closed")}
                 ELSE IF f.buffer # <<>>
                 THEN IF required THEN {sender_buffer_store(f, p)}
                                  ELSE {Result(f, "busy")}
                 ELSE Transmit(f, udp, required, p)
    BY Zenon DEF sender_send_parts
  <2>2. \A c, q : \E e, status : sender_buffer_store(c, q) = Result(e, status)
    BY DEF sender_buffer_store, Closed
  <2>3. ASSUME NEW q \in Transmit(f, udp, required, p)
        PROVE  \E e, status : q = Result(e, status)
    BY <2>2 DEF Transmit, Closed
  <2>4. \E e, status : r = Result(e, status)
    BY <2>1, <2>2, <2>3
  <2> QED
    BY <2>4 DEF Result
<1> QED
  BY <1>1

LEMMA OutType ==
  ASSUME NEW s \in Clients
  PROVE  Out(s) \in Seq(Pieces)
  BY ConcatProperties DEF Clients, Out

LEMMA ClosedGood ==
  ASSUME NEW c, NEW s, IsClosed(c, s)
  PROVE  GoodClient(c) /\ Out(c) = <<>>
<1>1. Out(c) = <<>>
  BY DEF IsClosed, Out
<1>2. Whole(<<>>) /\ Explained(<<>>)
  BY DEF Whole, Explained
<1> QED
  BY <1>1, <1>2 DEF IsClosed, GoodClient, CleanIfClosed

LEMMA PacketFacts ==
  ASSUME Types, NEW d \in Destinations, GoodClient(client[d]),
         NEW pkt \in PacketSet, NEW required \in BOOLEAN,
         /\ pkt.data # NULL /\ client[d].open
         => pkt.data \in Announced(Out(client[d])) \cup pkt.tmplts,
         NEW r \in SendPacket(d, pkt, required)
  PROVE  PacketResult(r, client[d], required, pkt)
<1> DEFINE s == client[d]
           p == Piece(pkt, s.seq, "whole")
<1>1. s \in Clients /\ CleanIfClosed(s) /\ s.seq \in Nat
  BY DEF GoodClient, Clients
<1>2. /\ p \in Pieces /\ p.part = "whole" /\ p.tmplts = pkt.tmplts
      /\ p.data = pkt.data /\ p.seq = s.seq
  BY <1>1 DEF Piece, Pieces, PacketSet
<1>3. PICK q \in sender_send_parts(s, d \in Udp, required, p) : r = Counted(q, pkt)
  BY DEF SendPacket
<1>4. SendResult(q, s, required, p)
  <2> DEFINE udp == d \in Udp
  <2>1. udp \in BOOLEAN
    OBVIOUS
  <2> HIDE DEF udp, p, s
  <2>2. q \in sender_send_parts(s, udp, required, p)
    BY <1>3 DEF udp
  <2> QED
    BY <1>1, <1>2, <2>1, <2>2, SendFacts
<1>5. Out(s) \in Seq(Pieces)
  BY <1>1, OutType
<1>6. GoodClient(s)
  OBVIOUS
<1>7. /\ pkt.data # NULL /\ s.open
      => pkt.data \in Announced(Out(s)) \cup pkt.tmplts
  OBVIOUS
<1> HIDE DEF s, p
<1>8. CASE q.status = "closed" /\ IsClosed(q.client, s)
  <2>1. r = q
    BY <1>3, <1>8 DEF Counted
  <2> QED
    BY <1>8, <2>1, ClosedGood DEF PacketResult, IsClosed, s
<1>9. CASE q.status = "busy" /\ ~required /\ IsFlushed(q.client, s)
  <2>1. r = q
    BY <1>3, <1>9 DEF Counted
  <2>2. AsGood(Out(q.client), Out(s))
    BY <1>5, <1>9, SplitAsGood DEF IsFlushed
  <2>3. q.client \in Clients /\ q.client.open = s.open /\ q.client.seq = s.seq
    BY <1>9 DEF IsFlushed
  <2>4. ASSUME ~s.open PROVE q.client.stream = <<>> /\ q.client.buffer = <<>>
    <3>1. Out(s) = <<>>
      BY <1>6, <2>4 DEF GoodClient, CleanIfClosed, Out
    <3>2. Out(q.client) = <<>>
      BY <1>9, <3>1, SplitNothing DEF IsFlushed
    <3> QED
      BY <2>3, <3>2, ConcatEqualIffEmpty DEF Clients, Out
  <2>5. GoodClient(q.client)
    BY <1>6, <2>2, <2>3, <2>4 DEF GoodClient, CleanIfClosed, AsGood
  <2>6. NumberedClient(s) => NumberedClient(q.client)
    BY <2>2, <2>3 DEF NumberedClient, AsGood
  <2> QED
    BY <1>9, <2>1, <2>2, <2>3, <2>5, <2>6 DEF PacketResult, Knows, AsGood, s
<1>10. CASE q.status = "ok" /\ s.open /\ IsSent(q.client, s, p)
  <2>1. PICK mid \in Seq(Pieces) :
           IsSplit(mid, Out(s)) /\ IsSplit(Out(q.client), Append(mid, p))
    BY <1>10 DEF IsSent
  <2>2. q.client \in Clients /\ q.client.open /\ q.client.seq = s.seq
    BY <1>10 DEF IsSent
  <2> DEFINE out == Out(q.client)
             new == Append(mid, p)
  <2>3. AsGood(mid, Out(s))
    BY <1>5, <2>1, SplitAsGood
  <2>4. /\ new \in Seq(Pieces)
        /\ Announced(new) = Announced(mid) \cup p.tmplts
        /\ Whole(mid) => Whole(new)
        /\ /\ Explained(mid)
           /\ p.data # NULL => p.data \in Announced(mid) \cup p.tmplts
           => Explained(new)
        /\ Numbered(mid) /\ p.seq = RecordsOf(mid) => Numbered(new)
        /\ RecordsOf(new) =
              IF p.data # NULL THEN RecordsOf(mid) + 1 ELSE RecordsOf(mid)
    BY <1>2, AppendPiece
  <2>5. AsGood(out, new)
    BY <2>1, <2>4, SplitAsGood
  <2> HIDE DEF out, new
  <2>6. Announced(out) = Announced(Out(s)) \cup pkt.tmplts
    BY <1>2, <2>3, <2>4, <2>5 DEF AsGood
  <2>7. Whole(out) /\ Explained(out)
    BY <1>2, <1>6, <1>7, <1>10, <2>3, <2>4, <2>5 DEF AsGood, GoodClient
  <2> DEFINE n == IF pkt.data # NULL THEN s.seq + 1 ELSE s.seq
  <2>8. r.status = "ok" /\ r.client = [q.client EXCEPT !.seq = n]
    <3>1. pkt.data # NULL => r = [q EXCEPT !.client.seq = q.client.seq + 1]
      BY <1>3, <1>10 DEF Counted
    <3>2. pkt.data = NULL => r = q
      BY <1>3 DEF Counted
    <3>3. q = [client |-> q.client, status |-> q.status]
      BY <1>3, ResultShape
    <3>4. pkt.data # NULL => r.status = q.status
                             /\ r.client = [q.client EXCEPT !.seq = q.client.seq + 1]
      BY <3>1, <3>3
    <3>5. q.client = [q.client EXCEPT !.seq = q.client.seq]
      BY <2>2 DEF Clients
    <3> QED
      BY <1>10, <2>2, <3>2, <3>4, <3>5
  <2>9. r.client \in Clients /\ r.client.open /\ r.client.seq = n /\ Out(r.client) = out
    <3>1. n \in Nat
      BY <1>1
    <3> HIDE DEF n
    <3> QED
      BY <2>2, <2>8, <3>1 DEF Clients, Out, out
  <2>10. GoodClient(r.client)
    BY <2>7, <2>9 DEF GoodClient, CleanIfClosed
  <2>11. ASSUME NumberedClient(s) PROVE NumberedClient(r.client)
    BY <1>2, <2>3, <2>4, <2>5, <2>9, <2>11 DEF NumberedClient, AsGood
  <2> QED
    BY <1>10, <2>6, <2>8, <2>9, <2>10, <2>11 DEF PacketResult, s
<1> QED
  BY <1>4, <1>8, <1>9, <1>10 DEF SendResult


-----------------------------------------------------------------------------
(***************************************************************************)
(* The invariant holds at the start, and every step keeps it.              *)
(***************************************************************************)

LEMMA NothingOut ==
  Whole(<<>>) /\ Explained(<<>>) /\ Numbered(<<>>) /\ RecordsOf(<<>>) = 0
<1>1. Whole(<<>>) /\ Explained(<<>>) /\ Numbered(<<>>)
  BY DEF Whole, Explained, Numbered
<1>2. RecordsBefore(<<>>, Len(<<>>) + 1) = {}
  BY DEF RecordsBefore
<1> QED
  BY <1>1, <1>2, FS_EmptySet DEF RecordsOf

LEMMA NewClientGood ==
  GoodClient(NewClient) /\ NumberedClient(NewClient) /\ Out(NewClient) = <<>>
<1>1. <<>> \in Seq(Pieces)
  OBVIOUS
<1>2. NewClient \in Clients /\ ~NewClient.open /\ Out(NewClient) = <<>>
      /\ NewClient.stream = <<>> /\ NewClient.buffer = <<>> /\ NewClient.seq = 0
  BY <1>1 DEF NewClient, Clients, Out
<1> QED
  BY <1>2, NothingOut DEF GoodClient, CleanIfClosed, NumberedClient

LEMMA EmptyGroup == ToSet(<<>>) = {} /\ \A X : <<>> \in Seq(X)
  BY DEF ToSet

LEMMA InitIInv == Init => IInv
<1> SUFFICES ASSUME Init PROVE IInv
  OBVIOUS
<1>1. conn = <<>> /\ ready = <<>> /\ disconn = Configured
      /\ client = [d \in Destinations |-> NewClient] /\ main = Idle
  BY DEF Init
<1>2. /\ conn \in Seq(Destinations) /\ ready \in Seq(Destinations)
      /\ disconn \in Seq(Destinations)
  BY <1>1, EmptyGroup, ForwardingAssumption
<1>3. NewClient \in Clients
  BY NewClientGood DEF GoodClient
<1>4. Types
  BY <1>1, <1>2, <1>3, ForwardingAssumption DEF Init, Types, Idle, PlainMains
<1>5. OneGroup
  <2>1. Len(conn) = 0 /\ Len(ready) = 0 /\ Len(disconn) \in Nat
    BY <1>1, <1>2
  <2>2. Len(conn) + Len(disconn) + Len(ready) = Cardinality(Destinations)
    BY <1>1, <2>1, DestinationsFinite
  <2>3. ToSet(conn) \cup ToSet(disconn) \cup ToSet(ready) = Destinations
    BY <1>1, EmptyGroup DEF Destinations
  <2>4. IsPartition(conn, disconn, ready)
    BY <1>2, <2>2, <2>3, PartitionFacts
  <2> QED
    BY <2>4 DEF OneGroup, IsPartition
<1>6. ClientsGood /\ Numbers
  BY <1>1, NewClientGood DEF ClientsGood, Numbers
<1>7. ConnKnows
  BY <1>1 DEF ConnKnows
<1>8. main.pc = "idle"
  BY <1>1 DEF Idle
<1>9. MessageClear /\ ResendInv /\ OthersInv /\ NextInv
  BY <1>8 DEF MessageClear, ResendInv, OthersInv, NextInv
<1> QED
  BY <1>4, <1>5, <1>6, <1>7, <1>9 DEF IInv

PlainPcs == {"idle", "reconnected", "parse", "closed"}

LEMMA PlainMain ==
  ASSUME main'.pc \in PlainPcs
  PROVE  /\ MessageClear' /\ ResendInv' /\ OthersInv' /\ NextInv'
         /\ \A i : KnownAt(i)' = templates'
  BY DEF PlainPcs, MessageClear, ResendInv, OthersInv, NextInv, KnownAt

\* Steps that leave main, conn and templates alone.
LEMMA SameMain ==
  ASSUME MessageClear, ResendInv, OthersInv, NextInv,
         UNCHANGED <<main, conn, templates>>
  PROVE  /\ MessageClear' /\ ResendInv' /\ OthersInv' /\ NextInv'
         /\ \A i : KnownAt(i)' = KnownAt(i)
  BY DEF MessageClear, ResendInv, OthersInv, NextInv, KnownAt, New, SentBefore,
         Turn, Untried

LEMMA MainShapes ==
  ASSUME Types
  PROVE  /\ main.pc = "resend" => main \in ResendMains
         /\ main.pc = "next" => main \in NextMains
         /\ main.pc = "others" => main \in OthersMains
  BY DEF Types, PlainMains, ResendMains, NextMains, OthersMains

\* The groups while the plugin is not closed.
LEMMA GroupFacts ==
  ASSUME Types, OneGroup, main.pc # "closed"
  PROVE  /\ Len(conn) + Len(disconn) + Len(ready) = Cardinality(Destinations)
         /\ ToSet(conn) \cup ToSet(disconn) \cup ToSet(ready) = Destinations
         /\ Injective(conn) /\ Injective(disconn) /\ Injective(ready)
         /\ ToSet(conn) \cap ToSet(disconn) = {} /\ ToSet(conn) \cap ToSet(ready) = {}
         /\ ToSet(disconn) \cap ToSet(ready) = {}
<1>1. IsPartition(conn, disconn, ready)
  BY DEF OneGroup, IsPartition
<1> QED
  BY <1>1, PartitionFacts DEF Types

LEMMA OneGroupFrom ==
  ASSUME conn' \in Seq(Destinations), disconn' \in Seq(Destinations),
         ready' \in Seq(Destinations),
         Len(conn') + Len(disconn') + Len(ready') = Cardinality(Destinations),
         ToSet(conn') \cup ToSet(disconn') \cup ToSet(ready') = Destinations
  PROVE  OneGroup'
<1>1. IsPartition(conn', disconn', ready')
  BY PartitionFacts
<1> QED
  BY <1>1 DEF OneGroup, IsPartition

LEMMA ConnectFacts ==
  ASSUME NEW s, GoodClient(s)
  PROVE  LET c == sender_connect(s) IN
         /\ GoodClient(c) /\ c \in Clients /\ c.seq = s.seq /\ Out(c) = <<>>
<1> DEFINE e == IF s.open THEN sender_socket_close(s) ELSE s
           c == [e EXCEPT !.open = TRUE]
<1>1. s \in Clients /\ CleanIfClosed(s)
  BY DEF GoodClient
<1>2. e \in Clients /\ e.stream = <<>> /\ e.buffer = <<>> /\ e.seq = s.seq
  BY <1>1, CloseFacts DEF CleanIfClosed, IsClosed
<1> HIDE DEF e
<1>3. c \in Clients /\ c.open /\ c.stream = <<>> /\ c.buffer = <<>> /\ c.seq = s.seq
  BY <1>2 DEF Clients
<1>4. Out(c) = <<>>
  BY <1>3 DEF Out
<1>5. GoodClient(c)
  BY <1>3, <1>4, NothingOut DEF GoodClient, CleanIfClosed
<1>6. sender_connect(s) = c
  BY DEF sender_connect, e
<1> QED
  BY <1>3, <1>4, <1>5, <1>6

\* Members that move from the group src to the group dst.
IsMove(src, dst, src1, dst1, S) ==
  /\ src1 \in Seq(Destinations) /\ dst1 \in Seq(Destinations)
  /\ Len(src1) + Len(dst1) = Len(src) + Len(dst)
  /\ ToSet(src1) = ToSet(src) \ S
  /\ ToSet(dst1) = ToSet(dst) \cup (ToSet(src) \cap S)

LEMMA MoveFacts ==
  ASSUME NEW src \in Seq(Destinations), NEW dst \in Seq(Destinations), NEW S
  PROVE  IsMove(src, dst, Without(src, S), dst \o Only(src, S), S)
<1> DEFINE w == Without(src, S)
           o == Only(src, S)
<1>1. /\ w \in Seq(Destinations) /\ o \in Seq(Destinations)
      /\ Len(o) + Len(w) = Len(src)
      /\ ToSet(o) = ToSet(src) \cap S /\ ToSet(w) = ToSet(src) \ S
  BY OnlyFacts
<1> HIDE DEF w, o
<1>2. IsConcat(dst \o o, dst, o, Destinations)
  BY <1>1, ConcatFacts
<1>3. Len(w) \in Nat /\ Len(o) \in Nat /\ Len(dst) \in Nat
  BY <1>1
<1>4. Len(w) + (Len(dst) + Len(o)) = Len(src) + Len(dst)
  <2> DEFINE a == Len(w)
             b == Len(o)
             c == Len(dst)
             n == Len(src)
  <2>1. a \in Nat /\ b \in Nat /\ c \in Nat /\ b + a = n
    BY <1>1, <1>3
  <2> HIDE DEF a, b, c, n
  <2>2. a + (c + b) = n + c
    BY <2>1
  <2> QED
    BY <2>2 DEF a, b, c, n
<1> QED
  BY <1>1, <1>2, <1>4 DEF IsMove, IsConcat, w, o

LEMMA ReconnectStep ==
  ASSUME IInv, NEW S, dest_reconnect(S)
  PROVE  IInv'
<1>1. Types /\ OneGroup /\ main.pc # "closed"
  BY DEF IInv, dest_reconnect
<1>2. /\ Len(conn) + Len(disconn) + Len(ready) = Cardinality(Destinations)
      /\ ToSet(conn) \cup ToSet(disconn) \cup ToSet(ready) = Destinations
      /\ ToSet(conn) \cap ToSet(disconn) = {}
  BY <1>1, GroupFacts
<1>3. /\ S \subseteq ToSet(disconn)
      /\ client' = [d \in Destinations |->
                      IF d \in S THEN sender_connect(client[d]) ELSE client[d]]
      /\ UNCHANGED <<mode, conn, group_mtx, dst_idx, templates, main, messages>>
  BY DEF dest_reconnect
<1>4. IsMove(disconn, ready, disconn', ready', S)
  BY <1>1, MoveFacts DEF dest_reconnect, Types
<1>5. /\ conn' \in Seq(Destinations) /\ disconn' \in Seq(Destinations)
      /\ ready' \in Seq(Destinations)
  BY <1>1, <1>3, <1>4 DEF Types, IsMove
<1>6. \A d \in Destinations : GoodClient(client[d])
  BY DEF IInv, ClientsGood
<1>7. \A d \in Destinations \ S : client'[d] = client[d]
  BY <1>3
<1>8. \A d \in S : d \in Destinations /\ client'[d] = sender_connect(client[d])
  BY <1>2, <1>3
<1>9. \A d \in S : GoodClient(client'[d]) /\ client'[d] \in Clients
                   /\ client'[d].seq = client[d].seq /\ Out(client'[d]) = <<>>
  BY <1>6, <1>8, ConnectFacts
<1>10. ClientsGood'
  BY <1>6, <1>7, <1>9 DEF ClientsGood
<1>11. Types'
  <2>1. client' \in [Destinations -> Clients]
    BY <1>3, <1>10 DEF ClientsGood, GoodClient
  <2>2. connections' \in 0..MaxConnections
    <3>1. IsFiniteSet(S)
      BY <1>2, <1>3, DestinationsFinite, FS_Subset
    <3>2. Cardinality(S) \in Nat
      BY <3>1, FS_CardinalityType
    <3> QED
      BY <1>1, <3>2, ForwardingAssumption DEF dest_reconnect, Types
  <2>3. ready_empty' \in BOOLEAN
    BY <1>1 DEF dest_reconnect, ReadyEmpty, Types
  <2> QED
    BY <1>1, <1>3, <1>5, <2>1, <2>2, <2>3 DEF Types
<1>12. OneGroup'
  <2>1. Len(conn') + Len(disconn') + Len(ready') = Cardinality(Destinations)
    <3>1. Len(conn) \in Nat /\ Len(disconn) \in Nat /\ Len(ready) \in Nat
          /\ Len(disconn') \in Nat /\ Len(ready') \in Nat
      BY <1>1, <1>5 DEF Types
    <3>2. Len(disconn') + Len(ready') = Len(disconn) + Len(ready) /\ conn' = conn
      BY <1>3, <1>4 DEF IsMove
    <3> QED
      BY <1>2, <3>1, <3>2
  <2>2. ToSet(conn') \cup ToSet(disconn') \cup ToSet(ready') = Destinations
    BY <1>2, <1>3, <1>4 DEF IsMove
  <2> QED
    BY <1>5, <2>1, <2>2, OneGroupFrom
<1>13. /\ MessageClear' /\ ResendInv' /\ OthersInv' /\ NextInv'
       /\ \A i : KnownAt(i)' = KnownAt(i)
  BY <1>3, SameMain DEF IInv
<1>14. ConnKnows'
  <2> SUFFICES ASSUME NEW i \in DOMAIN conn PROVE Knows(client'[conn[i]], KnownAt(i)')
    BY <1>3 DEF ConnKnows, Knows
  <2>1. conn[i] \in ToSet(conn) /\ conn[i] \in Destinations
    BY <1>2 DEF ToSet
  <2>2. client'[conn[i]] = client[conn[i]]
    BY <1>2, <1>3, <1>7, <2>1
  <2> QED
    BY <1>13, <2>2 DEF IInv, ConnKnows
<1>15. Numbers'
  <2> SUFFICES ASSUME NEW d \in Destinations \ Udp
               PROVE  /\ NumberedClient(client'[d])
                      /\ d \in ToSet(disconn') \cup ToSet(ready') => Out(client'[d]) = <<>>
    BY DEF Numbers, NumberedClient, Out
  <2>1. /\ NumberedClient(client[d])
        /\ d \in ToSet(disconn) \cup ToSet(ready) => Out(client[d]) = <<>>
    BY DEF IInv, Numbers
  <2>2. ToSet(disconn') \cup ToSet(ready') \subseteq ToSet(disconn) \cup ToSet(ready)
    BY <1>4 DEF IsMove
  <2>3. CASE d \in S
    BY <1>3, <1>9, <2>1, <2>3, NothingOut DEF NumberedClient
  <2>4. CASE d \notin S
    BY <1>7, <2>1, <2>2, <2>4
  <2> QED
    BY <2>3, <2>4
<1> QED
  BY <1>10, <1>11, <1>12, <1>13, <1>14, <1>15 DEF IInv

LEMMA SequenceCleared ==
  ASSUME Types, ClientsGood, NEW S, client' = NoSequence(client, S)
  PROVE  /\ client' \in [Destinations -> Clients] /\ ClientsGood'
         /\ \A d \in Destinations :
              /\ Out(client'[d]) = Out(client[d]) /\ client'[d].open = client[d].open
              /\ client'[d].seq = IF d \in S THEN 0 ELSE client[d].seq
<1>1. ASSUME NEW d \in Destinations
      PROVE  /\ client'[d] \in Clients
             /\ client'[d].stream = client[d].stream
             /\ client'[d].buffer = client[d].buffer
             /\ client'[d].open = client[d].open
             /\ client'[d].seq = IF d \in S THEN 0 ELSE client[d].seq
  <2>1. client[d] \in Clients
    BY DEF Types
  <2>2. client'[d] = IF d \in S THEN [client[d] EXCEPT !.seq = 0] ELSE client[d]
    BY DEF NoSequence
  <2> QED
    BY <2>1, <2>2 DEF Clients
<1>2. client' \in [Destinations -> Clients]
  BY <1>1 DEF NoSequence
<1>3. \A d \in Destinations : Out(client'[d]) = Out(client[d])
  BY <1>1 DEF Out
<1>4. ClientsGood'
  <2> SUFFICES ASSUME NEW d \in Destinations PROVE GoodClient(client'[d])
    BY DEF ClientsGood
  <2>1. GoodClient(client[d])
    BY DEF ClientsGood
  <2> QED
    BY <1>1, <1>3, <2>1 DEF GoodClient, CleanIfClosed
<1> QED
  BY <1>1, <1>2, <1>3, <1>4

\* Between messages, all that are connected know all templates.
LEMMA PlainKnows ==
  ASSUME Types, ConnKnows, main.pc \in PlainPcs \cup {"resend"}
  PROVE  \A d \in ToSet(conn) : Knows(client[d], templates)
<1>1. \A i : KnownAt(i) = templates
  BY DEF KnownAt, PlainPcs
<1> QED
  BY <1>1 DEF ConnKnows, ToSet

LEMMA PlainConnKnows ==
  ASSUME main'.pc \in PlainPcs \cup {"resend"}, conn' \in Seq(Destinations),
         \A d \in ToSet(conn') : Knows(client'[d], templates')
  PROVE  ConnKnows'
<1>1. \A i : KnownAt(i)' = templates'
  BY DEF KnownAt, PlainPcs
<1> SUFFICES ASSUME NEW i \in DOMAIN conn' PROVE Knows(client'[conn'[i]], templates')
  BY <1>1 DEF ConnKnows, Knows
<1>2. conn'[i] \in ToSet(conn')
  BY DEF ToSet
<1> QED
  BY <1>2

LEMMA StorePacketStep ==
  ASSUME IInv, NEW S \in SUBSET Udp, store_packet(S)
  PROVE  IInv'
<1>1. Types /\ OneGroup /\ main.pc = "idle" /\ main.pc \in PlainPcs
      /\ ClientsGood /\ ConnKnows
  BY DEF IInv, store_packet, PlainPcs
<1>2. /\ Len(conn) + Len(disconn) + Len(ready) = Cardinality(Destinations)
      /\ ToSet(conn) \cup ToSet(disconn) \cup ToSet(ready) = Destinations
  BY <1>1, GroupFacts
<1>3. /\ client' = NoSequence(client, S) /\ main' = [pc |-> "reconnected"]
      /\ UNCHANGED <<mode, disconn, ready_empty, group_mtx, dst_idx, templates, connections>>
  BY DEF store_packet
<1>4. IsMove(conn, ready, conn', ready', S)
  BY <1>1, MoveFacts DEF store_packet, Types
<1>5. /\ conn' \in Seq(Destinations) /\ disconn' \in Seq(Destinations)
      /\ ready' \in Seq(Destinations)
  BY <1>1, <1>3, <1>4 DEF Types, IsMove
<1>6. /\ client' \in [Destinations -> Clients] /\ ClientsGood'
      /\ \A d \in Destinations :
           /\ Out(client'[d]) = Out(client[d]) /\ client'[d].open = client[d].open
           /\ client'[d].seq = IF d \in S THEN 0 ELSE client[d].seq
  BY <1>1, <1>3, SequenceCleared
<1>7. main'.pc = "reconnected" /\ main'.pc \in PlainPcs /\ main' \in PlainMains
  BY <1>3 DEF PlainPcs, PlainMains
<1>8. Types'
  <2>1. messages' \in 0..MaxMessages
    BY <1>1, ForwardingAssumption DEF store_packet, Types
  <2> QED
    BY <1>1, <1>3, <1>5, <1>6, <1>7, <2>1 DEF Types
<1>9. OneGroup'
  <2>1. Len(conn') + Len(disconn') + Len(ready') = Cardinality(Destinations)
    <3>1. Len(conn) \in Nat /\ Len(disconn) \in Nat /\ Len(ready) \in Nat
          /\ Len(conn') \in Nat /\ Len(ready') \in Nat
      BY <1>1, <1>5 DEF Types
    <3>2. Len(conn') + Len(ready') = Len(conn) + Len(ready) /\ disconn' = disconn
      BY <1>3, <1>4 DEF IsMove
    <3> QED
      BY <1>2, <3>1, <3>2
  <2>2. ToSet(conn') \cup ToSet(disconn') \cup ToSet(ready') = Destinations
    BY <1>2, <1>3, <1>4 DEF IsMove
  <2> QED
    BY <1>5, <2>1, <2>2, OneGroupFrom
<1>10. MessageClear' /\ ResendInv' /\ OthersInv' /\ NextInv'
  BY <1>7, PlainMain
<1>11. ConnKnows'
  <2> SUFFICES ASSUME NEW d \in ToSet(conn') PROVE Knows(client'[d], templates')
    BY <1>5, <1>7, PlainConnKnows
  <2>1. d \in ToSet(conn) /\ d \in Destinations
    BY <1>2, <1>4 DEF IsMove
  <2>2. Knows(client[d], templates)
    BY <1>1, <2>1, PlainKnows
  <2> QED
    BY <1>3, <1>6, <2>1, <2>2 DEF Knows
<1>12. Numbers'
  <2> SUFFICES ASSUME NEW d \in Destinations \ Udp
               PROVE  /\ NumberedClient(client'[d])
                      /\ d \in ToSet(disconn') \cup ToSet(ready') => Out(client'[d]) = <<>>
    BY DEF Numbers, NumberedClient, Out
  <2>1. /\ NumberedClient(client[d])
        /\ d \in ToSet(disconn) \cup ToSet(ready) => Out(client[d]) = <<>>
    BY DEF IInv, Numbers
  <2>2. d \in ToSet(disconn') \cup ToSet(ready') => d \in ToSet(disconn) \cup ToSet(ready)
    BY <1>3, <1>4 DEF IsMove
  <2>3. d \notin S
    OBVIOUS
  <2> QED
    BY <1>6, <2>1, <2>2, <2>3 DEF NumberedClient
<1> QED
  BY <1>6, <1>8, <1>9, <1>10, <1>11, <1>12 DEF IInv

\* Steps of main that change nothing else.
LEMMA OnlyMainStep ==
  ASSUME IInv, main.pc # "closed",
         UNCHANGED <<mode, conn, disconn, ready, ready_empty, client, messages,
                     connections>>,
         group_mtx' \in {NULL, "main"}, dst_idx' \in Nat, templates' \subseteq Templates,
         main' \in PlainMains \cup ResendMains \cup NextMains \cup OthersMains,
         MessageClear', ResendInv', OthersInv', NextInv', ConnKnows'
  PROVE  IInv'
<1>1. Types'
  BY DEF IInv, Types
<1>2. OneGroup'
  BY DEF IInv, OneGroup
<1>3. ClientsGood' /\ Numbers'
  BY DEF IInv, ClientsGood, Numbers
<1> QED
  BY <1>1, <1>2, <1>3 DEF IInv

LEMMA NoneReconnectedStep ==
  ASSUME IInv, NoneReconnected
  PROVE  IInv'
<1>1. Types /\ ConnKnows /\ main.pc # "closed" /\ main.pc \in PlainPcs
  BY DEF IInv, NoneReconnected, PlainPcs
<1>2. /\ main'.pc \in PlainPcs /\ main' \in PlainMains
      /\ UNCHANGED <<mode, conn, disconn, ready, ready_empty, client, templates,
                     messages, connections, group_mtx, dst_idx>>
  BY DEF NoneReconnected, groups, PlainPcs, PlainMains
<1>3. MessageClear' /\ ResendInv' /\ OthersInv' /\ NextInv'
  BY <1>2, PlainMain
<1>4. conn' \in Seq(Destinations) /\ group_mtx' \in {NULL, "main"} /\ dst_idx' \in Nat
      /\ templates' \subseteq Templates
  BY <1>1, <1>2 DEF Types
<1>5. ConnKnows'
  BY <1>1, <1>2, <1>4, PlainKnows, PlainConnKnows
<1> QED
  BY <1>1, <1>2, <1>3, <1>4, <1>5, OnlyMainStep

LEMMA PrepareTemplatesStep ==
  ASSUME IInv, PrepareTemplates
  PROVE  IInv'
<1>1. Types /\ ConnKnows /\ main.pc # "closed" /\ main.pc \in PlainPcs
  BY DEF IInv, PrepareTemplates, PlainPcs
<1>2. /\ main' = [pc |-> "resend", idx |-> 1, pkt |-> Packet(templates, NULL)]
      /\ group_mtx' = "main"
      /\ UNCHANGED <<mode, conn, disconn, ready, ready_empty, client, templates,
                     messages, connections, dst_idx>>
  BY DEF PrepareTemplates
<1>3. Packet(templates, NULL) \in PacketSet
  BY <1>1 DEF Types, Packet, PacketSet
<1>4. main' \in ResendMains /\ main'.pc = "resend"
  BY <1>2, <1>3 DEF ResendMains
<1>5. MessageClear' /\ ResendInv' /\ OthersInv' /\ NextInv'
  BY <1>2 DEF MessageClear, ResendInv, OthersInv, NextInv
<1>6. conn' \in Seq(Destinations) /\ dst_idx' \in Nat /\ templates' \subseteq Templates
  BY <1>1, <1>2 DEF Types
<1>7. ConnKnows'
  BY <1>1, <1>2, <1>4, <1>6, PlainKnows, PlainConnKnows
<1> QED
  BY <1>1, <1>2, <1>4, <1>5, <1>6, <1>7, OnlyMainStep


\* All of a group, and one member of it.
LEMMA MoveAllFacts ==
  ASSUME NEW src \in Seq(Destinations), NEW dst \in Seq(Destinations)
  PROVE  IsMove(src, dst, <<>>, dst \o src, ToSet(src))
<1>1. IsConcat(dst \o src, dst, src, Destinations)
  BY ConcatFacts
<1>2. Len(src) \in Nat /\ Len(dst) \in Nat /\ Len(<<>>) = 0
  OBVIOUS
<1>3. Len(<<>>) + (Len(dst) + Len(src)) = Len(src) + Len(dst)
  BY <1>2
<1> QED
  BY <1>1, <1>3, EmptyGroup DEF IsMove, IsConcat

LEMMA MoveOneFacts ==
  ASSUME NEW src \in Seq(Destinations), NEW dst \in Seq(Destinations),
         NEW p \in 1..Len(src), Injective(src)
  PROVE  IsMove(src, dst, group_remove(src, src[p]), Append(dst, src[p]), {src[p]})
<1> DEFINE x == src[p]
           w == group_remove(src, x)
           o == Append(dst, x)
<1>1. x \in Destinations /\ x \in ToSet(src)
  BY DEF ToSet
<1>2. IsRemoved(w, src, p, Destinations)
  BY RemoveFacts
<1>3. o \in Seq(Destinations) /\ Len(o) = Len(dst) + 1 /\ ToSet(o) = ToSet(dst) \cup {x}
  BY <1>1, AppendFacts
<1>4. Len(w) = Len(src) - 1 /\ w \in Seq(Destinations) /\ ToSet(w) = ToSet(src) \ {x}
  BY <1>2 DEF IsRemoved
<1> HIDE DEF w, o, x
<1>5. Len(w) + Len(o) = Len(src) + Len(dst)
  <2> DEFINE a == Len(src)
             b == Len(dst)
  <2>1. a \in Nat /\ b \in Nat /\ Len(w) = a - 1 /\ Len(o) = b + 1
    BY <1>3, <1>4
  <2> HIDE DEF a, b
  <2>2. Len(w) + Len(o) = a + b
    BY <2>1
  <2> QED
    BY <2>2 DEF a, b
<1>6. ToSet(o) = ToSet(dst) \cup (ToSet(src) \cap {x})
  BY <1>1, <1>3
<1> QED
  BY <1>3, <1>4, <1>5, <1>6 DEF IsMove, w, o, x

\* A move between two of three groups keeps them a partition.
LEMMA MoveKeeps ==
  ASSUME NEW a, NEW b, NEW c \in Seq(Destinations), NEW a1, NEW b1, NEW S,
         a \in Seq(Destinations), b \in Seq(Destinations),
         IsMove(a, b, a1, b1, S),
         Len(a) + Len(b) + Len(c) = Cardinality(Destinations),
         ToSet(a) \cup ToSet(b) \cup ToSet(c) = Destinations
  PROVE  /\ a1 \in Seq(Destinations) /\ b1 \in Seq(Destinations)
         /\ Len(a1) + Len(b1) + Len(c) = Cardinality(Destinations)
         /\ ToSet(a1) \cup ToSet(b1) \cup ToSet(c) = Destinations
<1>1. a1 \in Seq(Destinations) /\ b1 \in Seq(Destinations)
  BY DEF IsMove
<1>2. Len(a1) + Len(b1) = Len(a) + Len(b)
  BY DEF IsMove
<1>3. ToSet(a1) \cup ToSet(b1) \cup ToSet(c) = Destinations
  BY DEF IsMove
<1> QED
  BY <1>1, <1>2, <1>3

LEMMA WithoutTemplatesStep ==
  ASSUME IInv, ReconnectedWithoutTemplates
  PROVE  IInv'
<1>1. Types /\ OneGroup /\ main.pc # "closed" /\ ClientsGood /\ ConnKnows
  BY DEF IInv, ReconnectedWithoutTemplates
<1>2. /\ Len(conn) + Len(disconn) + Len(ready) = Cardinality(Destinations)
      /\ ToSet(conn) \cup ToSet(disconn) \cup ToSet(ready) = Destinations
  BY <1>1, GroupFacts
<1>3. /\ client' = NoSequence(client, ToSet(ready)) /\ main' = [pc |-> "parse"]
      /\ ready' = <<>> /\ ready_empty' = TRUE /\ templates = {}
      /\ UNCHANGED <<mode, disconn, group_mtx, dst_idx, templates, messages, connections>>
  BY DEF ReconnectedWithoutTemplates
<1>4. IsMove(ready, conn, ready', conn', ToSet(ready))
  BY <1>1, MoveAllFacts DEF ReconnectedWithoutTemplates, Types
<1>5. /\ conn \in Seq(Destinations) /\ disconn \in Seq(Destinations)
      /\ ready \in Seq(Destinations)
      /\ Len(conn) \in Nat /\ Len(disconn) \in Nat /\ Len(ready) \in Nat
  BY <1>1 DEF Types
<1>6. /\ ready' \in Seq(Destinations) /\ conn' \in Seq(Destinations)
      /\ Len(ready') + Len(conn') + Len(disconn) = Cardinality(Destinations)
      /\ ToSet(ready') \cup ToSet(conn') \cup ToSet(disconn) = Destinations
  <2>1. Len(ready) + Len(conn) + Len(disconn) = Cardinality(Destinations)
    BY <1>2, <1>5
  <2>2. ToSet(ready) \cup ToSet(conn) \cup ToSet(disconn) = Destinations
    BY <1>2
  <2> QED
    BY <1>4, <1>5, <2>1, <2>2, MoveKeeps
<1>7. /\ client' \in [Destinations -> Clients] /\ ClientsGood'
      /\ \A d \in Destinations :
           /\ Out(client'[d]) = Out(client[d]) /\ client'[d].open = client[d].open
           /\ client'[d].seq = IF d \in ToSet(ready) THEN 0 ELSE client[d].seq
  BY <1>1, <1>3, SequenceCleared
<1>8. main'.pc \in PlainPcs /\ main' \in PlainMains
  BY <1>3 DEF PlainPcs, PlainMains
<1>9. Types'
  BY <1>1, <1>3, <1>6, <1>7, <1>8 DEF Types
<1>10. OneGroup'
  <2>1. disconn' = disconn /\ disconn' \in Seq(Destinations)
    BY <1>3, <1>5
  <2>2. Len(conn') + Len(disconn') + Len(ready') = Cardinality(Destinations)
    BY <1>5, <1>6, <2>1
  <2>3. ToSet(conn') \cup ToSet(disconn') \cup ToSet(ready') = Destinations
    BY <1>6, <2>1
  <2> QED
    BY <1>6, <2>1, <2>2, <2>3, OneGroupFrom
<1>11. MessageClear' /\ ResendInv' /\ OthersInv' /\ NextInv'
  BY <1>8, PlainMain
<1>12. ConnKnows'
  <2>1. templates' = {}
    BY <1>3
  <2>2. \A d \in ToSet(conn') : Knows(client'[d], templates')
    BY <2>1 DEF Knows
  <2> QED
    BY <1>6, <1>8, <2>2, PlainConnKnows
<1>13. Numbers'
  <2> SUFFICES ASSUME NEW d \in Destinations \ Udp
               PROVE  /\ NumberedClient(client'[d])
                      /\ d \in ToSet(disconn') \cup ToSet(ready') => Out(client'[d]) = <<>>
    BY DEF Numbers, NumberedClient, Out
  <2>1. /\ NumberedClient(client[d])
        /\ d \in ToSet(disconn) \cup ToSet(ready) => Out(client[d]) = <<>>
    BY DEF IInv, Numbers
  <2>2. ToSet(disconn') \cup ToSet(ready') \subseteq ToSet(disconn) \cup ToSet(ready)
    BY <1>3, <1>4 DEF IsMove
  <2> QED
    BY <1>7, <2>1, <2>2, NothingOut DEF NumberedClient
<1> QED
  BY <1>7, <1>9, <1>10, <1>11, <1>12, <1>13 DEF IInv

LEMMA ResendDoneStep ==
  ASSUME IInv, ResendDone
  PROVE  IInv'
<1>1. Types /\ OneGroup /\ main.pc # "closed" /\ ClientsGood /\ ConnKnows
      /\ main.pc = "resend"
  BY DEF IInv, ResendDone
<1>2. /\ Len(conn) + Len(disconn) + Len(ready) = Cardinality(Destinations)
      /\ ToSet(conn) \cup ToSet(disconn) \cup ToSet(ready) = Destinations
  BY <1>1, GroupFacts
<1>3. /\ client' = NoSequence(client, ToSet(ready)) /\ main' = [pc |-> "parse"]
      /\ ready' = <<>> /\ ready_empty' = TRUE /\ group_mtx' = NULL
      /\ UNCHANGED <<mode, conn, dst_idx, templates, messages, connections>>
  BY DEF ResendDone
<1>4. IsMove(ready, disconn, ready', disconn', ToSet(ready))
  BY <1>1, MoveAllFacts DEF ResendDone, FailedAgain, Types
<1>5. /\ conn \in Seq(Destinations) /\ disconn \in Seq(Destinations)
      /\ ready \in Seq(Destinations)
      /\ Len(conn) \in Nat /\ Len(disconn) \in Nat /\ Len(ready) \in Nat
  BY <1>1 DEF Types
<1>6. /\ ready' \in Seq(Destinations) /\ disconn' \in Seq(Destinations)
      /\ Len(ready') + Len(disconn') + Len(conn) = Cardinality(Destinations)
      /\ ToSet(ready') \cup ToSet(disconn') \cup ToSet(conn) = Destinations
  <2>1. Len(ready) + Len(disconn) + Len(conn) = Cardinality(Destinations)
    BY <1>2, <1>5
  <2>2. ToSet(ready) \cup ToSet(disconn) \cup ToSet(conn) = Destinations
    BY <1>2
  <2> QED
    BY <1>4, <1>5, <2>1, <2>2, MoveKeeps
<1>7. /\ client' \in [Destinations -> Clients] /\ ClientsGood'
      /\ \A d \in Destinations :
           /\ Out(client'[d]) = Out(client[d]) /\ client'[d].open = client[d].open
           /\ client'[d].seq = IF d \in ToSet(ready) THEN 0 ELSE client[d].seq
  BY <1>1, <1>3, SequenceCleared
<1>8. main'.pc \in PlainPcs /\ main' \in PlainMains
  BY <1>3 DEF PlainPcs, PlainMains
<1>9. Types'
  BY <1>1, <1>3, <1>6, <1>7, <1>8 DEF Types
<1>10. OneGroup'
  <2>1. conn' = conn /\ conn' \in Seq(Destinations)
    BY <1>3, <1>5
  <2>2. Len(conn') + Len(disconn') + Len(ready') = Cardinality(Destinations)
    BY <1>5, <1>6, <2>1
  <2>3. ToSet(conn') \cup ToSet(disconn') \cup ToSet(ready') = Destinations
    BY <1>6, <2>1
  <2> QED
    BY <1>6, <2>1, <2>2, <2>3, OneGroupFrom
<1>11. MessageClear' /\ ResendInv' /\ OthersInv' /\ NextInv'
  BY <1>8, PlainMain
<1>12. ConnKnows'
  <2> SUFFICES ASSUME NEW d \in ToSet(conn') PROVE Knows(client'[d], templates')
    BY <1>3, <1>5, <1>8, PlainConnKnows
  <2>1. d \in ToSet(conn) /\ d \in Destinations
    BY <1>2, <1>3
  <2>2. Knows(client[d], templates)
    BY <1>1, <2>1, PlainKnows
  <2> QED
    BY <1>3, <1>7, <2>1, <2>2 DEF Knows
<1>13. Numbers'
  <2> SUFFICES ASSUME NEW d \in Destinations \ Udp
               PROVE  /\ NumberedClient(client'[d])
                      /\ d \in ToSet(disconn') \cup ToSet(ready') => Out(client'[d]) = <<>>
    BY DEF Numbers, NumberedClient, Out
  <2>1. /\ NumberedClient(client[d])
        /\ d \in ToSet(disconn) \cup ToSet(ready) => Out(client[d]) = <<>>
    BY DEF IInv, Numbers
  <2>2. ToSet(disconn') \cup ToSet(ready') \subseteq ToSet(disconn) \cup ToSet(ready)
    BY <1>3, <1>4 DEF IsMove
  <2> QED
    BY <1>7, <2>1, <2>2, NothingOut DEF NumberedClient
<1> QED
  BY <1>7, <1>9, <1>10, <1>11, <1>12, <1>13 DEF IInv


LEMMA ClientUpdated ==
  ASSUME Types, ClientsGood, NEW d \in Destinations, NEW c, GoodClient(c),
         client' = [client EXCEPT ![d] = c]
  PROVE  /\ client' \in [Destinations -> Clients] /\ ClientsGood'
         /\ client'[d] = c
         /\ \A e \in Destinations : e # d => client'[e] = client[e]
<1>1. client \in [Destinations -> Clients] /\ c \in Clients
  BY DEF Types, GoodClient
<1>2. client' \in [Destinations -> Clients] /\ client'[d] = c
      /\ \A e \in Destinations : e # d => client'[e] = client[e]
  BY <1>1
<1>3. ClientsGood'
  <2> SUFFICES ASSUME NEW e \in Destinations PROVE GoodClient(client'[e])
    BY DEF ClientsGood
  <2> QED
    BY <1>2 DEF ClientsGood
<1> QED
  BY <1>2, <1>3

LEMMA ResendTemplatesStep ==
  ASSUME IInv, ResendTemplates
  PROVE  IInv'
<1>1. Types /\ OneGroup /\ main.pc # "closed" /\ ClientsGood /\ ConnKnows
      /\ main.pc = "resend" /\ main \in ResendMains
  BY MainShapes DEF IInv, ResendTemplates
<1>2. /\ Len(conn) + Len(disconn) + Len(ready) = Cardinality(Destinations)
      /\ ToSet(conn) \cup ToSet(disconn) \cup ToSet(ready) = Destinations
      /\ Injective(ready)
      /\ ToSet(conn) \cap ToSet(disconn) = {} /\ ToSet(conn) \cap ToSet(ready) = {}
      /\ ToSet(disconn) \cap ToSet(ready) = {}
  BY <1>1, GroupFacts
<1>3. /\ conn \in Seq(Destinations) /\ disconn \in Seq(Destinations)
      /\ ready \in Seq(Destinations)
      /\ Len(conn) \in Nat /\ Len(disconn) \in Nat /\ Len(ready) \in Nat
  BY <1>1 DEF Types
<1>4. /\ main.idx > 0 /\ main.pkt = Packet(templates, NULL)
      /\ main.idx \in Nat /\ main.pkt \in PacketSet
      /\ main = [pc |-> "resend", idx |-> main.idx, pkt |-> main.pkt]
  BY <1>1 DEF IInv, ResendInv, ResendMains
<1> DEFINE p == main.idx
           d == ready[p]
<1>5. p \in 1..Len(ready) /\ d \in Destinations /\ d \in ToSet(ready)
  <2>1. p \in 1..Len(ready)
    BY <1>3, <1>4 DEF ResendTemplates
  <2> QED
    BY <1>3, <2>1 DEF ToSet
<1>6. /\ UNCHANGED <<mode, disconn, ready_empty, group_mtx, dst_idx, templates,
                     messages, connections>>
  BY DEF ResendTemplates
<1>7. PICK r \in SendPacket(d, main.pkt, TRUE) :
       /\ client' = [client EXCEPT ![d] = r.client]
       /\ IF r.status = "ok"
          THEN /\ conn' = Append(conn, d)
               /\ ready' = group_remove(ready, d)
               /\ UNCHANGED main
          ELSE /\ main' = [main EXCEPT !.idx = @ + 1]
               /\ UNCHANGED <<conn, ready>>
  BY DEF ResendTemplates
<1>8. main.pkt.data = NULL /\ main.pkt.tmplts = templates
  BY <1>4 DEF Packet
<1>9. GoodClient(client[d])
  BY <1>1, <1>5 DEF ClientsGood
<1> HIDE DEF d
<1>10. PacketResult(r, client[d], TRUE, main.pkt)
  BY <1>1, <1>4, <1>5, <1>8, <1>9, PacketFacts
<1>11. /\ client' \in [Destinations -> Clients] /\ ClientsGood'
       /\ client'[d] = r.client
       /\ \A e \in Destinations : e # d => client'[e] = client[e]
  <2>1. GoodClient(r.client)
    BY <1>10 DEF PacketResult
  <2> DEFINE c == r.client
  <2>2. GoodClient(c) /\ client' = [client EXCEPT ![d] = c]
    BY <1>7, <2>1
  <2> HIDE DEF c
  <2>3. /\ client' \in [Destinations -> Clients] /\ ClientsGood'
        /\ client'[d] = c
        /\ \A e \in Destinations : e # d => client'[e] = client[e]
    BY <1>1, <1>5, <2>2, ClientUpdated
  <2> QED
    BY <2>3 DEF c
<1>12. \A e \in Destinations \ Udp :
         /\ NumberedClient(client[e])
         /\ e \in ToSet(disconn) \cup ToSet(ready) => Out(client[e]) = <<>>
  BY DEF IInv, Numbers
<1>13. CASE r.status = "ok"
  <2>1. conn' = Append(conn, d) /\ ready' = group_remove(ready, d) /\ main' = main
    BY <1>7, <1>13
  <2>2. /\ r.client.open
        /\ Announced(Out(r.client)) = Announced(Out(client[d])) \cup main.pkt.tmplts
        /\ NumberedClient(client[d]) => NumberedClient(r.client)
    BY <1>10, <1>13 DEF PacketResult
  <2>3. IsMove(ready, conn, ready', conn', {d})
    BY <1>2, <1>3, <1>5, <2>1, MoveOneFacts DEF d
  <2>4. /\ ready' \in Seq(Destinations) /\ conn' \in Seq(Destinations)
        /\ Len(ready') + Len(conn') + Len(disconn) = Cardinality(Destinations)
        /\ ToSet(ready') \cup ToSet(conn') \cup ToSet(disconn) = Destinations
    <3>1. Len(ready) + Len(conn) + Len(disconn) = Cardinality(Destinations)
      BY <1>2, <1>3
    <3>2. ToSet(ready) \cup ToSet(conn) \cup ToSet(disconn) = Destinations
      BY <1>2
    <3> QED
      BY <1>3, <2>3, <3>1, <3>2, MoveKeeps
  <2>5. Types'
    BY <1>1, <1>6, <1>11, <2>1, <2>4 DEF Types
  <2>6. OneGroup'
    <3>1. disconn' = disconn /\ disconn' \in Seq(Destinations)
      BY <1>3, <1>6
    <3>2. Len(conn') + Len(disconn') + Len(ready') = Cardinality(Destinations)
      BY <1>3, <2>4, <3>1
    <3>3. ToSet(conn') \cup ToSet(disconn') \cup ToSet(ready') = Destinations
      BY <2>4, <3>1
    <3> QED
      BY <2>4, <3>1, <3>2, <3>3, OneGroupFrom
  <2>7. MessageClear' /\ ResendInv' /\ OthersInv' /\ NextInv'
    BY <1>1, <1>4, <1>6, <2>1 DEF MessageClear, ResendInv, OthersInv, NextInv
  <2>8. ConnKnows'
    <3> SUFFICES ASSUME NEW e \in ToSet(conn') PROVE Knows(client'[e], templates')
      BY <1>1, <2>1, <2>4, PlainConnKnows
    <3>1. CASE e = d
      BY <1>6, <1>8, <1>11, <2>2, <3>1 DEF Knows
    <3>2. CASE e # d
      <4>1. e \in ToSet(conn) /\ e \in Destinations
        BY <1>2, <2>3, <3>2 DEF IsMove
      <4>2. Knows(client[e], templates)
        BY <1>1, <4>1, PlainKnows
      <4> QED
        BY <1>6, <1>11, <3>2, <4>1, <4>2
    <3> QED
      BY <3>1, <3>2
  <2>9. Numbers'
    <3> SUFFICES ASSUME NEW e \in Destinations \ Udp
                 PROVE  /\ NumberedClient(client'[e])
                        /\ e \in ToSet(disconn') \cup ToSet(ready') => Out(client'[e]) = <<>>
      BY DEF Numbers, NumberedClient, Out
    <3>1. /\ ToSet(disconn') \cup ToSet(ready') \subseteq ToSet(disconn) \cup ToSet(ready)
          /\ d \notin ToSet(disconn') \cup ToSet(ready')
      BY <1>2, <1>5, <1>6, <2>3 DEF IsMove
    <3> QED
      BY <1>11, <1>12, <2>2, <3>1
  <2> QED
    BY <1>11, <2>5, <2>6, <2>7, <2>8, <2>9 DEF IInv
<1>14. CASE r.status # "ok"
  <2>1. conn' = conn /\ ready' = ready /\ main' = [main EXCEPT !.idx = @ + 1]
    BY <1>7, <1>14
  <2>2. r.client.seq = client[d].seq /\ Out(r.client) = <<>>
    BY <1>10, <1>14 DEF PacketResult
  <2>3. main' = [pc |-> "resend", idx |-> main.idx + 1, pkt |-> main.pkt]
    BY <1>4, <2>1
  <2>4. main' \in ResendMains /\ main'.pc = "resend"
    BY <1>4, <2>3 DEF ResendMains
  <2>5. Types'
    BY <1>1, <1>6, <1>11, <2>1, <2>4 DEF Types
  <2>6. OneGroup'
    <3>1. /\ conn' \in Seq(Destinations) /\ disconn' \in Seq(Destinations)
          /\ ready' \in Seq(Destinations)
          /\ Len(conn') + Len(disconn') + Len(ready') = Cardinality(Destinations)
          /\ ToSet(conn') \cup ToSet(disconn') \cup ToSet(ready') = Destinations
      BY <1>2, <1>3, <1>6, <2>1
    <3> QED
      BY <3>1, OneGroupFrom
  <2>7. MessageClear' /\ ResendInv' /\ OthersInv' /\ NextInv'
    <3>1. main'.idx > 0 /\ main'.pkt = Packet(templates', NULL)
      BY <1>4, <1>6, <2>3
    <3> QED
      BY <2>4, <3>1 DEF MessageClear, ResendInv, OthersInv, NextInv
  <2>8. ConnKnows'
    <3> SUFFICES ASSUME NEW e \in ToSet(conn') PROVE Knows(client'[e], templates')
      BY <1>3, <2>1, <2>4, PlainConnKnows
    <3>1. e \in ToSet(conn) /\ e \in Destinations /\ e # d
      BY <1>2, <1>5, <2>1
    <3>2. Knows(client[e], templates)
      BY <1>1, <3>1, PlainKnows
    <3> QED
      BY <1>6, <1>11, <3>1, <3>2
  <2>9. Numbers'
    <3> SUFFICES ASSUME NEW e \in Destinations \ Udp
                 PROVE  /\ NumberedClient(client'[e])
                        /\ e \in ToSet(disconn') \cup ToSet(ready') => Out(client'[e]) = <<>>
      BY DEF Numbers, NumberedClient, Out
    <3>1. ToSet(disconn') = ToSet(disconn) /\ ToSet(ready') = ToSet(ready)
      BY <1>6, <2>1
    <3>2. CASE e = d
      <4>1. Out(client[e]) = <<>> /\ client[e].seq = 0
        BY <1>5, <1>12, <3>2, NothingOut DEF NumberedClient
      <4> QED
        BY <1>11, <2>2, <3>2, <4>1, NothingOut DEF NumberedClient
    <3>3. CASE e # d
      BY <1>11, <1>12, <3>1, <3>3
    <3> QED
      BY <3>2, <3>3
  <2> QED
    BY <1>11, <2>5, <2>6, <2>7, <2>8, <2>9 DEF IInv
<1> QED
  BY <1>13, <1>14


-----------------------------------------------------------------------------
(***************************************************************************)
(* A message.                                                              *)
(***************************************************************************)

LEMMA OnePacket ==
  ASSUME NEW a \in PacketSet
  PROVE  /\ <<a>> \in Seq(PacketSet) /\ DOMAIN <<a>> = {1} /\ <<a>>[1] = a
         /\ NewTemplates(<<a>>) = a.tmplts
<1> DEFINE s == <<a>>
<1>1. s \in Seq(PacketSet) /\ DOMAIN s = {1} /\ s[1] = a
  <2>1. s \in Seq(PacketSet) /\ Len(s) = 1 /\ s[1] = a
    OBVIOUS
  <2> HIDE DEF s
  <2>2. DOMAIN s = 1..1
    BY <2>1
  <2> QED
    BY <2>1, <2>2
<1> HIDE DEF s
<1>2. NewTemplates(s) = a.tmplts
  BY <1>1 DEF NewTemplates
<1> QED
  BY <1>1, <1>2 DEF s

LEMMA TwoPackets ==
  ASSUME NEW a \in PacketSet, NEW b \in PacketSet
  PROVE  /\ <<a, b>> \in Seq(PacketSet) /\ DOMAIN <<a, b>> = {1, 2}
         /\ <<a, b>>[1] = a /\ <<a, b>>[2] = b
         /\ NewTemplates(<<a, b>>) = a.tmplts \cup b.tmplts
<1> DEFINE s == <<a, b>>
<1>1. s \in Seq(PacketSet) /\ DOMAIN s = {1, 2} /\ s[1] = a /\ s[2] = b
  <2>1. s \in Seq(PacketSet) /\ Len(s) = 2 /\ s[1] = a /\ s[2] = b
    OBVIOUS
  <2> HIDE DEF s
  <2>2. DOMAIN s = 1..2
    BY <2>1
  <2> QED
    BY <2>1, <2>2
<1> HIDE DEF s
<1>2. NewTemplates(s) = a.tmplts \cup b.tmplts
  BY <1>1 DEF NewTemplates
<1> QED
  BY <1>1, <1>2 DEF s

\* A message that can be understood by who knows old.
ClearMessage(pkts, old) ==
  /\ pkts \in Seq(PacketSet)
  /\ NewTemplates(pkts) \subseteq Templates
  /\ \A k \in DOMAIN pkts : pkts[k].data # NULL =>
       pkts[k].data \in (old \ NewTemplates(pkts))
                        \cup UNION {pkts[j].tmplts : j \in 1..k}

LEMMA MessagesClear ==
  ASSUME Types, NEW t \in Templates, NEW pkts \in MessagesOf(t)
  PROVE  ClearMessage(pkts, templates)
<1> DEFINE d == Packet({}, t)
           n == Packet({t}, NULL)
           b == Packet({t}, t)
<1>1. /\ d \in PacketSet /\ d.tmplts = {} /\ d.data = t
      /\ n \in PacketSet /\ n.tmplts = {t} /\ n.data = NULL
      /\ b \in PacketSet /\ b.tmplts = {t} /\ b.data = t
  BY DEF Packet, PacketSet
<1>2. /\ t \in templates /\ pkts \in {<<d>>, <<d, d>>}
      \/ pkts \in {<<n>>, <<b>>, <<n, d>>}
  BY DEF MessagesOf
<1> HIDE DEF d, n, b
<1>3. CASE t \in templates /\ pkts = <<d>>
  BY <1>1, <1>3, OnePacket DEF ClearMessage
<1>4. CASE t \in templates /\ pkts = <<d, d>>
  BY <1>1, <1>4, TwoPackets DEF ClearMessage
<1>5. CASE pkts = <<n>>
  BY <1>1, <1>5, OnePacket DEF ClearMessage
<1>6. CASE pkts = <<b>>
  <2>1. 1 \in 1..1
    OBVIOUS
  <2> QED
    BY <1>1, <1>6, <2>1, OnePacket DEF ClearMessage
<1>7. CASE pkts = <<n, d>>
  <2>1. 1 \in 1..2
    OBVIOUS
  <2>2. /\ pkts \in Seq(PacketSet) /\ DOMAIN pkts = {1, 2}
        /\ pkts[1] = n /\ pkts[2] = d /\ NewTemplates(pkts) = {t}
    BY <1>1, <1>7, TwoPackets
  <2> QED
    BY <1>1, <2>1, <2>2 DEF ClearMessage
<1> QED
  BY <1>2, <1>3, <1>4, <1>5, <1>6, <1>7

LEMMA NothingClear ==
  ASSUME NEW old
  PROVE  ClearMessage(<<>>, old)
<1>1. <<>> \in Seq(PacketSet)
  OBVIOUS
<1>2. DOMAIN <<>> = {}
  OBVIOUS
<1> QED
  BY <1>1, <1>2 DEF ClearMessage, NewTemplates

LEMMA Modulo ==
  ASSUME NEW x \in Nat, NEW n \in Nat, n > 0
  PROVE  /\ (x % n) \in Nat /\ (x % n) < n
         /\ x < n => (x % n) = x
         /\ x = n => (x % n) = 0
  OBVIOUS

\* A walk that starts has the whole group before it.
LEMMA WalkStarts ==
  ASSUME NEW p \in Nat, NEW t \in Nat, NEW n \in Nat, p < n, t < n
  PROVE  Within(p, t, n, n)
  BY DEF Within

LEMMA ParseStep ==
  ASSUME IInv, NEW pkts, ClearMessage(pkts, templates), fwd_parse_msg(pkts)
  PROVE  IInv'
<1>1. Types /\ OneGroup /\ main.pc # "closed" /\ ConnKnows /\ main.pc \in PlainPcs
  BY DEF IInv, fwd_parse_msg, PlainPcs
<1>2. /\ templates' = templates \cup NewTemplates(pkts)
      /\ main' = IF mode = "all" THEN Others(pkts, -1, NewTemplates(pkts) # {})
                                 ELSE InTurn(pkts)
      /\ UNCHANGED <<mode, conn, disconn, ready, ready_empty, group_mtx, dst_idx, client,
                     messages, connections>>
  BY DEF fwd_parse_msg, groups
<1>3. /\ pkts \in Seq(PacketSet) /\ NewTemplates(pkts) \subseteq Templates
      /\ templates' \subseteq Templates /\ Len(conn) \in Nat /\ dst_idx \in Nat
      /\ conn \in Seq(Destinations) /\ Len(pkts) \in Nat
      /\ group_mtx' \in {NULL, "main"} /\ dst_idx' \in Nat
  BY <1>1, <1>2 DEF ClearMessage, Types
<1>4. main'.pkts = pkts /\ main'.k = 1 /\ main'.pc \in {"next", "others"}
  BY <1>2 DEF Others, InTurn
<1>5. New' = NewTemplates(pkts)
  BY <1>4 DEF New, NewTemplates
<1>6. MessageClear'
  <2>1. templates' \ New' = templates \ NewTemplates(pkts)
    BY <1>2, <1>5
  <2>2. 1 \in 1..(Len(pkts) + 1)
    BY <1>3
  <2> QED
    BY <1>4, <2>1, <2>2 DEF MessageClear, ClearMessage
<1>7. ResendInv'
  BY <1>4 DEF ResendInv
<1>8. ConnKnows'
  <2>1. SentBefore(main.k)' = {}
    <3>1. 1..(1 - 1) = {}
      OBVIOUS
    <3> QED
      BY <1>4, <3>1 DEF SentBefore
  <2>2. templates' \ New' \subseteq templates
    BY <1>2, <1>5
  <2>3. ASSUME NEW i \in DOMAIN conn PROVE KnownAt(i)' \subseteq templates
    <3>1. i \in Nat /\ i - 1 >= 0
      BY <1>3
    <3>2. CASE main'.pc = "others"
      <4>1. main'.idx = 0 /\ main'.except = -1
        BY <1>2, <3>2 DEF Others, InTurn
      <4>2. ~(i - 1 < main'.idx \/ i - 1 = main'.except)
        BY <3>1, <4>1
      <4> QED
        BY <2>1, <2>2, <3>2, <4>2 DEF KnownAt
    <3>3. CASE main'.pc = "next"
      BY <2>1, <2>2, <3>3 DEF KnownAt
    <3> QED
      BY <1>4, <3>2, <3>3
  <2> SUFFICES ASSUME NEW i \in DOMAIN conn PROVE Knows(client[conn[i]], KnownAt(i)')
    BY <1>2 DEF ConnKnows, Knows
  <2>4. Knows(client[conn[i]], templates)
    BY <1>1, PlainKnows DEF ToSet
  <2> QED
    BY <2>3, <2>4 DEF Knows
<1>9. CASE mode = "all"
  <2>1. main' = Others(pkts, -1, NewTemplates(pkts) # {})
    BY <1>2, <1>9
  <2>2. main' \in OthersMains /\ main'.pc = "others"
        /\ main'.required = (NewTemplates(pkts) # {})
    BY <1>3, <2>1 DEF Others, OthersMains
  <2>3. OthersInv' /\ NextInv'
    BY <1>4, <1>5, <2>2 DEF OthersInv, NextInv
  <2> QED
    BY <1>1, <1>2, <1>3, <1>6, <1>7, <1>8, <2>2, <2>3, OnlyMainStep
<1>10. CASE mode # "all"
  <2>1. main' = InTurn(pkts)
    BY <1>2, <1>10
  <2>2. /\ main'.pc = "next" /\ main'.new = NewTemplates(pkts) /\ main'.idx = dst_idx
        /\ main'.attempts = Len(conn) /\ main'.tried = {} /\ main'.start = ToSet(conn)
    BY <2>1 DEF InTurn
  <2>3. ToSet(conn) \subseteq Destinations
    BY <1>3 DEF ToSet
  <2>4. main' \in NextMains
    BY <1>3, <2>1, <2>3 DEF InTurn, NextMains
  <2>5. Untried' = ToSet(conn)
    <3>1. conn' = conn /\ DOMAIN conn = 1..Len(conn)
      BY <1>2, <1>3
    <3>2. ASSUME NEW j \in DOMAIN conn
          PROVE  Len(conn) > 0 /\ Within(j - 1, dst_idx % Len(conn), Len(conn), Len(conn))
      <4> DEFINE n == Len(conn)
                 t == dst_idx % n
      <4>1. n \in Nat /\ n > 0 /\ j - 1 \in Nat /\ j - 1 < n
        BY <1>3, <3>1
      <4>2. t \in Nat /\ t < n
        BY <1>3, <4>1, Modulo
      <4> HIDE DEF t, n
      <4>3. Within(j - 1, t, n, n)
        BY <4>1, <4>2, WalkStarts
      <4> QED
        BY <4>1, <4>3 DEF t, n
    <3>3. Untried' = {conn[i] : i \in {j \in DOMAIN conn :
             Len(conn) > 0 /\ Within(j - 1, dst_idx % Len(conn), Len(conn), Len(conn))}}
      BY <2>2, <3>1 DEF Untried, Turn, Within
    <3> QED
      BY <3>2, <3>3 DEF ToSet
  <2>6. NextInv'
    <3>1. Len(conn') = Len(conn)
      BY <1>2
    <3> QED
      BY <1>3, <1>5, <2>2, <2>5, <3>1 DEF NextInv
  <2>7. OthersInv'
    BY <2>2 DEF OthersInv
  <2> QED
    BY <1>1, <1>2, <1>3, <1>6, <1>7, <1>8, <2>4, <2>6, <2>7, OnlyMainStep
<1> QED
  BY <1>9, <1>10

LEMMA ParseMessageStep ==
  ASSUME IInv, ParseMessage
  PROVE  IInv'
<1>1. Types
  BY DEF IInv
<1>2. CASE \E t \in Templates : \E pkts \in MessagesOf(t) : fwd_parse_msg(pkts)
  BY <1>1, <1>2, MessagesClear, ParseStep
<1>3. CASE fwd_parse_msg(<<>>)
  BY <1>3, NothingClear, ParseStep
<1> QED
  BY <1>2, <1>3 DEF ParseMessage


\* The packets before k, the next one, and all of them.
LEMMA SentFacts ==
  ASSUME main.pkts \in Seq(PacketSet), main.k \in 1..(Len(main.pkts) + 1)
  PROVE  /\ SentBefore(1) = {}
         /\ SentBefore(main.k) \subseteq New
         /\ SentBefore(Len(main.pkts) + 1) = New
         /\ main.k \in DOMAIN main.pkts =>
              /\ SentBefore(main.k + 1) = SentBefore(main.k) \cup main.pkts[main.k].tmplts
              /\ UNION {main.pkts[j].tmplts : j \in 1..main.k}
                   = SentBefore(main.k) \cup main.pkts[main.k].tmplts
<1> DEFINE n == Len(main.pkts)
           k == main.k
<1>1. n \in Nat /\ DOMAIN main.pkts = 1..n /\ k \in Nat /\ k > 0 /\ k <= n + 1
  OBVIOUS
<1> HIDE DEF n, k
<1>2. 1..(1 - 1) = {} /\ 1..(k - 1) \subseteq 1..n /\ 1..((n + 1) - 1) = 1..n
      /\ 1..((k + 1) - 1) = 1..k /\ 1..k = 1..(k - 1) \cup {k}
  BY <1>1
<1>3. SentBefore(1) = {} /\ SentBefore(k) \subseteq New /\ SentBefore(n + 1) = New
  BY <1>1, <1>2 DEF SentBefore, New, NewTemplates
<1>4. UNION {main.pkts[j].tmplts : j \in 1..k} = SentBefore(k) \cup main.pkts[k].tmplts
  BY <1>2 DEF SentBefore
<1>5. SentBefore(k + 1) = UNION {main.pkts[j].tmplts : j \in 1..k}
  BY <1>2 DEF SentBefore
<1> QED
  BY <1>3, <1>4, <1>5 DEF n, k

\* What is true after a packet was given to d = conn[p].
SentTo(r, d, p, required, pkt) ==
  /\ conn' \in Seq(Destinations) /\ disconn' \in Seq(Destinations)
  /\ client' \in [Destinations -> Clients]
  /\ OneGroup' /\ ClientsGood' /\ Numbers'
  /\ \A e \in Destinations : e # d => client'[e] = client[e]
  /\ \/ r.status = "closed" /\ IsRemoved(conn', conn, p, Destinations)
     \/ /\ r.status = "busy" /\ ~required /\ conn' = conn
        /\ client'[d].open = client[d].open
        /\ Announced(Out(client'[d])) = Announced(Out(client[d]))
     \/ /\ r.status = "ok" /\ conn' = conn
        /\ client[d].open
        /\ Announced(Out(client'[d])) = Announced(Out(client[d])) \cup pkt.tmplts

LEMMA SentFactsOf ==
  ASSUME IInv, main.pc # "closed", NEW p \in 1..Len(conn), NEW d, d = conn[p],
         NEW pkt \in PacketSet, NEW required \in BOOLEAN, NEW T,
         Knows(client[d], T), pkt.data # NULL => pkt.data \in T \cup pkt.tmplts,
         NEW r \in SendPacket(d, pkt, required), dest_move_to_dc(d, r), ready' = ready
  PROVE  SentTo(r, d, p, required, pkt)
<1>1. Types /\ OneGroup /\ ClientsGood
  BY DEF IInv
<1>2. /\ Len(conn) + Len(disconn) + Len(ready) = Cardinality(Destinations)
      /\ ToSet(conn) \cup ToSet(disconn) \cup ToSet(ready) = Destinations
      /\ Injective(conn)
      /\ ToSet(conn) \cap ToSet(disconn) = {} /\ ToSet(conn) \cap ToSet(ready) = {}
  BY <1>1, GroupFacts
<1>3. /\ conn \in Seq(Destinations) /\ disconn \in Seq(Destinations)
      /\ ready \in Seq(Destinations)
      /\ Len(conn) \in Nat /\ Len(disconn) \in Nat /\ Len(ready) \in Nat
  BY <1>1 DEF Types
<1>4. d \in Destinations /\ d \in ToSet(conn)
  BY <1>3 DEF ToSet
<1>5. GoodClient(client[d])
  BY <1>1, <1>4 DEF ClientsGood
<1>6. PacketResult(r, client[d], required, pkt)
  <2>1. /\ pkt.data # NULL /\ client[d].open
        => pkt.data \in Announced(Out(client[d])) \cup pkt.tmplts
    BY DEF Knows
  <2> QED
    BY <1>1, <1>4, <1>5, <2>1, PacketFacts
<1> DEFINE c == IF r.status = "closed" THEN [r.client EXCEPT !.seq = 0] ELSE r.client
<1>7. client' = [client EXCEPT ![d] = c]
  BY DEF dest_move_to_dc
<1>8. /\ GoodClient(c) /\ c.open = r.client.open /\ Out(c) = Out(r.client)
      /\ r.status = "closed" => c.seq = 0
      /\ r.status # "closed" => c = r.client
  <2>1. GoodClient(r.client) /\ r.client \in Clients
    BY <1>6 DEF PacketResult, GoodClient
  <2>2. /\ c \in Clients /\ c.open = r.client.open /\ c.stream = r.client.stream
        /\ c.buffer = r.client.buffer
        /\ r.status = "closed" => c.seq = 0
        /\ r.status # "closed" => c = r.client
    BY <2>1 DEF Clients
  <2> HIDE DEF c
  <2> QED
    BY <2>1, <2>2 DEF GoodClient, CleanIfClosed, Out
<1> HIDE DEF c
<1>9. /\ client' \in [Destinations -> Clients] /\ ClientsGood'
      /\ client'[d] = c
      /\ \A e \in Destinations : e # d => client'[e] = client[e]
  BY <1>1, <1>4, <1>7, <1>8, ClientUpdated
<1>10. \A e \in Destinations \ Udp :
         /\ NumberedClient(client[e])
         /\ e \in ToSet(disconn) \cup ToSet(ready) => Out(client[e]) = <<>>
  BY DEF IInv, Numbers
<1>11. CASE r.status = "closed"
  <2>1. conn' = group_remove(conn, d) /\ disconn' = Append(disconn, d)
    BY <1>11 DEF dest_move_to_dc
  <2>2. IsMove(conn, disconn, conn', disconn', {d})
    BY <1>2, <1>3, <2>1, MoveOneFacts
  <2>3. IsRemoved(conn', conn, p, Destinations)
    BY <1>2, <1>3, <2>1, RemoveFacts
  <2>4. /\ conn' \in Seq(Destinations) /\ disconn' \in Seq(Destinations)
        /\ Len(conn') + Len(disconn') + Len(ready) = Cardinality(Destinations)
        /\ ToSet(conn') \cup ToSet(disconn') \cup ToSet(ready) = Destinations
    BY <1>2, <1>3, <2>2, MoveKeeps
  <2>5. OneGroup'
    BY <1>3, <2>4, OneGroupFrom
  <2>6. Numbers'
    <3> SUFFICES ASSUME NEW e \in Destinations \ Udp
                 PROVE  /\ NumberedClient(client'[e])
                        /\ e \in ToSet(disconn') \cup ToSet(ready') => Out(client'[e]) = <<>>
      BY DEF Numbers, NumberedClient, Out
    <3>1. CASE e = d
      <4>1. Out(c) = <<>> /\ c.seq = 0
        BY <1>6, <1>8, <1>11 DEF PacketResult
      <4> QED
        BY <1>9, <3>1, <4>1, NothingOut DEF NumberedClient
    <3>2. CASE e # d
      <4>1. e \in ToSet(disconn') \cup ToSet(ready') => e \in ToSet(disconn) \cup ToSet(ready)
        BY <2>2, <3>2 DEF IsMove
      <4> QED
        BY <1>9, <1>10, <3>2, <4>1
    <3> QED
      BY <3>1, <3>2
  <2> QED
    BY <1>9, <1>11, <2>3, <2>4, <2>5, <2>6 DEF SentTo
<1>12. CASE r.status # "closed"
  <2>1. conn' = conn /\ disconn' = disconn
    BY <1>12 DEF dest_move_to_dc
  <2>2. OneGroup'
    BY <1>2, <1>3, <2>1, OneGroupFrom
  <2>3. client'[d] = r.client
    BY <1>8, <1>9, <1>12
  <2>4. Numbers'
    <3> SUFFICES ASSUME NEW e \in Destinations \ Udp
                 PROVE  /\ NumberedClient(client'[e])
                        /\ e \in ToSet(disconn') \cup ToSet(ready') => Out(client'[e]) = <<>>
      BY DEF Numbers, NumberedClient, Out
    <3>1. CASE e = d
      <4>1. e \notin ToSet(disconn') \cup ToSet(ready')
        BY <1>2, <1>4, <2>1, <3>1
      <4>2. NumberedClient(client[d]) => NumberedClient(r.client)
        BY <1>6, <1>12 DEF PacketResult
      <4> QED
        BY <1>10, <2>3, <3>1, <4>1, <4>2
    <3>2. CASE e # d
      BY <1>9, <1>10, <2>1, <3>2
    <3> QED
      BY <3>1, <3>2
  <2>5. conn' \in Seq(Destinations) /\ disconn' \in Seq(Destinations)
    BY <1>3, <2>1
  <2> QED
    BY <1>6, <1>9, <1>12, <2>1, <2>2, <2>3, <2>4, <2>5 DEF SentTo, PacketResult
<1> QED
  BY <1>11, <1>12


-----------------------------------------------------------------------------
(***************************************************************************)
(* dest_send_except_one.                                                   *)
(***************************************************************************)

\* KnownAt in the loop at place x, with y left out, before packet z.
OthersKnown(i, x, y, z) ==
  IF i - 1 < x \/ i - 1 = y THEN templates
  ELSE IF i - 1 = x THEN (templates \ New) \cup SentBefore(z)
  ELSE templates \ New

\* The loop goes on at place x, with y left out, at packet z.
OthersGo(x, y, z) ==
  /\ main' \in OthersMains /\ main'.pc = "others"
  /\ main'.pkts = main.pkts /\ main'.required = main.required
  /\ main'.idx = x /\ main'.except = y /\ main'.k = z

OthersRecord(x, y, z) ==
  [pc |-> "others", pkts |-> main.pkts, required |-> main.required, k |-> z, idx |-> x,
   except |-> y]

LEMMA OthersGoes ==
  ASSUME main \in OthersMains, NEW x \in Nat, NEW y \in Int, NEW z \in Nat,
         main' = OthersRecord(x, y, z)
  PROVE  OthersGo(x, y, z)
  BY DEF OthersMains, OthersGo, OthersRecord

LEMMA OthersNow ==
  ASSUME IInv, main.pc = "others"
  PROVE  /\ main \in OthersMains /\ Types /\ main.idx \in Nat /\ main.except \in Int
         /\ main.k \in 1..(Len(main.pkts) + 1) /\ main.pkts \in Seq(PacketSet)
         /\ Len(main.pkts) \in Nat /\ Len(conn) \in Nat /\ DOMAIN conn = 1..Len(conn)
         /\ conn \in Seq(Destinations) /\ templates \subseteq Templates
         /\ main.required \in BOOLEAN
         /\ main.required \/ New = {}
         /\ main.except = main.idx => main.k = 1
         /\ \A i \in DOMAIN conn :
              Knows(client[conn[i]], OthersKnown(i, main.idx, main.except, main.k))
<1>1. main \in OthersMains /\ Types
  BY MainShapes DEF IInv
<1>2. main.idx \in Nat /\ main.except \in Int /\ main.pkts \in Seq(PacketSet)
      /\ main.required \in BOOLEAN
  BY <1>1 DEF OthersMains
<1>3. conn \in Seq(Destinations) /\ templates \subseteq Templates
  BY <1>1 DEF Types
<1>4. /\ main.k \in 1..(Len(main.pkts) + 1)
      /\ main.required \/ New = {}
      /\ main.except = main.idx => main.k = 1
  BY DEF IInv, MessageClear, OthersInv
<1>5. \A i : KnownAt(i) = OthersKnown(i, main.idx, main.except, main.k)
  BY DEF KnownAt, OthersKnown
<1> QED
  BY <1>1, <1>2, <1>3, <1>4, <1>5 DEF IInv, ConnKnows

LEMMA OthersNext ==
  ASSUME IInv, main.pc = "others", templates' = templates,
         NEW x \in Nat, NEW y \in Int, NEW z \in 1..(Len(main.pkts) + 1),
         y = x => z = 1, OthersGo(x, y, z)
  PROVE  /\ MessageClear' /\ ResendInv' /\ OthersInv' /\ NextInv'
         /\ \A i : KnownAt(i)' = OthersKnown(i, x, y, z)
<1>1. main'.pc = "others" /\ main'.pkts = main.pkts /\ main'.required = main.required
      /\ main'.idx = x /\ main'.except = y /\ main'.k = z
  BY DEF OthersGo
<1>2. New' = New
  BY <1>1 DEF New, NewTemplates
<1>3. SentBefore(main.k)' = SentBefore(z)
  BY <1>1 DEF SentBefore
<1>4. MessageClear'
  BY <1>1, <1>2 DEF IInv, MessageClear
<1>5. ResendInv' /\ NextInv'
  BY <1>1 DEF ResendInv, NextInv
<1>6. OthersInv'
  BY <1>1, <1>2 DEF IInv, OthersInv
<1>7. \A i : KnownAt(i)' = OthersKnown(i, x, y, z)
  BY <1>1, <1>2, <1>3 DEF KnownAt, OthersKnown
<1> QED
  BY <1>4, <1>5, <1>6, <1>7

\* Steps of the loop that send nothing.
LEMMA OthersMoves ==
  ASSUME IInv, main.pc = "others",
         UNCHANGED <<mode, conn, disconn, ready, ready_empty, group_mtx, dst_idx, client,
                     templates, messages, connections>>,
         NEW x \in Nat, NEW y \in Int, NEW z \in 1..(Len(main.pkts) + 1),
         y = x => z = 1, OthersGo(x, y, z),
         \A i \in DOMAIN conn :
           OthersKnown(i, x, y, z) \subseteq OthersKnown(i, main.idx, main.except, main.k)
  PROVE  IInv'
<1>1. /\ MessageClear' /\ ResendInv' /\ OthersInv' /\ NextInv'
      /\ \A i : KnownAt(i)' = OthersKnown(i, x, y, z)
  BY OthersNext
<1>2. ConnKnows'
  <2> SUFFICES ASSUME NEW i \in DOMAIN conn PROVE Knows(client[conn[i]], KnownAt(i)')
    BY DEF ConnKnows, Knows
  <2> QED
    BY <1>1, OthersNow DEF Knows
<1>3. main' \in OthersMains
  BY DEF OthersGo
<1>4. group_mtx' \in {NULL, "main"} /\ dst_idx' \in Nat /\ templates' \subseteq Templates
  BY DEF IInv, Types
<1> QED
  BY <1>1, <1>2, <1>3, <1>4, OnlyMainStep

LEMMA OthersSkipStep ==
  ASSUME IInv, OthersSkip
  PROVE  IInv'
<1>1. main.pc = "others" /\ main.except = main.idx /\ main.idx < Len(conn)
      /\ main' = [main EXCEPT !.idx = @ + 1]
      /\ UNCHANGED <<mode, conn, disconn, ready, ready_empty, group_mtx, dst_idx, client,
                     templates, messages, connections>>
  BY DEF OthersSkip, unchanged_by_send
<1>2. /\ main \in OthersMains /\ main.idx \in Nat /\ main.except \in Int
      /\ main.pkts \in Seq(PacketSet) /\ Len(main.pkts) \in Nat /\ Len(conn) \in Nat
      /\ main.k = 1 /\ DOMAIN conn = 1..Len(conn) /\ main.k \in 1..(Len(main.pkts) + 1)
  BY <1>1, OthersNow
<1> DEFINE x == main.idx + 1
           y == main.except
<1>3. OthersGo(x, y, 1) /\ x \in Nat /\ y # x
  BY <1>1, <1>2 DEF OthersGo, OthersMains
<1>4. ASSUME NEW i \in DOMAIN conn
      PROVE  OthersKnown(i, x, y, 1) \subseteq OthersKnown(i, main.idx, main.except, main.k)
  <2>1. i \in Nat /\ (i - 1 < x => i - 1 < main.idx \/ i - 1 = main.except)
    BY <1>1, <1>2
  <2>2. SentBefore(1) = {}
    BY <1>2, SentFacts
  <2> QED
    BY <1>2, <2>1, <2>2 DEF OthersKnown
<1>5. 1 \in 1..(Len(main.pkts) + 1)
  BY <1>2
<1> QED
  <2> HIDE DEF x, y
  <2>1. y \in Int
    BY <1>2 DEF y
  <2> QED
    BY <1>1, <1>3, <1>4, <1>5, <2>1, OthersMoves

LEMMA OthersDoneStep ==
  ASSUME IInv, OthersDone
  PROVE  IInv'
<1>1. main.pc = "others" /\ main.except # main.idx /\ main.idx < Len(conn)
      /\ main.k > Len(main.pkts)
      /\ main' = [main EXCEPT !.k = 1, !.idx = @ + 1]
      /\ UNCHANGED <<mode, conn, disconn, ready, ready_empty, group_mtx, dst_idx, client,
                     templates, messages, connections>>
  BY DEF OthersDone, unchanged_by_send
<1>2. /\ main \in OthersMains /\ main.idx \in Nat /\ main.except \in Int
      /\ main.pkts \in Seq(PacketSet) /\ Len(main.pkts) \in Nat /\ Len(conn) \in Nat
      /\ DOMAIN conn = 1..Len(conn) /\ main.k \in 1..(Len(main.pkts) + 1)
  BY <1>1, OthersNow
<1> DEFINE x == main.idx + 1
           y == main.except
<1>3. OthersGo(x, y, 1) /\ x \in Nat
  <2>1. main' = OthersRecord(x, y, 1)
    BY <1>1, <1>2 DEF OthersMains, OthersRecord
  <2>2. x \in Nat /\ y \in Int
    BY <1>2
  <2> HIDE DEF x, y
  <2> QED
    BY <1>2, <2>1, <2>2, OthersGoes
<1>4. ASSUME NEW i \in DOMAIN conn
      PROVE  OthersKnown(i, x, y, 1) \subseteq OthersKnown(i, main.idx, main.except, main.k)
  <2>1. i \in Nat /\ (i - 1 < x => i - 1 < main.idx \/ i - 1 = main.idx)
        /\ ~(main.idx < main.idx)
    BY <1>1, <1>2
  <2>2. main.k = Len(main.pkts) + 1
    BY <1>1, <1>2
  <2>3. SentBefore(1) = {} /\ SentBefore(main.k) = New
    BY <1>2, <2>2, SentFacts
  <2>4. CASE i - 1 = main.idx
    <3>1. OthersKnown(i, main.idx, main.except, main.k) = (templates \ New) \cup New
      BY <1>1, <2>1, <2>3, <2>4 DEF OthersKnown
    <3> QED
      BY <2>3, <3>1 DEF OthersKnown
  <2>5. CASE i - 1 # main.idx
    BY <2>1, <2>3, <2>5 DEF OthersKnown
  <2> QED
    BY <2>4, <2>5
<1>5. 1 \in 1..(Len(main.pkts) + 1)
  BY <1>2
<1> QED
  <2> HIDE DEF x, y
  <2>1. y \in Int
    BY <1>2 DEF y
  <2> QED
    BY <1>1, <1>3, <1>4, <1>5, <2>1, OthersMoves

LEMMA OthersEndStep ==
  ASSUME IInv, OthersEnd
  PROVE  IInv'
<1>1. main.pc = "others" /\ main.pc # "closed" /\ main.idx >= Len(conn) /\ main' = Idle
      /\ UNCHANGED <<mode, conn, disconn, ready, ready_empty, group_mtx, dst_idx, client,
                     templates, messages, connections>>
  BY DEF OthersEnd, unchanged_by_send
<1>2. main'.pc \in PlainPcs /\ main' \in PlainMains
  BY <1>1 DEF Idle, PlainPcs, PlainMains
<1>3. MessageClear' /\ ResendInv' /\ OthersInv' /\ NextInv'
  BY <1>2, PlainMain
<1>4. ASSUME NEW i \in DOMAIN conn PROVE Knows(client[conn[i]], templates)
  <2>1. OthersKnown(i, main.idx, main.except, main.k) = templates
    <3>1. i - 1 < main.idx
      BY <1>1, OthersNow
    <3> QED
      BY <3>1 DEF OthersKnown
  <2> QED
    BY <1>1, <2>1, OthersNow
<1>5. ConnKnows'
  <2>1. conn' \in Seq(Destinations)
    BY <1>1, OthersNow
  <2>2. \A d \in ToSet(conn') : Knows(client'[d], templates')
    BY <1>1, <1>4 DEF ToSet
  <2> QED
    BY <1>2, <2>1, <2>2, PlainConnKnows
<1>6. group_mtx' \in {NULL, "main"} /\ dst_idx' \in Nat /\ templates' \subseteq Templates
  BY <1>1 DEF IInv, Types
<1> QED
  BY <1>1, <1>2, <1>3, <1>5, <1>6, OnlyMainStep


\* The places of a group without the member at p.
LEMMA RemovedPlaces ==
  ASSUME NEW s, NEW t \in Seq(Destinations), NEW p \in 1..Len(t), Injective(t),
         IsRemoved(s, t, p, Destinations)
  PROVE  /\ DOMAIN s = 1..(Len(t) - 1) /\ Len(s) = Len(t) - 1
         /\ \A i \in DOMAIN s : i < p => i \in DOMAIN t /\ s[i] = t[i] /\ s[i] # t[p]
         /\ \A i \in DOMAIN s : i >= p => i + 1 \in DOMAIN t /\ s[i] = t[i + 1] /\ s[i] # t[p]
<1> DEFINE n == Len(t)
<1>1. n \in Nat /\ DOMAIN t = 1..n /\ p \in Nat /\ p >= 1 /\ p <= n
  OBVIOUS
<1>2. /\ s \in Seq(Destinations) /\ Len(s) = n - 1
      /\ \A i \in 1..(p - 1) : s[i] = t[i]
      /\ \A i \in p..(n - 1) : s[i] = t[i + 1]
  BY DEF IsRemoved
<1> HIDE DEF n
<1>3. DOMAIN s = 1..(n - 1)
  BY <1>2
<1>4. ASSUME NEW i \in 1..(n - 1), i < p
      PROVE  i \in DOMAIN t /\ s[i] = t[i] /\ s[i] # t[p]
  <2>1. i \in 1..(p - 1) /\ i \in 1..n /\ p \in 1..n /\ i # p
    BY <1>1, <1>4
  <2> QED
    BY <1>1, <1>2, <2>1 DEF Injective
<1>5. ASSUME NEW i \in 1..(n - 1), i >= p
      PROVE  i + 1 \in DOMAIN t /\ s[i] = t[i + 1] /\ s[i] # t[p]
  <2>1. i \in p..(n - 1) /\ i + 1 \in 1..n /\ p \in 1..n /\ i + 1 # p
    BY <1>1, <1>5
  <2> QED
    BY <1>1, <1>2, <2>1 DEF Injective
<1> QED
  BY <1>2, <1>3, <1>4, <1>5 DEF n

LEMMA OthersPacketStep ==
  ASSUME IInv, OthersPacket
  PROVE  IInv'
<1>1. /\ main.pc = "others" /\ main.pc # "closed" /\ main.except # main.idx
      /\ main.idx < Len(conn) /\ main.k <= Len(main.pkts)
      /\ UNCHANGED <<mode, ready, ready_empty, group_mtx, templates, messages, connections,
                     dst_idx>>
  BY DEF OthersPacket, unchanged_by_send
<1>2. /\ main \in OthersMains /\ main.idx \in Nat /\ main.except \in Int
      /\ main.pkts \in Seq(PacketSet) /\ Len(main.pkts) \in Nat /\ Len(conn) \in Nat
      /\ DOMAIN conn = 1..Len(conn) /\ main.k \in 1..(Len(main.pkts) + 1)
      /\ conn \in Seq(Destinations) /\ Types /\ main.required \in BOOLEAN
      /\ main.required \/ New = {}
  BY <1>1, OthersNow
<1>3. \A i \in DOMAIN conn :
        Knows(client[conn[i]], OthersKnown(i, main.idx, main.except, main.k))
  BY <1>1, OthersNow
<1> DEFINE x == main.idx
           y == main.except
           p == x + 1
           d == conn[p]
           k == main.k
           pkt == main.pkts[k]
           required == Required(main.required)
<1>4. p \in 1..Len(conn) /\ p - 1 = x /\ k \in DOMAIN main.pkts /\ k \in Nat
      /\ k + 1 \in 1..(Len(main.pkts) + 1) /\ 1 \in 1..(Len(main.pkts) + 1)
      /\ required \in BOOLEAN /\ (~required => ~main.required /\ k = 1)
  BY <1>1, <1>2 DEF Required
<1>5. PICK r \in SendPacket(d, pkt, required) :
       /\ dest_move_to_dc(d, r)
       /\ main' = CASE r.status = "ok"     -> [main EXCEPT !.k = @ + 1]
                    [] r.status = "busy"   -> [main EXCEPT !.k = 1, !.idx = @ + 1]
                    [] r.status = "closed" -> [main EXCEPT !.k = 1, !.except = @ - 1]
  BY DEF OthersPacket
<1>6. pkt \in PacketSet /\ d \in Destinations
  BY <1>2, <1>4
<1>7. /\ SentBefore(1) = {} /\ SentBefore(k) \subseteq New
      /\ SentBefore(k + 1) = SentBefore(k) \cup pkt.tmplts
      /\ UNION {main.pkts[j].tmplts : j \in 1..k} = SentBefore(k) \cup pkt.tmplts
  BY <1>2, <1>4, SentFacts
<1> DEFINE T == (templates \ New) \cup SentBefore(k)
<1>8. Knows(client[d], T)
  <2>1. ~(p - 1 < x) /\ p - 1 # y /\ p - 1 = x
    BY <1>1, <1>2, <1>4
  <2>2. OthersKnown(p, x, y, k) = T
    BY <2>1 DEF OthersKnown
  <2> QED
    BY <1>2, <1>3, <1>4, <2>2
<1>9. pkt.data # NULL => pkt.data \in T \cup pkt.tmplts
  <2>1. pkt.data # NULL => pkt.data \in (templates \ New)
                                        \cup UNION {main.pkts[j].tmplts : j \in 1..k}
    BY <1>1, <1>4 DEF IInv, MessageClear
  <2> QED
    BY <1>7, <2>1
<1>10. Injective(conn)
  BY <1>1, <1>2, GroupFacts DEF IInv
<1> HIDE DEF d, p, pkt, required, T
<1>11. SentTo(r, d, p, required, pkt)
  <2>1. d = conn[p]
    BY DEF d
  <2> QED
    BY <1>1, <1>4, <1>5, <1>6, <1>8, <1>9, <2>1, SentFactsOf
<1>12. /\ conn' \in Seq(Destinations) /\ disconn' \in Seq(Destinations)
       /\ client' \in [Destinations -> Clients]
       /\ OneGroup' /\ ClientsGood' /\ Numbers'
       /\ \A e \in Destinations : e # d => client'[e] = client[e]
  BY <1>11 DEF SentTo
<1>13. \A i \in DOMAIN conn : i # p => conn[i] # d /\ conn[i] \in Destinations
  BY <1>2, <1>4, <1>10 DEF Injective, d
<1>14. ASSUME NEW x1 \in Nat, NEW y1 \in Int, NEW z1 \in 1..(Len(main.pkts) + 1),
              y1 = x1 => z1 = 1, OthersGo(x1, y1, z1),
              \A i \in DOMAIN conn' : Knows(client'[conn'[i]], OthersKnown(i, x1, y1, z1))
       PROVE  IInv'
  <2>1. /\ MessageClear' /\ ResendInv' /\ OthersInv' /\ NextInv'
        /\ \A i : KnownAt(i)' = OthersKnown(i, x1, y1, z1)
    BY <1>1, <1>14, OthersNext
  <2>2. ConnKnows'
    BY <1>14, <2>1 DEF ConnKnows, Knows
  <2>3. Types'
    BY <1>1, <1>2, <1>12, <1>14 DEF Types, OthersGo
  <2> QED
    BY <1>12, <2>1, <2>2, <2>3 DEF IInv
<1>15. CASE r.status = "ok"
  <2>1. main' = [main EXCEPT !.k = @ + 1]
    BY <1>5, <1>15
  <2>2. OthersGo(x, y, k + 1)
    <3>1. main' = OthersRecord(x, y, k + 1)
      BY <1>1, <1>2, <2>1 DEF OthersMains, OthersRecord
    <3>2. k + 1 \in Nat
      BY <1>4
    <3> QED
      BY <1>2, <3>1, <3>2, OthersGoes
  <2>3. /\ conn' = conn /\ client[d].open
        /\ Announced(Out(client'[d])) = Announced(Out(client[d])) \cup pkt.tmplts
    BY <1>11, <1>15 DEF SentTo
  <2>4. ASSUME NEW i \in DOMAIN conn
        PROVE  Knows(client'[conn[i]], OthersKnown(i, x, y, k + 1))
    <3>1. CASE i = p
      <4>1. ~(i - 1 < x) /\ i - 1 # y /\ i - 1 = x
        BY <1>1, <1>2, <1>4, <3>1
      <4>2. OthersKnown(i, x, y, k + 1) = T \cup pkt.tmplts
        BY <1>7, <4>1 DEF OthersKnown, T
      <4> QED
        BY <1>8, <2>3, <3>1, <4>2 DEF Knows, d
    <3>2. CASE i # p
      <4>1. i - 1 # x
        BY <1>2, <1>4, <3>2
      <4>2. OthersKnown(i, x, y, k + 1) = OthersKnown(i, x, y, k)
        BY <4>1 DEF OthersKnown
      <4> QED
        BY <1>3, <1>12, <1>13, <3>2, <4>2
    <3> QED
      BY <3>1, <3>2
  <2> QED
    BY <1>1, <1>2, <1>4, <1>14, <2>2, <2>3, <2>4
<1>16. CASE r.status = "busy"
  <2>1. main' = [main EXCEPT !.k = 1, !.idx = @ + 1]
    BY <1>5, <1>16
  <2>2. OthersGo(x + 1, y, 1)
    <3>1. main' = OthersRecord(x + 1, y, 1)
      BY <1>1, <1>2, <2>1 DEF OthersMains, OthersRecord
    <3>2. x + 1 \in Nat
      BY <1>2
    <3> QED
      BY <1>2, <3>1, <3>2, OthersGoes
  <2>3. /\ conn' = conn /\ ~required /\ client'[d].open = client[d].open
        /\ Announced(Out(client'[d])) = Announced(Out(client[d]))
    BY <1>11, <1>16 DEF SentTo
  <2>4. New = {} /\ k = 1
    BY <1>2, <1>4, <2>3
  <2>5. \A i, x1, y1 : OthersKnown(i, x1, y1, 1) = templates
    BY <1>7, <2>4 DEF OthersKnown
  <2>6. ASSUME NEW i \in DOMAIN conn
        PROVE  Knows(client'[conn[i]], OthersKnown(i, x + 1, y, 1))
    <3>1. Knows(client[conn[i]], templates)
      BY <1>3, <2>4, <2>5
    <3>2. CASE i = p
      BY <2>3, <2>5, <3>1, <3>2 DEF Knows, d
    <3>3. CASE i # p
      BY <1>12, <1>13, <2>5, <3>1, <3>3
    <3> QED
      BY <3>2, <3>3
  <2>7. x + 1 \in Nat
    BY <1>2
  <2> QED
    BY <1>2, <1>4, <1>14, <2>2, <2>3, <2>6, <2>7
<1>17. CASE r.status = "closed"
  <2>1. main' = [main EXCEPT !.k = 1, !.except = @ - 1]
    BY <1>5, <1>17
  <2>2. OthersGo(x, y - 1, 1)
    <3>1. main' = OthersRecord(x, y - 1, 1)
      BY <1>1, <1>2, <2>1 DEF OthersMains, OthersRecord
    <3>2. y - 1 \in Int
      BY <1>2
    <3> QED
      BY <1>2, <3>1, <3>2, OthersGoes
  <2>3. IsRemoved(conn', conn, p, Destinations)
    BY <1>11, <1>17 DEF SentTo
  <2>4. /\ DOMAIN conn' = 1..(Len(conn) - 1)
        /\ \A i \in DOMAIN conn' : i < p =>
             i \in DOMAIN conn /\ conn'[i] = conn[i] /\ conn'[i] # d
        /\ \A i \in DOMAIN conn' : i >= p =>
             i + 1 \in DOMAIN conn /\ conn'[i] = conn[i + 1] /\ conn'[i] # d
    BY <1>2, <1>4, <1>10, <2>3, RemovedPlaces DEF d
  <2>5. ASSUME NEW i \in DOMAIN conn'
        PROVE  Knows(client'[conn'[i]], OthersKnown(i, x, y - 1, 1))
    <3>1. i \in Nat /\ p \in Nat
      BY <1>2, <1>4, <2>4
    <3>2. CASE i < p
      <4>1. i - 1 < x
        BY <1>2, <1>4, <3>1, <3>2
      <4>2. OthersKnown(i, x, y - 1, 1) = OthersKnown(i, x, y, k)
        BY <4>1 DEF OthersKnown
      <4>3. i \in DOMAIN conn /\ conn'[i] = conn[i] /\ conn[i] # d /\ conn[i] \in Destinations
        BY <1>2, <2>4, <3>2
      <4> QED
        BY <1>3, <1>12, <4>2, <4>3
    <3>3. CASE ~(i < p)
      <4>1. i >= p
        BY <3>1, <3>3
      <4> DEFINE j == i + 1
      <4>2. j \in DOMAIN conn /\ conn'[i] = conn[j] /\ conn'[i] # d
            /\ conn[j] \in Destinations /\ j = i + 1
        BY <1>2, <2>4, <4>1
      <4>3. ~(i - 1 < x) /\ ~(j - 1 < x) /\ j - 1 # x
            /\ (i - 1 = y - 1 <=> j - 1 = y)
        BY <1>2, <1>4, <3>1, <4>1
      <4> HIDE DEF j
      <4>4. OthersKnown(i, x, y - 1, 1) = OthersKnown(j, x, y, k)
        <5>1. (templates \ New) \cup SentBefore(1) = templates \ New
          BY <1>7
        <5>2. OthersKnown(j, x, y, k) = IF j - 1 = y THEN templates ELSE templates \ New
          BY <4>3 DEF OthersKnown
        <5>3. OthersKnown(i, x, y - 1, 1) = IF i - 1 = y - 1 THEN templates ELSE templates \ New
          BY <4>3, <5>1 DEF OthersKnown
        <5> QED
          BY <4>3, <5>2, <5>3
      <4> QED
        BY <1>3, <1>12, <4>2, <4>4
    <3> QED
      BY <3>2, <3>3
  <2>6. y - 1 \in Int
    BY <1>2
  <2> QED
    BY <1>2, <1>4, <1>14, <2>2, <2>5, <2>6
<1> QED
  BY <1>11, <1>15, <1>16, <1>17 DEF SentTo


-----------------------------------------------------------------------------
(***************************************************************************)
(* dest_send_next.                                                         *)
(***************************************************************************)

\* KnownAt while destination t has its turn, with a attempts, before packet z.
NextKnown(i, t, a, z) ==
  IF a > 0 /\ i - 1 = t THEN (templates \ New) \cup SentBefore(z) ELSE templates \ New

UntriedAt(c, t, a) ==
  {c[i] : i \in {j \in DOMAIN c : a > 0 /\ Within(j - 1, t, a, Len(c))}}

IsTurn(t, x, n) == t = x % n

NextRecord(x, z, a, S) ==
  [pc |-> "next", pkts |-> main.pkts, new |-> main.new, k |-> z, idx |-> x,
   attempts |-> a, tried |-> S, start |-> main.start]

NextGo(x, z, a, S) ==
  /\ main' \in NextMains /\ main'.pc = "next"
  /\ main'.pkts = main.pkts /\ main'.new = main.new /\ main'.start = main.start
  /\ main'.idx = x /\ main'.k = z /\ main'.attempts = a /\ main'.tried = S

LEMMA NextGoes ==
  ASSUME main \in NextMains, NEW x \in Nat, NEW z \in Nat, NEW a \in Nat,
         NEW S \in SUBSET Destinations, main' = NextRecord(x, z, a, S)
  PROVE  NextGo(x, z, a, S)
  BY DEF NextMains, NextGo, NextRecord

LEMMA NextNow ==
  ASSUME IInv, main.pc = "next"
  PROVE  /\ main \in NextMains /\ Types /\ main.idx \in Nat /\ main.attempts \in Nat
         /\ main.k \in 1..(Len(main.pkts) + 1) /\ main.pkts \in Seq(PacketSet)
         /\ Len(main.pkts) \in Nat /\ Len(conn) \in Nat /\ DOMAIN conn = 1..Len(conn)
         /\ conn \in Seq(Destinations) /\ templates \subseteq Templates
         /\ main.tried \in SUBSET Destinations /\ main.new \in SUBSET Templates
         /\ main.new = New /\ main.attempts <= Len(conn)
         /\ New # {} => main.attempts = Len(conn)
         /\ main.start = main.tried \cup UntriedAt(conn, Turn, main.attempts)
         /\ \A i \in DOMAIN conn :
              Knows(client[conn[i]], NextKnown(i, Turn, main.attempts, main.k))
<1>1. main \in NextMains /\ Types
  BY MainShapes DEF IInv
<1>2. main.idx \in Nat /\ main.attempts \in Nat /\ main.pkts \in Seq(PacketSet)
      /\ main.tried \in SUBSET Destinations /\ main.new \in SUBSET Templates
  BY <1>1 DEF NextMains
<1>3. conn \in Seq(Destinations) /\ templates \subseteq Templates
  BY <1>1 DEF Types
<1>4. /\ main.k \in 1..(Len(main.pkts) + 1)
      /\ main.new = New /\ main.attempts <= Len(conn)
      /\ New # {} => main.attempts = Len(conn)
      /\ main.start = main.tried \cup UntriedAt(conn, Turn, main.attempts)
  BY DEF IInv, MessageClear, NextInv, Untried, UntriedAt
<1>5. \A i : KnownAt(i) = NextKnown(i, Turn, main.attempts, main.k)
  BY DEF KnownAt, NextKnown
<1> QED
  BY <1>1, <1>2, <1>3, <1>4, <1>5 DEF IInv, ConnKnows

\* The walk goes on at index x (place t) with packet z and a attempts, with S tried.
WalkGoes(x, z, a, S, t) ==
  /\ NextGo(x, z, a, S)
  /\ z \in 1..(Len(main.pkts) + 1)
  /\ a <= Len(conn')
  /\ New # {} => a = Len(conn')
  /\ a > 0 => IsTurn(t, x, Len(conn'))
  /\ main.start = S \cup UntriedAt(conn', t, a)

LEMMA NextNext ==
  ASSUME IInv, main.pc = "next", templates' = templates,
         NEW x, NEW z, NEW a, NEW S, NEW t, WalkGoes(x, z, a, S, t)
  PROVE  /\ MessageClear' /\ ResendInv' /\ OthersInv' /\ NextInv'
         /\ \A i : KnownAt(i)' = NextKnown(i, t, a, z)
<1>1. /\ main'.pc = "next" /\ main'.pkts = main.pkts /\ main'.new = main.new
      /\ main'.start = main.start /\ main'.idx = x /\ main'.k = z
      /\ main'.attempts = a /\ main'.tried = S
  BY DEF NextGo, WalkGoes
<1>2. New' = New
  BY <1>1 DEF New, NewTemplates
<1>3. SentBefore(main.k)' = SentBefore(z)
  BY <1>1 DEF SentBefore
<1>4. a > 0 => Turn' = t
  BY <1>1 DEF Turn, IsTurn, WalkGoes
<1>5. MessageClear'
  BY <1>1, <1>2 DEF IInv, MessageClear, WalkGoes
<1>6. ResendInv' /\ OthersInv'
  BY <1>1 DEF ResendInv, OthersInv
<1>7. Untried' = UntriedAt(conn', t, a)
  <2>1. Untried' = {conn'[i] : i \in {j \in DOMAIN conn' :
           a > 0 /\ Within(j - 1, Turn', a, Len(conn'))}}
    BY <1>1 DEF Untried, Within
  <2>2. CASE a > 0
    BY <1>4, <2>1, <2>2 DEF UntriedAt
  <2>3. CASE ~(a > 0)
    BY <2>1, <2>3 DEF UntriedAt
  <2> QED
    BY <2>2, <2>3
<1>8. NextInv'
  BY <1>1, <1>2, <1>7, NextNow DEF NextInv, WalkGoes
<1>9. \A i : KnownAt(i)' = NextKnown(i, t, a, z)
  BY <1>1, <1>2, <1>3, <1>4 DEF KnownAt, NextKnown
<1> QED
  BY <1>5, <1>6, <1>8, <1>9

\* One attempt fewer: the place after t, and the place t without its member.
LEMMA WalkGoesOn ==
  ASSUME NEW L \in Nat, NEW a \in Nat, NEW t \in Nat, NEW u \in Nat, NEW q \in Nat,
         0 < a, a <= L, t < L, q < L,
         \/ t + 1 < L /\ u = t + 1
         \/ t + 1 = L /\ u = 0
  PROVE  Within(q, t, a, L) <=> q = t \/ (a - 1 > 0 /\ Within(q, u, a - 1, L))
  BY DEF Within

LEMMA WalkCloses ==
  ASSUME NEW L \in Nat, NEW a \in Nat, NEW t \in Nat, NEW u \in Nat, NEW q \in Nat,
         1 < a, a <= L, t < L, q < L - 1,
         \/ t < L - 1 /\ u = t
         \/ t = L - 1 /\ u = 0
  PROVE  /\ q < t => (Within(q, u, a - 1, L - 1) <=> Within(q, t, a, L))
         /\ q >= t => (Within(q, u, a - 1, L - 1) <=> Within(q + 1, t, a, L))
  BY DEF Within

LEMMA WalkEnds ==
  ASSUME NEW L \in Nat, NEW t \in Nat, NEW q \in Nat, t < L, q < L
  PROVE  Within(q, t, 1, L) <=> q = t
  BY DEF Within


\* The walk tries c[t + 1]; what it has still to try is that, and then the rest.
Tries(c, t, a, s, u, b) == UntriedAt(c, t, a) = {c[t + 1]} \cup UntriedAt(s, u, b)

LEMMA UntriedGoesOn ==
  ASSUME NEW c \in Seq(Destinations), NEW a \in Nat, NEW t \in Nat, NEW u \in Nat,
         NEW b, b = a - 1,
         0 < a, a <= Len(c), t < Len(c),
         \/ t + 1 < Len(c) /\ u = t + 1
         \/ t + 1 = Len(c) /\ u = 0
  PROVE  Tries(c, t, a, c, u, b)
<1> DEFINE L == Len(c)
<1>1. L \in Nat /\ DOMAIN c = 1..L
  OBVIOUS
<1>2. \/ t + 1 < L /\ u = t + 1
      \/ t + 1 = L /\ u = 0
  OBVIOUS
<1>3. a <= L /\ t < L
  OBVIOUS
<1> HIDE DEF L
<1>4. \A j \in 1..L : j \in Nat /\ j - 1 \in Nat /\ j - 1 < L /\ (j - 1 = t <=> j = t + 1)
  BY <1>1
<1>5. t + 1 \in 1..L
  BY <1>1, <1>3
<1>6. \A j \in 1..L : Within(j - 1, t, a, L)
                       <=> j = t + 1 \/ (a - 1 > 0 /\ Within(j - 1, u, a - 1, L))
  BY <1>1, <1>2, <1>3, <1>4, WalkGoesOn
<1>7. UntriedAt(c, t, a) = {c[i] : i \in {j \in 1..L : Within(j - 1, t, a, L)}}
  BY <1>1 DEF UntriedAt, L
<1>8. UntriedAt(c, u, a - 1)
        = {c[i] : i \in {j \in 1..L : a - 1 > 0 /\ Within(j - 1, u, a - 1, L)}}
  BY <1>1 DEF UntriedAt, L
<1> QED
  BY <1>5, <1>6, <1>7, <1>8 DEF Tries

LEMMA UntriedCloses ==
  ASSUME NEW c \in Seq(Destinations), NEW a \in Nat, NEW t \in Nat, NEW u \in Nat, NEW s,
         NEW b, b = a - 1, 0 < a, a <= Len(c), t < Len(c), Injective(c),
         IsRemoved(s, c, t + 1, Destinations),
         a > 1 => \/ t < Len(c) - 1 /\ u = t
                  \/ t = Len(c) - 1 /\ u = 0
  PROVE  Tries(c, t, a, s, u, b)
<1> DEFINE L == Len(c)
           p == t + 1
<1>1. L \in Nat /\ DOMAIN c = 1..L
  OBVIOUS
<1>2. a > 1 => \/ t < L - 1 /\ u = t
               \/ t = L - 1 /\ u = 0
  OBVIOUS
<1>3. a <= L /\ t < L /\ p \in Nat /\ p - 1 = t
  OBVIOUS
<1> HIDE DEF L
<1>4. p \in 1..L
  BY <1>1, <1>3
<1>5. /\ DOMAIN s = 1..(L - 1) /\ Len(s) = L - 1
      /\ \A i \in DOMAIN s : i < p => i \in DOMAIN c /\ s[i] = c[i]
      /\ \A i \in DOMAIN s : i >= p => i + 1 \in DOMAIN c /\ s[i] = c[i + 1]
  BY <1>4, RemovedPlaces DEF L
<1> HIDE DEF p
<1>6. UntriedAt(c, t, a) = {c[i] : i \in {j \in 1..L : Within(j - 1, t, a, L)}}
  BY <1>1 DEF UntriedAt, L
<1>7. UntriedAt(s, u, a - 1)
        = {s[i] : i \in {j \in 1..(L - 1) : a - 1 > 0 /\ Within(j - 1, u, a - 1, L - 1)}}
  BY <1>5 DEF UntriedAt
<1>8. CASE a = 1
  <2>1. \A j \in 1..L : j \in Nat /\ j - 1 \in Nat /\ j - 1 < L /\ (j - 1 = t <=> j = p)
    BY <1>1, <1>3
  <2>2. \A j \in 1..L : Within(j - 1, t, 1, L) <=> j = p
    BY <1>1, <1>3, <2>1, WalkEnds
  <2>3. UntriedAt(c, t, a) = {c[p]}
    BY <1>4, <1>6, <1>8, <2>2
  <2>4. UntriedAt(s, u, a - 1) = {}
    BY <1>7, <1>8
  <2> QED
    BY <2>3, <2>4 DEF p, Tries
<1>9. CASE a > 1
  <2>1. ASSUME NEW j \in 1..(L - 1), j < p
        PROVE  Within(j - 1, u, a - 1, L - 1) <=> Within(j - 1, t, a, L)
    <3>1. j - 1 \in Nat /\ j - 1 < L - 1 /\ j - 1 < t
      BY <1>1, <1>3, <2>1
    <3> QED
      BY <1>1, <1>2, <1>3, <1>9, <3>1, WalkCloses
  <2>2. ASSUME NEW j \in 1..(L - 1), j >= p
        PROVE  Within(j - 1, u, a - 1, L - 1) <=> Within(j + 1 - 1, t, a, L)
    <3> DEFINE q == j - 1
    <3>1. q \in Nat /\ q < L - 1 /\ q >= t /\ j + 1 - 1 = q + 1
      BY <1>1, <1>3, <2>2
    <3> HIDE DEF q
    <3>2. Within(q, u, a - 1, L - 1) <=> Within(q + 1, t, a, L)
      BY <1>1, <1>2, <1>3, <1>9, <3>1, WalkCloses
    <3> QED
      BY <3>1, <3>2 DEF q
  <2>3. Within(p - 1, t, a, L)
    BY <1>1, <1>3, <1>9 DEF Within
  <2>4. ASSUME NEW e \in UntriedAt(c, t, a) PROVE e \in {c[p]} \cup UntriedAt(s, u, a - 1)
    <3>1. PICK j \in 1..L : Within(j - 1, t, a, L) /\ e = c[j]
      BY <1>6
    <3>2. CASE j < p
      <4>1. j \in 1..(L - 1)
        BY <1>1, <1>4, <3>2
      <4> QED
        BY <1>5, <1>7, <1>9, <2>1, <3>1, <3>2, <4>1
    <3>3. CASE j = p
      BY <3>1, <3>3
    <3>4. CASE j > p
      <4>1. PICK i \in 1..(L - 1) : i >= p /\ i + 1 = j
        <5>1. j - 1 \in 1..(L - 1) /\ j - 1 >= p /\ j - 1 + 1 = j
          BY <1>1, <1>4, <3>4
        <5> QED
          BY <5>1
      <4>2. s[i] = e /\ Within(i - 1, u, a - 1, L - 1)
        BY <1>5, <2>2, <3>1, <4>1
      <4> QED
        BY <1>7, <1>9, <4>2
    <3> QED
      BY <1>3, <3>2, <3>3, <3>4
  <2>5. c[p] \in UntriedAt(c, t, a)
    BY <1>4, <1>6, <2>3
  <2>6. ASSUME NEW e \in UntriedAt(s, u, a - 1) PROVE e \in UntriedAt(c, t, a)
    <3>1. PICK j \in 1..(L - 1) : Within(j - 1, u, a - 1, L - 1) /\ e = s[j]
      BY <1>7
    <3>2. CASE j < p
      BY <1>1, <1>5, <1>6, <2>1, <3>1, <3>2
    <3>3. CASE ~(j < p)
      <4>1. j >= p
        BY <1>3, <3>3
      <4> QED
        BY <1>1, <1>5, <1>6, <2>2, <3>1, <4>1
    <3> QED
      BY <3>2, <3>3
  <2> QED
    BY <2>4, <2>5, <2>6 DEF p, Tries
<1> QED
  BY <1>8, <1>9


LEMMA TurnFacts ==
  ASSUME IInv, main.pc = "next", main.attempts > 0
  PROVE  /\ Len(conn) \in Nat /\ Len(conn) > 0 /\ Turn \in Nat /\ Turn < Len(conn)
         /\ Turn + 1 \in 1..Len(conn) /\ IsTurn(Turn, Turn, Len(conn))
<1> DEFINE L == Len(conn)
           t == Turn
<1>1. L \in Nat /\ main.idx \in Nat /\ main.attempts \in Nat /\ main.attempts <= L
  BY NextNow
<1>2. t = main.idx % L
  BY DEF Turn
<1> HIDE DEF L, t
<1>3. L > 0
  BY <1>1
<1>4. t \in Nat /\ t < L
  BY <1>1, <1>2, <1>3, Modulo
<1>5. t + 1 \in 1..L /\ IsTurn(t, t, L)
  BY <1>1, <1>3, <1>4, Modulo DEF IsTurn
<1> QED
  BY <1>1, <1>3, <1>4, <1>5 DEF L, t

LEMMA NextPacketStep ==
  ASSUME IInv, NextPacket
  PROVE  IInv'
<1>1. /\ main.pc = "next" /\ main.pc # "closed" /\ main.attempts > 0
      /\ main.k <= Len(main.pkts)
      /\ UNCHANGED <<mode, ready, ready_empty, group_mtx, templates, messages, connections,
                     dst_idx>>
  BY DEF NextPacket, unchanged_by_send
<1>2. /\ main \in NextMains /\ main.attempts \in Nat /\ main.tried \in SUBSET Destinations
      /\ main.pkts \in Seq(PacketSet) /\ Len(main.pkts) \in Nat
      /\ DOMAIN conn = 1..Len(conn) /\ main.k \in 1..(Len(main.pkts) + 1)
      /\ conn \in Seq(Destinations) /\ Types
      /\ main.new = New /\ main.attempts <= Len(conn)
      /\ New # {} => main.attempts = Len(conn)
  BY <1>1, NextNow
<1> DEFINE t == Turn
           a == main.attempts
           L == Len(conn)
           p == t + 1
           d == conn[p]
           k == main.k
           pkt == main.pkts[k]
           required == Required(main.new # {})
<1>3. /\ L \in Nat /\ L > 0 /\ t \in Nat /\ t < L /\ p \in 1..L /\ IsTurn(t, t, L) /\ p - 1 = t
  BY <1>1, TurnFacts
<1>4. /\ \A i \in DOMAIN conn : Knows(client[conn[i]], NextKnown(i, t, a, k))
      /\ main.start = main.tried \cup UntriedAt(conn, t, a)
  BY <1>1, NextNow
<1>5. /\ k \in DOMAIN main.pkts /\ k \in Nat
      /\ k + 1 \in 1..(Len(main.pkts) + 1) /\ 1 \in 1..(Len(main.pkts) + 1)
      /\ required \in BOOLEAN /\ (~required => New = {} /\ k = 1)
  BY <1>1, <1>2 DEF Required
<1>6. PICK r \in SendPacket(d, pkt, required) :
       /\ dest_move_to_dc(d, r)
       /\ main' = IF r.status = "ok"
                  THEN [main EXCEPT !.idx = Turn, !.k = @ + 1]
                  ELSE [main EXCEPT !.idx = IndexAfter(r.status), !.k = 1,
                          !.attempts = @ - 1, !.tried = @ \cup {d}]
  BY DEF NextPacket
<1>7. pkt \in PacketSet /\ d \in Destinations
  BY <1>2, <1>3, <1>5
<1>8. /\ SentBefore(1) = {} /\ SentBefore(k) \subseteq New
      /\ SentBefore(k + 1) = SentBefore(k) \cup pkt.tmplts
      /\ UNION {main.pkts[j].tmplts : j \in 1..k} = SentBefore(k) \cup pkt.tmplts
  BY <1>2, <1>5, SentFacts
<1> DEFINE T == (templates \ New) \cup SentBefore(k)
<1>9. Knows(client[d], T)
  <2>1. NextKnown(p, t, a, k) = T
    BY <1>1, <1>3 DEF NextKnown
  <2> QED
    BY <1>2, <1>3, <1>4, <2>1
<1>10. pkt.data # NULL => pkt.data \in T \cup pkt.tmplts
  <2>1. pkt.data # NULL => pkt.data \in (templates \ New)
                                        \cup UNION {main.pkts[j].tmplts : j \in 1..k}
    BY <1>1, <1>5 DEF IInv, MessageClear
  <2> QED
    BY <1>8, <2>1
<1>11. Injective(conn)
  BY <1>1, <1>2, GroupFacts DEF IInv
<1> HIDE DEF d, p, pkt, required, T, t
<1>12. SentTo(r, d, p, required, pkt)
  <2>1. d = conn[p]
    BY DEF d
  <2> QED
    BY <1>1, <1>3, <1>5, <1>6, <1>7, <1>9, <1>10, <2>1, SentFactsOf
<1>13. /\ conn' \in Seq(Destinations) /\ disconn' \in Seq(Destinations)
       /\ client' \in [Destinations -> Clients]
       /\ OneGroup' /\ ClientsGood' /\ Numbers'
       /\ \A e \in Destinations : e # d => client'[e] = client[e]
  BY <1>12 DEF SentTo
<1>14. \A i \in DOMAIN conn : i # p => conn[i] # d /\ conn[i] \in Destinations
  BY <1>2, <1>3, <1>11 DEF Injective, d
<1>15. ASSUME NEW x1, NEW z1, NEW a1, NEW S1, NEW t1, WalkGoes(x1, z1, a1, S1, t1),
              \A i \in DOMAIN conn' : Knows(client'[conn'[i]], NextKnown(i, t1, a1, z1))
       PROVE  IInv'
  <2>1. /\ MessageClear' /\ ResendInv' /\ OthersInv' /\ NextInv'
        /\ \A i : KnownAt(i)' = NextKnown(i, t1, a1, z1)
    BY <1>1, <1>15, NextNext
  <2>2. ConnKnows'
    BY <1>15, <2>1 DEF ConnKnows, Knows
  <2>3. Types'
    BY <1>1, <1>2, <1>13, <1>15 DEF Types, NextGo, WalkGoes
  <2> QED
    BY <1>13, <2>1, <2>2, <2>3 DEF IInv
<1>16. CASE r.status = "ok"
  <2>1. main' = [main EXCEPT !.idx = t, !.k = @ + 1]
    BY <1>6, <1>16 DEF t
  <2>2. NextGo(t, k + 1, a, main.tried)
    <3>1. main' = NextRecord(t, k + 1, a, main.tried)
      BY <1>1, <1>2, <2>1 DEF NextMains, NextRecord
    <3>2. k + 1 \in Nat
      BY <1>5
    <3> QED
      BY <1>2, <1>3, <3>1, <3>2, NextGoes
  <2>3. /\ conn' = conn /\ client[d].open
        /\ Announced(Out(client'[d])) = Announced(Out(client[d])) \cup pkt.tmplts
    BY <1>12, <1>16 DEF SentTo
  <2>4. ASSUME NEW i \in DOMAIN conn
        PROVE  Knows(client'[conn[i]], NextKnown(i, t, a, k + 1))
    <3>1. CASE i = p
      <4>1. i - 1 = t
        BY <1>3, <3>1
      <4>2. NextKnown(i, t, a, k + 1) = T \cup pkt.tmplts
        BY <1>1, <1>8, <4>1 DEF NextKnown, T
      <4> QED
        BY <1>9, <2>3, <3>1, <4>2 DEF Knows, d
    <3>2. CASE i # p
      <4>1. i - 1 # t
        BY <1>2, <1>3, <3>2 DEF p
      <4>2. NextKnown(i, t, a, k + 1) = NextKnown(i, t, a, k)
        BY <4>1 DEF NextKnown
      <4> QED
        BY <1>4, <1>13, <1>14, <3>2, <4>2
    <3> QED
      BY <3>1, <3>2
  <2>5. IsTurn(t, t, Len(conn'))
    BY <1>3, <2>3
  <2>6. WalkGoes(t, k + 1, a, main.tried, t)
    BY <1>2, <1>4, <1>5, <2>2, <2>3, <2>5 DEF WalkGoes
  <2> QED
    BY <1>15, <2>3, <2>4, <2>6
<1>17. CASE r.status = "busy"
  <2>1. main' = [main EXCEPT !.idx = t + 1, !.k = 1, !.attempts = @ - 1, !.tried = @ \cup {d}]
    BY <1>6, <1>17 DEF IndexAfter, t
  <2> DEFINE S == main.tried \cup {d}
             b == a - 1
             x == t + 1
             u == x % L
  <2>2. b \in Nat /\ x \in Nat /\ S \in SUBSET Destinations
    BY <1>1, <1>2, <1>3, <1>7
  <2>3. NextGo(x, 1, b, S)
    <3>1. main' = NextRecord(x, 1, b, S)
      BY <1>1, <1>2, <2>1 DEF NextMains, NextRecord
    <3> HIDE DEF x, b, S
    <3> QED
      BY <1>2, <2>2, <3>1, NextGoes
  <2>4. /\ conn' = conn /\ ~required /\ client'[d].open = client[d].open
        /\ Announced(Out(client'[d])) = Announced(Out(client[d]))
    BY <1>12, <1>17 DEF SentTo
  <2>5. New = {} /\ k = 1
    BY <1>5, <2>4
  <2>6. \A i, t1, a1 : NextKnown(i, t1, a1, 1) = templates
    BY <1>8, <2>5 DEF NextKnown
  <2>7. ASSUME NEW i \in DOMAIN conn
        PROVE  Knows(client'[conn[i]], NextKnown(i, u, b, 1))
    <3>1. Knows(client[conn[i]], templates)
      BY <1>4, <2>5, <2>6
    <3>2. CASE i = p
      BY <2>4, <2>6, <3>1, <3>2 DEF Knows, d
    <3>3. CASE i # p
      BY <1>13, <1>14, <2>6, <3>1, <3>3
    <3> QED
      BY <3>2, <3>3
  <2>8. /\ u \in Nat
        /\ \/ t + 1 < L /\ u = t + 1
           \/ t + 1 = L /\ u = 0
    <3> HIDE DEF L
    <3>1. x < L \/ x = L
      BY <1>3
    <3>2. u \in Nat /\ (x < L => u = x) /\ (x = L => u = 0)
      <4> HIDE DEF x
      <4> QED
        BY <1>3, <2>2, Modulo
    <3> QED
      BY <3>1, <3>2
  <2>9. UntriedAt(conn, t, a) = {d} \cup UntriedAt(conn, u, b)
    <3>1. Tries(conn, t, a, conn, u, b)
      <4> HIDE DEF u
      <4> QED
        BY <1>1, <1>2, <1>3, <2>8, UntriedGoesOn
    <3> QED
      BY <3>1 DEF Tries, d, p
  <2>10. main.start = S \cup UntriedAt(conn', u, b)
    BY <1>4, <2>4, <2>9
  <2>11. b <= Len(conn') /\ IsTurn(u, x, Len(conn'))
    BY <1>2, <1>3, <2>4 DEF IsTurn
  <2> HIDE DEF S, b, x, u
  <2>12. WalkGoes(x, 1, b, S, u)
    BY <1>5, <2>3, <2>5, <2>10, <2>11 DEF WalkGoes
  <2> QED
    BY <1>15, <2>4, <2>7, <2>12
<1>18. CASE r.status = "closed"
  <2>1. main' = [main EXCEPT !.idx = t, !.k = 1, !.attempts = @ - 1, !.tried = @ \cup {d}]
    BY <1>6, <1>18 DEF IndexAfter, t
  <2> DEFINE S == main.tried \cup {d}
             b == a - 1
             M == Len(conn')
             u == IF t < L - 1 THEN t ELSE 0
  <2>2. b \in Nat /\ S \in SUBSET Destinations
    BY <1>1, <1>2, <1>7
  <2>3. NextGo(t, 1, b, S)
    <3>1. main' = NextRecord(t, 1, b, S)
      BY <1>1, <1>2, <2>1 DEF NextMains, NextRecord
    <3> HIDE DEF b, S
    <3> QED
      BY <1>2, <1>3, <2>2, <3>1, NextGoes
  <2>4. IsRemoved(conn', conn, p, Destinations)
    BY <1>12, <1>18 DEF SentTo
  <2>5. /\ DOMAIN conn' = 1..(L - 1) /\ M = L - 1
        /\ \A i \in DOMAIN conn' : i < p =>
             i \in DOMAIN conn /\ conn'[i] = conn[i] /\ conn'[i] # d
        /\ \A i \in DOMAIN conn' : i >= p =>
             i + 1 \in DOMAIN conn /\ conn'[i] = conn[i + 1] /\ conn'[i] # d
    BY <1>2, <1>3, <1>11, <2>4, RemovedPlaces DEF d
  <2>6. \A i, t1, a1 : NextKnown(i, t1, a1, 1) = templates \ New
    BY <1>8 DEF NextKnown
  <2>7. \A i \in DOMAIN conn : Knows(client[conn[i]], templates \ New)
    BY <1>4 DEF NextKnown, Knows
  <2>8. ASSUME NEW i \in DOMAIN conn'
        PROVE  Knows(client'[conn'[i]], NextKnown(i, u, b, 1))
    <3>1. PICK j \in DOMAIN conn : conn'[i] = conn[j] /\ conn[j] # d /\ conn[j] \in Destinations
      <4>1. i \in Nat /\ p \in Nat
        BY <1>3, <2>5
      <4>2. i < p \/ i >= p
        BY <4>1
      <4> QED
        BY <1>2, <2>5, <4>2
    <3> QED
      BY <1>13, <2>6, <2>7, <3>1
  <2> HIDE DEF L, M
  <2>9. /\ u \in Nat
        /\ a > 1 => \/ t < L - 1 /\ u = t
                    \/ t = L - 1 /\ u = 0
    BY <1>3
  <2>10. UntriedAt(conn, t, a) = {d} \cup UntriedAt(conn', u, b)
    <3>1. Tries(conn, t, a, conn', u, b)
      <4> HIDE DEF u
      <4> QED
        BY <1>1, <1>2, <1>3, <1>11, <2>4, <2>9, UntriedCloses DEF p, L
    <3> QED
      BY <3>1 DEF Tries, d, p
  <2>11. main.start = S \cup UntriedAt(conn', u, b)
    BY <1>4, <2>10
  <2>12. /\ b <= M /\ (New # {} => b = M)
         /\ b > 0 => IsTurn(u, t, M)
    <3>1. /\ a <= L /\ (New # {} => a = L)
      BY <1>2 DEF L
    <3>2. b <= M /\ (New # {} => b = M) /\ M \in Nat
      BY <1>1, <1>2, <1>3, <2>5, <3>1
    <3>3. ASSUME b > 0 PROVE IsTurn(u, t, M)
      <4>1. M > 0 /\ (t < M \/ t = M) /\ (t < M => u = t) /\ (t = M => u = 0)
        BY <1>1, <1>2, <1>3, <2>5, <3>1, <3>3
      <4> HIDE DEF u
      <4> QED
        BY <1>3, <3>2, <4>1, Modulo DEF IsTurn
    <3> QED
      BY <3>2, <3>3
  <2> HIDE DEF S, b, u
  <2>13. WalkGoes(t, 1, b, S, u)
    BY <1>5, <2>3, <2>11, <2>12 DEF M, WalkGoes
  <2> QED
    BY <1>15, <2>8, <2>13
<1> QED
  BY <1>12, <1>16, <1>17, <1>18 DEF SentTo


LEMMA NextDoneStep ==
  ASSUME IInv, NextDone
  PROVE  IInv'
<1>1. /\ main.pc = "next" /\ main.pc # "closed" /\ main.attempts > 0
      /\ main.k > Len(main.pkts)
      /\ dst_idx' = (Turn + 1) % Len(conn) /\ main' = TemplatesToOthers
      /\ UNCHANGED <<mode, conn, disconn, ready, ready_empty, group_mtx, client, templates,
                     messages, connections>>
  BY DEF NextDone, unchanged_by_send
<1>2. /\ main.pkts \in Seq(PacketSet) /\ Len(main.pkts) \in Nat
      /\ main.k \in 1..(Len(main.pkts) + 1) /\ conn \in Seq(Destinations)
      /\ main.new = New /\ main.new \in SUBSET Templates
      /\ DOMAIN conn = 1..Len(conn)
  BY <1>1, NextNow
<1>3. \A i \in DOMAIN conn :
        Knows(client[conn[i]], NextKnown(i, Turn, main.attempts, main.k))
  BY <1>1, NextNow
<1>4. Len(conn) \in Nat /\ Len(conn) > 0 /\ Turn \in Nat /\ Turn < Len(conn)
  BY <1>1, TurnFacts
<1>5. dst_idx' \in Nat
  <2> DEFINE L == Len(conn)
             x == Turn + 1
  <2>1. x \in Nat /\ L \in Nat /\ L > 0 /\ dst_idx' = x % L
    BY <1>1, <1>4
  <2> HIDE DEF L, x
  <2> QED
    BY <2>1, Modulo
<1>6. group_mtx' \in {NULL, "main"} /\ templates' \subseteq Templates
  BY <1>1 DEF IInv, Types
<1>7. SentBefore(main.k) = New
  <2>1. main.k = Len(main.pkts) + 1
    BY <1>1, <1>2
  <2> QED
    BY <1>2, <2>1, SentFacts
<1>8. CASE main.new = {}
  <2>1. main' = Idle
    BY <1>1, <1>8 DEF TemplatesToOthers
  <2>2. main'.pc \in PlainPcs /\ main' \in PlainMains
    BY <2>1 DEF Idle, PlainPcs, PlainMains
  <2>3. MessageClear' /\ ResendInv' /\ OthersInv' /\ NextInv'
    BY <2>2, PlainMain
  <2>4. \A i \in DOMAIN conn : Knows(client[conn[i]], templates)
    BY <1>2, <1>3, <1>8 DEF NextKnown, Knows
  <2>5. ConnKnows'
    <3>1. \A d \in ToSet(conn') : Knows(client'[d], templates')
      BY <1>1, <2>4 DEF ToSet
    <3> QED
      BY <1>1, <1>2, <2>2, <3>1, PlainConnKnows
  <2> QED
    BY <1>1, <1>5, <1>6, <2>2, <2>3, <2>5, OnlyMainStep
<1>9. CASE main.new # {}
  <2> DEFINE n == main.new
             pkt == Packet(n, NULL)
             pkts == <<pkt>>
             t == Turn
  <2>1. main' = Others(pkts, t, TRUE)
    BY <1>1, <1>9 DEF TemplatesToOthers
  <2>2. pkt \in PacketSet /\ pkt.tmplts = n /\ pkt.data = NULL
    BY <1>2 DEF Packet, PacketSet
  <2>3. pkts \in Seq(PacketSet) /\ DOMAIN pkts = {1} /\ pkts[1] = pkt /\ NewTemplates(pkts) = n
    <3> HIDE DEF pkt
    <3> QED
      BY <2>2, OnePacket
  <2>4. Len(pkts) \in Nat
    BY <2>3
  <2> HIDE DEF pkts, pkt, n, t
  <2>5. /\ main'.pc = "others" /\ main'.pkts = pkts /\ main'.required = TRUE
        /\ main'.k = 1 /\ main'.idx = 0 /\ main'.except = t
    BY <2>1 DEF Others
  <2>6. main' \in OthersMains
    <3>1. t \in Int
      BY <1>4 DEF t
    <3> QED
      BY <2>1, <2>3, <3>1 DEF Others, OthersMains
  <2>7. New' = New
    BY <1>2, <2>3, <2>5 DEF New, NewTemplates, n
  <2>8. MessageClear'
    <3>1. 1 \in 1..(Len(pkts) + 1)
      BY <2>4
    <3> QED
      BY <2>2, <2>3, <2>5, <3>1 DEF MessageClear
  <2>9. ResendInv' /\ OthersInv' /\ NextInv'
    BY <2>5 DEF ResendInv, OthersInv, NextInv
  <2>10. ASSUME NEW i \in DOMAIN conn
         PROVE  KnownAt(i)' \subseteq NextKnown(i, t, main.attempts, main.k)
    <3>1. SentBefore(main.k)' = {}
      <4>1. 1..(1 - 1) = {}
        OBVIOUS
      <4> QED
        BY <2>5, <4>1 DEF SentBefore
    <3>2. ~(i - 1 < 0)
      BY <1>2, <1>4
    <3>3. CASE i - 1 = t
      <4>1. NextKnown(i, t, main.attempts, main.k) = (templates \ New) \cup New
        BY <1>1, <1>7, <3>3 DEF NextKnown
      <4>2. KnownAt(i)' = templates
        BY <1>1, <2>5, <3>3 DEF KnownAt
      <4> QED
        BY <4>1, <4>2
    <3>4. CASE i - 1 # t
      <4>1. NextKnown(i, t, main.attempts, main.k) = templates \ New
        BY <3>4 DEF NextKnown
      <4>2. KnownAt(i)' = IF i - 1 = 0 THEN (templates \ New) \cup {} ELSE templates \ New
        BY <1>1, <2>5, <2>7, <3>1, <3>2, <3>4 DEF KnownAt
      <4> QED
        BY <4>1, <4>2
    <3> QED
      BY <3>3, <3>4
  <2>11. ConnKnows'
    <3> SUFFICES ASSUME NEW i \in DOMAIN conn PROVE Knows(client[conn[i]], KnownAt(i)')
      BY <1>1 DEF ConnKnows, Knows
    <3> QED
      BY <1>3, <2>10 DEF Knows, t
  <2> QED
    BY <1>1, <1>5, <1>6, <2>6, <2>8, <2>9, <2>11, OnlyMainStep
<1> QED
  BY <1>8, <1>9

LEMMA NextGivesUpStep ==
  ASSUME IInv, NextGivesUp
  PROVE  IInv'
<1>1. /\ main.pc = "next" /\ main.pc # "closed" /\ main.attempts = 0 /\ main' = Idle
      /\ dst_idx' = IF main.start = {} THEN dst_idx
                    ELSE IF conn = <<>> THEN 0 ELSE main.idx % Len(conn)
      /\ UNCHANGED <<mode, conn, disconn, ready, ready_empty, group_mtx, client, templates,
                     messages, connections>>
  BY DEF NextGivesUp, unchanged_by_send
<1>2. /\ conn \in Seq(Destinations) /\ Len(conn) \in Nat /\ main.idx \in Nat
      /\ DOMAIN conn = 1..Len(conn)
      /\ New # {} => main.attempts = Len(conn)
  BY <1>1, NextNow
<1>3. \A i \in DOMAIN conn :
        Knows(client[conn[i]], NextKnown(i, Turn, main.attempts, main.k))
  BY <1>1, NextNow
<1>4. dst_idx \in Nat /\ group_mtx' \in {NULL, "main"} /\ templates' \subseteq Templates
  BY <1>1 DEF IInv, Types
<1>5. dst_idx' \in Nat
  <2>1. CASE main.start = {} \/ conn = <<>>
    BY <1>1, <1>4, <2>1
  <2>2. CASE main.start # {} /\ conn # <<>>
    <3> DEFINE L == Len(conn)
    <3>1. L \in Nat /\ L > 0 /\ dst_idx' = main.idx % L
      BY <1>1, <1>2, <2>2
    <3> HIDE DEF L
    <3> QED
      BY <1>2, <3>1, Modulo
  <2> QED
    BY <2>1, <2>2
<1>6. main'.pc \in PlainPcs /\ main' \in PlainMains
  BY <1>1 DEF Idle, PlainPcs, PlainMains
<1>7. MessageClear' /\ ResendInv' /\ OthersInv' /\ NextInv'
  BY <1>6, PlainMain
<1>8. ASSUME NEW i \in DOMAIN conn PROVE Knows(client[conn[i]], templates)
  <2>1. New = {}
    BY <1>1, <1>2
  <2> QED
    BY <1>3, <2>1 DEF NextKnown, Knows
<1>9. ConnKnows'
  <2>1. \A d \in ToSet(conn') : Knows(client'[d], templates')
    BY <1>1, <1>8 DEF ToSet
  <2> QED
    BY <1>1, <1>2, <1>6, <2>1, PlainConnKnows
<1> QED
  BY <1>1, <1>4, <1>5, <1>6, <1>7, <1>9, OnlyMainStep

LEMMA CloseStep ==
  ASSUME IInv, storage_close
  PROVE  IInv'
<1>1. /\ main' = [pc |-> "closed"] /\ conn' = <<>> /\ disconn' = <<>> /\ ready' = <<>>
      /\ client' = [d \in Destinations |-> NewClient]
      /\ UNCHANGED <<mode, ready_empty, group_mtx, dst_idx, templates, messages, connections>>
  BY DEF storage_close
<1>2. main'.pc \in PlainPcs /\ main' \in PlainMains /\ main'.pc = "closed"
  BY <1>1 DEF PlainPcs, PlainMains
<1>3. MessageClear' /\ ResendInv' /\ OthersInv' /\ NextInv'
  BY <1>2, PlainMain
<1>4. Types'
  <2>1. NewClient \in Clients
    BY NewClientGood DEF GoodClient
  <2> QED
    BY <1>1, <1>2, <2>1, EmptyGroup DEF IInv, Types
<1>5. OneGroup'
  BY <1>2 DEF OneGroup
<1>6. ClientsGood' /\ Numbers'
  <2>1. \A d \in Destinations : client'[d] = NewClient
    BY <1>1
  <2>2. ClientsGood'
    BY <2>1, NewClientGood DEF ClientsGood
  <2>3. Numbers'
    BY <2>1, NewClientGood DEF Numbers, NumberedClient, Out
  <2> QED
    BY <2>2, <2>3
<1>7. ConnKnows'
  BY <1>1 DEF ConnKnows
<1> QED
  BY <1>3, <1>4, <1>5, <1>6, <1>7 DEF IInv

LEMMA StutterStep ==
  ASSUME IInv, UNCHANGED vars
  PROVE  IInv'
<1>1. UNCHANGED <<mode, conn, disconn, ready, ready_empty, group_mtx, dst_idx, client,
                  templates, main, messages, connections>>
  BY DEF vars, groups
<1>2. Types' /\ OneGroup' /\ ClientsGood' /\ Numbers'
  BY <1>1 DEF IInv, Types, OneGroup, ClientsGood, Numbers
<1>3. /\ MessageClear' /\ ResendInv' /\ OthersInv' /\ NextInv'
      /\ \A i : KnownAt(i)' = KnownAt(i)
  BY <1>1, SameMain DEF IInv
<1>4. ConnKnows'
  BY <1>1, <1>3 DEF IInv, ConnKnows, Knows
<1> QED
  BY <1>2, <1>3, <1>4 DEF IInv

LEMMA NextIInv == IInv /\ [Next]_vars => IInv'
<1> SUFFICES ASSUME IInv, [Next]_vars PROVE IInv'
  OBVIOUS
<1>1. CASE Connector
  BY <1>1, ReconnectStep DEF Connector
<1>2. CASE \E S \in SUBSET Udp : store_packet(S)
  BY <1>2, StorePacketStep
<1>3. CASE CheckReconnected
  BY <1>3, NoneReconnectedStep, WithoutTemplatesStep, PrepareTemplatesStep,
     ResendTemplatesStep, ResendDoneStep DEF CheckReconnected
<1>4. CASE ParseMessage
  BY <1>4, ParseMessageStep
<1>5. CASE SendMessage
  BY <1>5, NextPacketStep, NextDoneStep, NextGivesUpStep, OthersSkipStep,
     OthersPacketStep, OthersDoneStep, OthersEndStep DEF SendMessage
<1>6. CASE storage_close
  BY <1>6, CloseStep
<1>7. CASE UNCHANGED vars
  BY <1>7, StutterStep
<1> QED
  BY <1>1, <1>2, <1>3, <1>4, <1>5, <1>6, <1>7 DEF Next, StoreMessage

-----------------------------------------------------------------------------
(***************************************************************************)
(* The theorems.                                                           *)
(***************************************************************************)

\* The inductive invariant holds in every reachable state, whatever the
\* destinations, the templates, the size of the senders' buffers and the order
\* of reconnections, refreshes of templates, messages and failures.
THEOREM Invariant == Spec => []IInv
<1>1. Init => IInv
  BY InitIInv
<1>2. IInv /\ [Next]_vars => IInv'
  BY NextIInv
<1> QED
  BY <1>1, <1>2, PTL DEF Spec

\* Every variable of the plugin keeps its type.
THEOREM TypesKept == Spec => []TypeOK
<1>1. IInv => TypeOK
  BY DEF IInv, Types, TypeOK, Clients
<1> QED
  BY <1>1, Invariant, PTL

\* A destination is always in exactly one of the three groups of the destination
\* manager: group_move, group_remove and group_append neither lose nor double one.
THEOREM DestinationsInOneGroup == Spec => []OneGroup
<1>1. IInv => OneGroup
  BY DEF IInv
<1> QED
  BY <1>1, Invariant, PTL

\* What a connected destination gets is made of whole packets: the rest of a
\* packet that sendmsg took in part follows it, and nothing that is left of one
\* connection (sender_socket_close) is sent on the next.
THEOREM PacketsStayWhole == Spec => []WholePackets
<1>1. IInv => WholePackets
  <2> SUFFICES ASSUME IInv, NEW d \in Destinations
               PROVE  Whole(Out(client[d]))
    BY DEF WholePackets, Whole, Out, Outgoing
  <2> QED
    BY DEF IInv, ClientsGood, GoodClient
<1> QED
  BY <1>1, Invariant, PTL

\* On every connection, the template of a data record was sent before it or with
\* it, in either mode of distribution: dest_check_reconnected, dest_send_next and
\* dest_send_except_one together leave no destination behind.
THEOREM TemplatesComeFirst == Spec => []TemplatesBeforeData
<1>1. IInv => TemplatesBeforeData
  <2> SUFFICES ASSUME IInv, NEW d \in Destinations
               PROVE  Explained(Out(client[d]))
    BY DEF TemplatesBeforeData, Explained, Out, Outgoing
  <2> QED
    BY DEF IInv, ClientsGood, GoodClient
<1> QED
  BY <1>1, Invariant, PTL

\* The sequence number of every packet on a stream connection is the number of
\* the records that went before it (dest_packet_sender).
THEOREM SequenceNumbersRight == Spec => []SequenceNumbersCount
<1>1. IInv => SequenceNumbersCount
  <2> SUFFICES ASSUME IInv, NEW d \in Destinations \ Udp
               PROVE  Numbered(Out(client[d]))
    BY DEF SequenceNumbersCount, Numbered, RecordsBefore, Out, Outgoing
  <2> QED
    BY DEF IInv, Numbers, NumberedClient
<1> QED
  BY <1>1, Invariant, PTL

\* When dest_send_next gives a message up, it has tried every destination that
\* was connected when it began, although each failure shortens the array that it
\* walks in a circle.
THEOREM AllTriedBeforeDropped == Spec => []DroppedOnlyWhenRefused
<1>1. IInv => DroppedOnlyWhenRefused
  <2> SUFFICES ASSUME IInv, main.pc = "next", main.attempts = 0
               PROVE  main.tried = main.start
    BY DEF DroppedOnlyWhenRefused
  <2>1. UntriedAt(conn, Turn, 0) = {}
    BY DEF UntriedAt
  <2> QED
    BY <2>1, NextNow
<1> QED
  BY <1>1, Invariant, PTL


=============================================================================
