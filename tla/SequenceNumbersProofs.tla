------------------------ MODULE SequenceNumbersProofs ------------------------
(***************************************************************************)
(* Proofs about SequenceNumbers for any channels, domains, modulus and     *)
(* numbers of messages and records, provided that every channel has an     *)
(* input_info of its own.                                                  *)
(***************************************************************************)
EXTENDS SequenceNumbers, TLAPS, FiniteSetTheorems, SequenceTheorems

\* Every channel has its own structure, as over TCP and UDP.
SeparateInfos == \A c, e \in Channels : Info[c] = Info[e] => c = e

(***************************************************************************)
(* The inductive invariant.                                                *)
(***************************************************************************)

\* The number of the message that follows m.
After(m) == (m.sequence_number + m.records) % Wrap

\* The messages of w take the number first to the number last, without a gap.
Chain(w, first, last) ==
  /\ Len(w) = 0 => first = last
  /\ Len(w) > 0 => w[1].sequence_number = first /\ After(w[Len(w)]) = last
  /\ \A i \in 1 .. Len(w) - 1 : w[i + 1].sequence_number = After(w[i])

\* The number expected next in a channel is where the channel has come to.
InfoAtPosition ==
  \A c \in Channels : Received(c).sequence_number = position[c]

\* What is on the way in an undisturbed channel leads from where the channel
\* has come to up to what the exporter numbers next.
WireInOrder ==
  \A c \in Channels \ disturbed : Chain(wire[c], position[c], exported[c])

IInv ==
  /\ TypeOK
  /\ InfoAtPosition
  /\ WireInOrder
  /\ DomainFollowsChannels
  /\ RecordsNumbered
  /\ NoFalseAlarm

-----------------------------------------------------------------------------
(***************************************************************************)
(* Numbers modulo Wrap.                                                    *)
(***************************************************************************)

\* Division with remainder.
LEMMA ModDivision ==
  ASSUME NEW a \in Int
  PROVE  /\ a % Wrap \in Numbers
         /\ a = Wrap * (a \div Wrap) + (a % Wrap)
         /\ a \div Wrap \in Int
  BY WrapAssumption DEF Numbers

\* The remainder is the only number that differs from x by a multiple of Wrap.
LEMMA ModUnique ==
  ASSUME NEW x \in Int, NEW q \in Int, NEW r \in Numbers, x = Wrap * q + r
  PROVE  x % Wrap = r
<1> DEFINE p == q - (x \div Wrap)
<1>1. x % Wrap \in Numbers /\ x = Wrap * (x \div Wrap) + (x % Wrap)
      /\ x \div Wrap \in Int
  BY ModDivision
<1>2. Wrap * p = (x % Wrap) - r /\ p \in Int
  BY <1>1, WrapAssumption DEF Numbers
<1>3. Wrap * p < Wrap /\ Wrap * p > 0 - Wrap
  BY <1>1, <1>2, WrapAssumption DEF Numbers
<1> HIDE DEF p
<1>4. p >= 1 => Wrap * p >= Wrap
  BY <1>2, WrapAssumption
<1>5. p <= -1 => Wrap * p <= 0 - Wrap
  BY <1>2, WrapAssumption
<1>6. p = 0
  BY <1>2, <1>3, <1>4, <1>5, WrapAssumption
<1> QED
  BY <1>1, <1>2, <1>6, WrapAssumption DEF Numbers

\* A remainder may be taken early.
LEMMA ModPlus ==
  ASSUME NEW a \in Int, NEW b \in Int
  PROVE  ((a % Wrap) + b) % Wrap = (a + b) % Wrap
<1> DEFINE q == a \div Wrap
           p == (a + b) \div Wrap
<1>1. a % Wrap \in Numbers /\ a = Wrap * q + (a % Wrap) /\ q \in Int
  BY ModDivision
<1>2. (a + b) % Wrap \in Numbers /\ a + b = Wrap * p + ((a + b) % Wrap) /\ p \in Int
  BY ModDivision
<1>3. (a % Wrap) + b = Wrap * (p - q) + ((a + b) % Wrap)
  BY <1>1, <1>2, WrapAssumption DEF Numbers
<1>4. (a % Wrap) + b \in Int /\ p - q \in Int
  BY <1>1, <1>2, WrapAssumption DEF Numbers
<1> HIDE DEF p, q
<1> QED
  BY <1>2, <1>3, <1>4, ModUnique

\* A number is its own remainder.
LEMMA ModSame ==
  ASSUME NEW a \in Numbers
  PROVE  a % Wrap = a
  BY ModUnique, WrapAssumption DEF Numbers

Plus(a, b) == (a + b) % Wrap

MovesBoth(seqn, past0, k, pos, number, n) ==
  Plus(seqn, n) = Plus(past0, k - pos + Plus(number, n))

\* The domain's number stands for the sum of its closed channels and of k, of
\* which channel c has passed pos.  After a message numbered number, with n
\* records, both have moved by the same amount.
LEMMA CorrectedSum ==
  ASSUME NEW past0 \in Int, NEW k \in Int, NEW pos \in Int, NEW number \in Int,
         NEW n \in Int
  PROVE  MovesBoth(CorrectedNumber(Plus(past0, k), pos, number), past0, k, pos,
                   number, n)
<1>1. CorrectedNumber((past0 + k) % Wrap, pos, number)
        = (past0 + k + (number - pos)) % Wrap
  BY ModPlus DEF CorrectedNumber
<1>2. (((past0 + k + (number - pos)) % Wrap) + n) % Wrap
        = (past0 + k + (number - pos) + n) % Wrap
  BY ModPlus
<1>3. (((number + n) % Wrap) + (past0 + k - pos)) % Wrap
        = ((number + n) + (past0 + k - pos)) % Wrap
  BY ModPlus
<1>4. (number + n) % Wrap \in Int
  BY ModDivision, WrapAssumption DEF Numbers
<1>5. past0 + (k - pos + ((number + n) % Wrap))
        = ((number + n) % Wrap) + (past0 + k - pos)
  BY <1>4
<1>6. past0 + k + (number - pos) + n = (number + n) + (past0 + k - pos)
  OBVIOUS
<1> QED
  BY <1>1, <1>2, <1>3, <1>5, <1>6 DEF Plus, MovesBoth

\* A message that has the number expected only adds its records.
LEMMA CorrectedExpected ==
  ASSUME NEW x \in Numbers, NEW number \in Numbers
  PROVE  CorrectedNumber(x, number, number) = x
<1>1. x + (number - number) = x
  BY WrapAssumption DEF Numbers
<1> QED
  BY <1>1, ModSame DEF CorrectedNumber

-----------------------------------------------------------------------------
(***************************************************************************)
(* The numbers passed by the channels of a domain.                         *)
(***************************************************************************)

PassedIn(pos, S) == {r \in S \X (1 .. Wrap) : r[2] <= pos[r[1]]}

\* Finitely many, and for one channel as many as its number says.
LEMMA PassedSplit ==
  ASSUME NEW pos \in [Channels -> Numbers], NEW S \in SUBSET Channels, NEW c \in S
  PROVE  /\ IsFiniteSet(PassedIn(pos, S))
         /\ Cardinality(PassedIn(pos, S \ {c})) \in Nat
         /\ Cardinality(PassedIn(pos, S))
              = Cardinality(PassedIn(pos, S \ {c})) + pos[c]
<1> DEFINE own == {c} \X (1 .. pos[c])
           rest == PassedIn(pos, S \ {c})
           all == PassedIn(pos, S)
<1>1. pos[c] \in Nat /\ pos[c] <= Wrap
  BY WrapAssumption DEF Numbers
<1>2. all = rest \cup own /\ rest \cap own = {}
  <2>1. ASSUME NEW r \in all PROVE r \in rest \cup own
    <3>1. r \in S \X (1 .. Wrap) /\ r[2] <= pos[r[1]]
      BY DEF PassedIn
    <3>2. CASE r[1] = c
      BY <1>1, <3>1, <3>2
    <3>3. CASE r[1] # c
      BY <3>1, <3>3 DEF PassedIn
    <3> QED
      BY <3>2, <3>3
  <2>2. ASSUME NEW r \in own PROVE r \in all /\ r \notin rest
    BY <1>1, WrapAssumption DEF PassedIn
  <2>3. rest \subseteq all
    BY DEF PassedIn
  <2> QED
    BY <2>1, <2>2, <2>3
<1>3. IsFiniteSet(S)
  BY ChannelsAssumption, FS_Subset
<1>4. IsFiniteSet(1 .. Wrap)
  BY FS_Interval, WrapAssumption
<1>5. IsFiniteSet(S \X (1 .. Wrap))
  BY <1>3, <1>4, FS_Product
<1>6. all \subseteq S \X (1 .. Wrap) /\ rest \subseteq all /\ own \subseteq all
  BY <1>2 DEF PassedIn
<1>7. IsFiniteSet(all) /\ IsFiniteSet(rest) /\ IsFiniteSet(own)
  BY <1>5, <1>6, FS_Subset
<1>8. Cardinality(own) = pos[c]
  <2>1. IsFiniteSet(1 .. pos[c]) /\ Cardinality(1 .. pos[c]) = pos[c]
    BY <1>1, FS_Interval
  <2>2. IsFiniteSet({c}) /\ Cardinality({c}) = 1
    BY FS_Singleton
  <2>3. Cardinality({c} \X (1 .. pos[c])) = Cardinality({c}) * Cardinality(1 .. pos[c])
    BY <2>1, <2>2, FS_Product
  <2> QED
    BY <2>1, <2>2, <2>3, <1>1
<1> HIDE DEF own, rest, all
<1>9. Cardinality(rest \cup own) = Cardinality(rest) + Cardinality(own)
                                     - Cardinality(rest \cap own)
  BY <1>7, FS_Union
<1>10. Cardinality(rest \cap own) = 0
  BY <1>2, FS_EmptySet
<1>11. Cardinality(rest) \in Nat
  BY <1>7, FS_CardinalityType
<1> QED
  BY <1>1, <1>2, <1>7, <1>8, <1>9, <1>10, <1>11 DEF own, rest, all

\* One channel comes from pos[c] to v.
LEMMA PassedChange ==
  ASSUME NEW pos \in [Channels -> Numbers], NEW S \in SUBSET Channels,
         NEW c \in Channels, NEW v \in Numbers
  PROVE  LET new == [pos EXCEPT ![c] = v] IN
         /\ Cardinality(PassedIn(pos, S)) \in Nat
         /\ c \in S => Cardinality(PassedIn(new, S))
                         = Cardinality(PassedIn(pos, S)) - pos[c] + v
         /\ c \notin S => PassedIn(new, S) = PassedIn(pos, S)
<1> DEFINE new == [pos EXCEPT ![c] = v]
<1>1. new \in [Channels -> Numbers] /\ new[c] = v
  OBVIOUS
<1>2. PassedIn(new, S \ {c}) = PassedIn(pos, S \ {c})
  BY DEF PassedIn
<1>3. c \notin S => PassedIn(new, S) = PassedIn(pos, S)
  BY DEF PassedIn
<1>4. Cardinality(PassedIn(pos, S)) \in Nat
  <2>1. CASE S = {}
    <3>1. PassedIn(pos, S) = {}
      BY <2>1 DEF PassedIn
    <3> QED
      BY <3>1, FS_EmptySet
  <2>2. CASE S # {}
    <3>1. PICK e \in S : TRUE
      BY <2>2
    <3> QED
      BY PassedSplit, FS_CardinalityType
  <2> QED
    BY <2>1, <2>2
<1>5. ASSUME c \in S
      PROVE  Cardinality(PassedIn(new, S)) = Cardinality(PassedIn(pos, S)) - pos[c] + v
  <2> HIDE DEF new
  <2>1. /\ Cardinality(PassedIn(new, S \ {c})) \in Nat
        /\ Cardinality(PassedIn(new, S)) = Cardinality(PassedIn(new, S \ {c})) + new[c]
    BY <1>1, <1>5, PassedSplit
  <2>2. Cardinality(PassedIn(pos, S)) = Cardinality(PassedIn(pos, S \ {c})) + pos[c]
    BY <1>5, PassedSplit
  <2>3. pos[c] \in Int /\ v \in Int
    BY DEF Numbers
  <2> QED
    BY <1>1, <1>2, <2>1, <2>2, <2>3
<1> QED
  BY <1>3, <1>4, <1>5

-----------------------------------------------------------------------------
(***************************************************************************)
(* Messages on the way.                                                    *)
(***************************************************************************)

\* The message at place i is taken out.
LEMMA RemoveAtFacts ==
  ASSUME NEW w \in Seq(Messages), NEW i \in DOMAIN w
  PROVE  /\ RemoveAt(w, i) \in Seq(Messages)
         /\ Len(RemoveAt(w, i)) = Len(w) - 1
         /\ RemoveAt(w, i) # w
         /\ \A j \in 1 .. Len(w) - 1 :
              RemoveAt(w, 1)[j] = w[j + 1]
<1>1. i \in 1 .. Len(w) /\ Len(w) \in Nat
  OBVIOUS
<1>2. /\ RemoveAt(w, i) \in Seq(Messages)
      /\ Len(RemoveAt(w, i)) = Len(w) - 1
  <2>1. /\ SubSeq(w, 1, i - 1) \in Seq(Messages)
        /\ Len(SubSeq(w, 1, i - 1)) = i - 1
    <3>1. \A j \in 1 .. i - 1 : w[j] \in Messages
      BY <1>1
    <3>2. 1 \in Int /\ i - 1 \in Int
      BY <1>1
    <3> QED
      BY <1>1, <3>1, <3>2, SubSeqProperties
  <2>2. /\ SubSeq(w, i + 1, Len(w)) \in Seq(Messages)
        /\ Len(SubSeq(w, i + 1, Len(w))) = Len(w) - i
    <3>1. \A j \in i + 1 .. Len(w) : w[j] \in Messages
      BY <1>1
    <3>2. i + 1 \in Int /\ Len(w) \in Int
      BY <1>1
    <3> QED
      BY <1>1, <3>1, <3>2, SubSeqProperties
  <2> DEFINE s == SubSeq(w, 1, i - 1)
             t == SubSeq(w, i + 1, Len(w))
             both == s \o t
  <2>3. RemoveAt(w, i) = both
    BY DEF RemoveAt
  <2> HIDE DEF s, t
  <2>4. both \in Seq(Messages) /\ Len(both) = Len(s) + Len(t)
    BY <2>1, <2>2, ConcatProperties DEF s, t
  <2> HIDE DEF both
  <2>5. Len(s) = i - 1 /\ Len(t) = Len(w) - i
    BY <2>1, <2>2 DEF s, t
  <2> QED
    BY <1>1, <2>3, <2>4, <2>5
<1>3. ASSUME NEW j \in 1 .. Len(w) - 1
      PROVE  RemoveAt(w, 1)[j] = w[j + 1]
  BY <1>1 DEF RemoveAt
<1> QED
  BY <1>1, <1>2, <1>3

\* The exporter numbers one more message.
LEMMA ChainAppend ==
  ASSUME NEW w \in Seq(Messages), NEW first, NEW last, NEW m \in Messages,
         Chain(w, first, last), m.sequence_number = last
  PROVE  Chain(Append(w, m), first, After(m))
<1> DEFINE v == Append(w, m)
<1>1. v \in Seq(Messages) /\ Len(v) = Len(w) + 1 /\ Len(w) \in Nat
  BY AppendProperties
<1>2. v[Len(v)] = m /\ \A i \in 1 .. Len(w) : v[i] = w[i]
  OBVIOUS
<1>3. v[1].sequence_number = first
  <2>1. CASE Len(w) = 0
    BY <2>1, <1>1, <1>2 DEF Chain
  <2>2. CASE Len(w) > 0
    BY <2>2, <1>1, <1>2 DEF Chain
  <2> QED
    BY <2>1, <2>2, <1>1
<1>4. ASSUME NEW i \in 1 .. Len(v) - 1
      PROVE  v[i + 1].sequence_number = After(v[i])
  <2>1. CASE i = Len(w)
    BY <2>1, <1>1, <1>2, <1>4 DEF Chain
  <2>2. CASE i < Len(w)
    BY <2>2, <1>1, <1>2, <1>4 DEF Chain
  <2> QED
    BY <2>1, <2>2, <1>1, <1>4
<1> HIDE DEF v
<1>5. Chain(v, first, After(m))
  BY <1>1, <1>2, <1>3, <1>4 DEF Chain
<1> QED
  BY <1>5 DEF v

\* The first message is received.
LEMMA ChainFirst ==
  ASSUME NEW w \in Seq(Messages), NEW first, NEW last,
         Chain(w, first, last), 1 \in DOMAIN w
  PROVE  /\ w[1].sequence_number = first
         /\ Chain(RemoveAt(w, 1), After(w[1]), last)
<1> DEFINE v == RemoveAt(w, 1)
<1>1. Len(w) \in Nat \ {0} /\ DOMAIN w = 1 .. Len(w)
  OBVIOUS
<1>2. v \in Seq(Messages) /\ Len(v) = Len(w) - 1
      /\ \A j \in 1 .. Len(w) - 1 : v[j] = w[j + 1]
  BY RemoveAtFacts
<1> HIDE DEF v
<1>3. Len(v) = 0 => After(w[1]) = last
  <2>1. Len(w) > 0 /\ After(w[Len(w)]) = last
    BY <1>1 DEF Chain
  <2> DEFINE m == Len(v)
             n == Len(w)
  <2>2. m = n - 1 /\ n \in Nat
    BY <1>1, <1>2
  <2> HIDE DEF m, n
  <2>3. m = 0 => n = 1
    BY <2>2
  <2> QED
    BY <2>1, <2>3 DEF m, n
<1>4. ASSUME Len(v) > 0
      PROVE  v[1].sequence_number = After(w[1]) /\ After(v[Len(v)]) = last
  <2>1. Len(w) > 1
    BY <1>1, <1>2, <1>4
  <2>2. v[1] = w[2] /\ v[Len(v)] = w[Len(w)]
    BY <1>1, <1>2, <2>1
  <2>3. w[1 + 1].sequence_number = After(w[1])
    BY <2>1, <1>1 DEF Chain
  <2> QED
    BY <2>2, <2>3, <1>1 DEF Chain
<1>5. ASSUME NEW i \in 1 .. Len(v) - 1
      PROVE  v[i + 1].sequence_number = After(v[i])
  <2>1. i \in 1 .. Len(w) - 1 /\ i + 1 \in 1 .. Len(w) - 1
    BY <1>1, <1>2, <1>5
  <2>2. v[i] = w[i + 1] /\ v[i + 1] = w[(i + 1) + 1]
    BY <1>2, <2>1
  <2>3. w[(i + 1) + 1].sequence_number = After(w[i + 1])
    BY <2>1 DEF Chain
  <2> QED
    BY <2>2, <2>3
<1>6. Chain(v, After(w[1]), last)
  BY <1>3, <1>4, <1>5 DEF Chain
<1> QED
  BY <1>1, <1>6 DEF Chain, v

-----------------------------------------------------------------------------
(***************************************************************************)
(* The steps.                                                              *)
(***************************************************************************)

\* The number of a domain is a number.
LEMMA DomainNumber ==
  ASSUME TypeOK, NEW d \in Domains
  PROVE  data_source_info_get_sequence_number(d) \in Numbers
  BY WrapAssumption DEF TypeOK, Numbers, data_source_info_get_sequence_number

\* What is kept, or would be created, for a channel.
LEMMA ReceivedInfo ==
  ASSUME TypeOK, NEW c \in Channels
  PROVE  Received(c) \in InputInfos
<1>1. Info[c] \in Infos
  BY DEF Infos
<1>2. create_input_info \in InputInfos
  BY WrapAssumption, BoundsAssumption DEF create_input_info, InputInfos, Numbers
<1> QED
  BY <1>1, <1>2 DEF TypeOK, Received

\* The invariant holds at the start.
LEMMA InitIInv == Init => IInv
<1> SUFFICES ASSUME Init PROVE IInv
  OBVIOUS
<1>0. 0 \in Numbers
  BY WrapAssumption DEF Numbers
<1>1. TypeOK
  BY <1>0, BoundsAssumption DEF Init, TypeOK
<1>2. InfoAtPosition
  <2> SUFFICES ASSUME NEW c \in Channels
               PROVE  Received(c).sequence_number = position[c]
    BY DEF InfoAtPosition
  <2>1. Info[c] \in Infos
    BY DEF Infos
  <2> QED
    BY <2>1 DEF Init, Received, create_input_info
<1>3. WireInOrder
  BY DEF Init, WireInOrder, Chain
<1>4. ASSUME NEW d \in Domains
      PROVE  /\ data_source_info_get_sequence_number(d) = 0
             /\ Cardinality(Passed(d)) = 0 /\ past[d] = 0 /\ written[d] = 0
  <2>1. Passed(d) = {}
    BY DEF Init, Passed, ChannelsOf
  <2> QED
    BY <2>1, FS_EmptySet DEF Init, data_source_info_get_sequence_number
<1>5. DomainFollowsChannels
  BY <1>0, <1>4, ModSame DEF DomainFollowsChannels
<1>6. RecordsNumbered
  BY <1>4 DEF RecordsNumbered
<1>7. NoFalseAlarm
  BY DEF Init, NoFalseAlarm
<1> QED
  BY <1>1, <1>2, <1>3, <1>5, <1>6, <1>7 DEF IInv

\* Nothing that the collector keeps changes.
LEMMA CollectorUnchanged ==
  ASSUME IInv, UNCHANGED <<input_info, data_source_info, position, past, written, warned>>,
         disturbed \subseteq disturbed'
  PROVE  InfoAtPosition' /\ DomainFollowsChannels' /\ RecordsNumbered' /\ NoFalseAlarm'
<1>1. InfoAtPosition'
  BY DEF IInv, InfoAtPosition, Received
<1>2. DomainFollowsChannels'
  BY DEF IInv, DomainFollowsChannels, data_source_info_get_sequence_number, Passed
<1>3. RecordsNumbered'
  BY DEF IInv, RecordsNumbered, data_source_info_get_sequence_number
<1>4. NoFalseAlarm'
  BY DEF IInv, NoFalseAlarm
<1> QED
  BY <1>1, <1>2, <1>3, <1>4

\* A message is sent.
LEMMA SendStep ==
  ASSUME IInv, NEW c \in Channels, Send(c)
  PROVE  IInv'
<1>1. PICK n \in 0 .. MaxRecords :
        /\ sent[c] < MaxMessages
        /\ sent' = [sent EXCEPT ![c] = sent[c] + 1]
        /\ wire' = [wire EXCEPT ![c] =
             Append(wire[c], [sequence_number |-> exported[c], records |-> n])]
        /\ exported' = [exported EXCEPT ![c] = (exported[c] + n) % Wrap]
  BY DEF Send
<1> DEFINE m == [sequence_number |-> exported[c], records |-> n]
<1>2. UNCHANGED <<input_info, data_source_info, position, past, written, disturbed, warned>>
  BY DEF Send, history
<1>3. m \in Messages /\ After(m) = (exported[c] + n) % Wrap
  BY DEF IInv, TypeOK, Messages, After
<1>4. After(m) \in Numbers
  <2>1. exported[c] + n \in Int
    BY BoundsAssumption, WrapAssumption DEF IInv, TypeOK, Numbers
  <2> QED
    BY <1>3, <2>1, ModDivision
<1> HIDE DEF m
<1>5. wire' = [wire EXCEPT ![c] = Append(wire[c], m)]
      /\ exported' = [exported EXCEPT ![c] = After(m)]
  BY <1>1, <1>3 DEF m
<1>6. TypeOK'
  <2>1. sent' \in [Channels -> 0 .. MaxMessages]
    BY <1>1, BoundsAssumption DEF IInv, TypeOK
  <2>2. Append(wire[c], m) \in Seq(Messages)
    BY <1>3 DEF IInv, TypeOK
  <2>3. wire' \in [Channels -> Seq(Messages)]
    BY <1>5, <2>2 DEF IInv, TypeOK
  <2>4. exported' \in [Channels -> Numbers]
    BY <1>4, <1>5 DEF IInv, TypeOK
  <2> QED
    BY <1>2, <2>1, <2>3, <2>4 DEF IInv, TypeOK
<1>7. WireInOrder'
  <2> SUFFICES ASSUME NEW e \in Channels \ disturbed
               PROVE  Chain(wire'[e], position[e], exported'[e])
    BY <1>2 DEF WireInOrder
  <2>1. Chain(wire[e], position[e], exported[e]) /\ wire[e] \in Seq(Messages)
    BY DEF IInv, WireInOrder, TypeOK
  <2>2. CASE e = c
    <3>1. m.sequence_number = exported[c]
      BY DEF m
    <3>2. Chain(Append(wire[c], m), position[c], After(m))
      BY <2>1, <2>2, <3>1, <1>3, ChainAppend
    <3>3. wire'[c] = Append(wire[c], m) /\ exported'[c] = After(m)
      BY <1>5 DEF IInv, TypeOK
    <3> QED
      BY <2>2, <3>2, <3>3
  <2>3. CASE e # c
    <3>1. wire'[e] = wire[e] /\ exported'[e] = exported[e]
      BY <1>5, <2>3 DEF IInv, TypeOK
    <3> QED
      BY <2>1, <3>1
  <2> QED
    BY <2>2, <2>3
<1> QED
  BY <1>2, <1>6, <1>7, CollectorUnchanged DEF IInv

\* A message is lost.
LEMMA LoseStep ==
  ASSUME IInv, NEW c \in Channels, Lose(c)
  PROVE  IInv'
<1>1. PICK i \in DOMAIN wire[c] :
        wire' = [wire EXCEPT ![c] = RemoveAt(wire[c], i)]
  BY DEF Lose
<1>2. UNCHANGED <<exported, sent, input_info, data_source_info, position, past, written, warned>>
      /\ disturbed' = disturbed \cup {c}
  BY DEF Lose, exporter
<1>3. TypeOK'
  <2>1. wire[c] \in Seq(Messages)
    BY DEF IInv, TypeOK
  <2>2. RemoveAt(wire[c], i) \in Seq(Messages)
    BY <2>1, RemoveAtFacts
  <2>3. wire' \in [Channels -> Seq(Messages)]
    BY <1>1, <2>2 DEF IInv, TypeOK
  <2> QED
    BY <1>2, <2>3 DEF IInv, TypeOK
<1>4. WireInOrder'
  <2> SUFFICES ASSUME NEW e \in Channels \ disturbed'
               PROVE  Chain(wire'[e], position[e], exported[e])
    BY <1>2 DEF WireInOrder
  <2>1. e # c /\ e \in Channels \ disturbed
    BY <1>2
  <2>2. wire'[e] = wire[e]
    BY <1>1, <2>1 DEF IInv, TypeOK
  <2> QED
    BY <2>1, <2>2 DEF IInv, WireInOrder
<1> QED
  BY <1>2, <1>3, <1>4, CollectorUnchanged DEF IInv

\* The number of a domain, and the numbers its channels have passed, when
\* channel c comes to v.
LEMMA PassedInDomain ==
  ASSUME IInv, NEW c \in Channels, NEW v \in Numbers,
         position' = [position EXCEPT ![c] = v], NEW d \in Domains
  PROVE  /\ Cardinality(Passed(d)) \in Nat
         /\ d = Domain[c] => Cardinality(Passed(d)')
                               = Cardinality(Passed(d)) - position[c] + v
         /\ d # Domain[c] => Passed(d)' = Passed(d)
<1>1. position \in [Channels -> Numbers]
  BY DEF IInv, TypeOK
<1>2. Passed(d) = PassedIn(position, ChannelsOf(d))
      /\ Passed(d)' = PassedIn(position', ChannelsOf(d))
  BY DEF Passed, PassedIn, ChannelsOf
<1>3. ChannelsOf(d) \in SUBSET Channels /\ (c \in ChannelsOf(d) <=> d = Domain[c])
  BY DEF ChannelsOf
<1> DEFINE S == ChannelsOf(d)
           new == [position EXCEPT ![c] = v]
<1> HIDE DEF S
<1>4. /\ Cardinality(PassedIn(position, S)) \in Nat
      /\ c \in S => Cardinality(PassedIn(new, S))
                      = Cardinality(PassedIn(position, S)) - position[c] + v
      /\ c \notin S => PassedIn(new, S) = PassedIn(position, S)
  BY <1>1, <1>3, PassedChange, Zenon DEF S
<1> QED
  BY <1>2, <1>3, <1>4 DEF S

\* A message arrives, out of order, again or with unknown templates perhaps.
LEMMA ReceiveStep ==
  ASSUME SeparateInfos, IInv, NEW c \in Channels, Receive(c)
  PROVE  IInv'
<1> DEFINE d == Domain[c]
           info == Received(c)
           x == data_source_info_get_sequence_number(d)
<1>1. PICK i \in DOMAIN wire[c], n \in 0 .. MaxRecords :
        /\ Arrives(c, i)
        /\ preprocessor_parse_msg(c, i, n)
        /\ disturbed' = IF i # 1 \/ wire' = wire \/ n # wire[c][i].records
                        THEN disturbed \cup {c} ELSE disturbed
        /\ UNCHANGED <<exported, sent, past>>
  BY DEF Receive, exporter
<1> DEFINE msg == wire[c][i]
           number == msg.sequence_number
           new == (number + n) % Wrap
           seqn == CorrectedNumber(x, info.sequence_number, number)
<1>2. /\ info.packets < MaxPackets
      /\ input_info' = [input_info EXCEPT ![Info[c]] =
           [sequence_number |-> new, packets |-> info.packets + 1]]
      /\ data_source_info' = [data_source_info EXCEPT ![d] = (seqn + n) % Wrap]
      /\ warned' = IF ReportsError(info, number) THEN warned \cup {c} ELSE warned
      /\ position' = [position EXCEPT ![c] = new]
      /\ written' = [written EXCEPT ![d] = (written[d] + n) % Wrap]
  BY <1>1 DEF preprocessor_parse_msg
<1>3. d \in Domains /\ Info[c] \in Infos /\ wire[c] \in Seq(Messages)
  BY ChannelsAssumption DEF Infos, IInv, TypeOK
<1>4. x \in Numbers /\ info \in InputInfos
  BY <1>3, DomainNumber, ReceivedInfo DEF IInv
<1>5. msg \in Messages
  BY <1>3
<1>6. /\ number \in Numbers /\ n \in Int /\ number \in Int
      /\ info.sequence_number \in Int
  BY <1>4, <1>5 DEF Messages, InputInfos, Numbers
<1>7. info.sequence_number = position[c]
  BY DEF IInv, InfoAtPosition
<1>8. new \in Numbers
  BY <1>6, ModDivision
<1>9. seqn \in Int
  <2>1. x + (number - info.sequence_number) \in Int
    BY <1>4, <1>6 DEF Numbers
  <2> QED
    BY <2>1, ModDivision DEF CorrectedNumber, Numbers
<1>10. (seqn + n) % Wrap \in Numbers
  BY <1>6, <1>9, ModDivision
<1>11. \/ wire' = wire
       \/ wire' = [wire EXCEPT ![c] = RemoveAt(wire[c], i)]
  BY <1>1 DEF Arrives
<1>12. ASSUME c \notin disturbed'
       PROVE  /\ c \notin disturbed /\ number = position[c]
              /\ n = msg.records /\ new = After(msg)
              /\ Chain(wire'[c], new, exported[c])
  <2>1. i = 1 /\ wire' # wire /\ n = msg.records /\ c \notin disturbed
    BY <1>1, <1>12
  <2>2. wire' = [wire EXCEPT ![c] = RemoveAt(wire[c], 1)]
    BY <2>1, <1>11
  <2>3. wire'[c] = RemoveAt(wire[c], 1)
    BY <2>2 DEF IInv, TypeOK
  <2>4. Chain(wire[c], position[c], exported[c])
    BY <2>1 DEF IInv, WireInOrder
  <2>5. 1 \in DOMAIN wire[c]
    BY <2>1
  <2>6. /\ wire[c][1].sequence_number = position[c]
        /\ Chain(RemoveAt(wire[c], 1), After(wire[c][1]), exported[c])
    BY <1>3, <2>4, <2>5, ChainFirst
  <2>7. new = After(msg)
    BY <2>1 DEF After
  <2> QED
    BY <2>1, <2>3, <2>6, <2>7
<1> HIDE DEF d, info, x, msg, number, new, seqn
<1>13. TypeOK'
  <2>1. wire' \in [Channels -> Seq(Messages)]
    <3>1. RemoveAt(wire[c], i) \in Seq(Messages)
      BY <1>3, RemoveAtFacts
    <3> QED
      BY <1>11, <3>1 DEF IInv, TypeOK
  <2>2. [sequence_number |-> new, packets |-> info.packets + 1] \in InputInfos
    BY <1>2, <1>4, <1>8, BoundsAssumption DEF InputInfos
  <2>3. input_info' \in [Infos -> InputInfos \cup {NULL}]
    BY <1>2, <1>3, <2>2 DEF IInv, TypeOK
  <2>4. data_source_info' \in [Domains -> Numbers \cup {NULL}]
    BY <1>2, <1>3, <1>10 DEF IInv, TypeOK
  <2>5. position' \in [Channels -> Numbers]
    BY <1>2, <1>8 DEF IInv, TypeOK
  <2>6. written[d] + n \in Int
    BY <1>3, <1>6 DEF IInv, TypeOK, Numbers
  <2>7. (written[d] + n) % Wrap \in Numbers
    BY <2>6, ModDivision
  <2>8. written' \in [Domains -> Numbers]
    BY <1>2, <1>3, <2>7 DEF IInv, TypeOK
  <2>9. disturbed' \subseteq Channels /\ warned' \subseteq Channels
    BY <1>1, <1>2 DEF IInv, TypeOK
  <2> QED
    BY <1>1, <2>1, <2>3, <2>4, <2>5, <2>8, <2>9 DEF IInv, TypeOK
<1>14. InfoAtPosition'
  <2> SUFFICES ASSUME NEW e \in Channels
               PROVE  Received(e)'.sequence_number = position'[e]
    BY DEF InfoAtPosition
  <2>1. CASE e = c
    <3> DEFINE r == [sequence_number |-> new, packets |-> info.packets + 1]
    <3>1. r \in InputInfos
      BY <1>2, <1>4, <1>8, BoundsAssumption DEF InputInfos
    <3>2. input_info'[Info[c]] = r
      BY <1>2, <1>3 DEF IInv, TypeOK
    <3>3. r # NULL
      BY <3>1, NullAssumption
    <3>4. Received(c)' = r
      BY <3>2, <3>3 DEF Received
    <3>5. position'[c] = new
      BY <1>2 DEF IInv, TypeOK
    <3> QED
      BY <2>1, <3>4, <3>5
  <2>2. CASE e # c
    <3>1. Info[e] # Info[c] /\ Info[e] \in Infos
      BY <2>2 DEF SeparateInfos, Infos
    <3>2. input_info'[Info[e]] = input_info[Info[e]]
      BY <1>2, <3>1 DEF IInv, TypeOK
    <3>3. Received(e)' = Received(e)
      BY <3>2 DEF Received
    <3>4. position'[e] = position[e]
      BY <1>2, <2>2 DEF IInv, TypeOK
    <3> QED
      BY <3>3, <3>4 DEF IInv, InfoAtPosition
  <2> QED
    BY <2>1, <2>2
<1>15. WireInOrder'
  <2> SUFFICES ASSUME NEW e \in Channels \ disturbed'
               PROVE  Chain(wire'[e], position'[e], exported'[e])
    BY DEF WireInOrder
  <2>1. CASE e = c
    <3>1. position'[c] = new
      BY <1>2 DEF IInv, TypeOK
    <3> QED
      BY <1>1, <1>12, <2>1, <3>1
  <2>2. CASE e # c
    <3>1. wire'[e] = wire[e] /\ position'[e] = position[e] /\ e \notin disturbed
      BY <1>1, <1>2, <1>11, <2>2 DEF IInv, TypeOK
    <3> QED
      BY <1>1, <3>1 DEF IInv, WireInOrder
  <2> QED
    BY <2>1, <2>2
<1>16. ASSUME NEW e \in Domains
       PROVE  /\ e = d => data_source_info_get_sequence_number(e)' = (seqn + n) % Wrap
              /\ e # d => data_source_info_get_sequence_number(e)'
                            = data_source_info_get_sequence_number(e)
  <2>1. e = d => data_source_info'[e] = (seqn + n) % Wrap
    BY <1>2 DEF IInv, TypeOK
  <2>2. (seqn + n) % Wrap # NULL
    BY <1>10, NullAssumption
  <2>3. e # d => data_source_info'[e] = data_source_info[e]
    BY <1>2 DEF IInv, TypeOK
  <2> QED
    BY <2>1, <2>2, <2>3 DEF data_source_info_get_sequence_number
<1>17. DomainFollowsChannels'
  <2> SUFFICES ASSUME NEW e \in Domains
               PROVE  data_source_info_get_sequence_number(e)'
                        = (past'[e] + Cardinality(Passed(e)')) % Wrap
    BY DEF DomainFollowsChannels
  <2>1. /\ Cardinality(Passed(e)) \in Nat
        /\ e = d => Cardinality(Passed(e)') = Cardinality(Passed(e)) - position[c] + new
        /\ e # d => Passed(e)' = Passed(e)
    BY <1>2, <1>8, PassedInDomain DEF d
  <2>2. data_source_info_get_sequence_number(e)
          = (past[e] + Cardinality(Passed(e))) % Wrap
    BY DEF IInv, DomainFollowsChannels
  <2>3. past'[e] = past[e] /\ past[e] \in Int /\ position[c] \in Int
    BY <1>1 DEF IInv, TypeOK, Numbers
  <2>4. CASE e = d
    <3> DEFINE k == Cardinality(Passed(e))
    <3>1. seqn = CorrectedNumber((past[e] + k) % Wrap, position[c], number)
      BY <1>7, <2>2, <2>4 DEF seqn, x
    <3>2. k \in Int
      BY <2>1
    <3> HIDE DEF k
    <3>3. (seqn + n) % Wrap = (past[e] + (k - position[c] + new)) % Wrap
      <4>1. past[e] \in Int /\ position[c] \in Int /\ number \in Int /\ n \in Int
        BY <1>6, <2>3
      <4>2. seqn = CorrectedNumber(Plus(past[e], k), position[c], number)
        BY <3>1 DEF Plus
      <4>3. MovesBoth(seqn, past[e], k, position[c], number, n)
        BY <3>2, <4>1, <4>2, CorrectedSum
      <4> QED
        BY <4>3 DEF new, Plus, MovesBoth
    <3>4. data_source_info_get_sequence_number(e)' = (seqn + n) % Wrap
      BY <1>16, <2>4
    <3>5. Cardinality(Passed(e)') = k - position[c] + new
      BY <2>1, <2>4 DEF k
    <3> QED
      BY <2>3, <3>3, <3>4, <3>5
  <2>5. CASE e # d
    BY <1>16, <2>1, <2>2, <2>3, <2>5
  <2> QED
    BY <2>4, <2>5
<1>18. RecordsNumbered'
  <2> SUFFICES ASSUME NEW e \in Domains, ChannelsOf(e) \cap disturbed' = {}
               PROVE  data_source_info_get_sequence_number(e)' = written'[e]
    BY DEF RecordsNumbered, ChannelsOf
  <2>1. disturbed \subseteq disturbed'
    BY <1>1
  <2>2. data_source_info_get_sequence_number(e) = written[e]
    BY <2>1 DEF IInv, RecordsNumbered
  <2>3. CASE e = d
    <3>1. c \in ChannelsOf(e)
      BY <2>3 DEF ChannelsOf, d
    <3>2. c \notin disturbed'
      BY <3>1
    <3>3. number = info.sequence_number
      BY <1>7, <1>12, <3>2
    <3>4. seqn = x
      BY <1>4, <1>6, <3>3, CorrectedExpected DEF seqn
    <3>5. written'[e] = (written[e] + n) % Wrap
      BY <1>2, <2>3 DEF IInv, TypeOK
    <3>6. x = written[e]
      BY <2>2, <2>3 DEF x
    <3> QED
      BY <1>16, <2>3, <3>4, <3>5, <3>6
  <2>4. CASE e # d
    <3>1. written'[e] = written[e]
      BY <1>2, <2>4 DEF IInv, TypeOK
    <3> QED
      BY <1>16, <2>2, <2>4, <3>1
  <2> QED
    BY <2>3, <2>4
<1>19. NoFalseAlarm'
  <2>1. warned \subseteq disturbed /\ disturbed \subseteq disturbed'
    BY <1>1 DEF IInv, NoFalseAlarm
  <2>2. ReportsError(info, number) => c \in disturbed'
    BY <1>7, <1>12 DEF ReportsError
  <2> QED
    BY <1>2, <2>1, <2>2 DEF NoFalseAlarm
<1> QED
  BY <1>13, <1>14, <1>15, <1>17, <1>18, <1>19 DEF IInv

\* A connection ends, and its channel starts again.
LEMMA CloseStep ==
  ASSUME SeparateInfos, IInv, NEW c \in Channels, Close(c)
  PROVE  IInv'
<1> DEFINE d == Domain[c]
           sum == (past[d] + position[c]) % Wrap
<1>1. /\ input_info' = [input_info EXCEPT ![Info[c]] = NULL]
      /\ data_source_info' = data_source_info
      /\ wire' = [wire EXCEPT ![c] = << >>]
      /\ exported' = [exported EXCEPT ![c] = 0]
      /\ past' = [past EXCEPT ![d] = sum]
      /\ position' = [position EXCEPT ![c] = 0]
      /\ UNCHANGED <<sent, written, disturbed, warned>>
  BY DEF Close, remove_input_info, data_source_info_remove_source
<1>2. d \in Domains /\ Info[c] \in Infos
  BY ChannelsAssumption DEF Infos
<1>3. 0 \in Numbers
  BY WrapAssumption DEF Numbers
<1>4. past[d] \in Int /\ position[c] \in Int /\ past[d] + position[c] \in Int
  BY <1>2 DEF IInv, TypeOK, Numbers
<1>5. sum \in Numbers
  BY <1>4, ModDivision
<1> HIDE DEF d, sum
<1>6. TypeOK'
  <2>1. wire' \in [Channels -> Seq(Messages)]
    BY <1>1 DEF IInv, TypeOK
  <2>2. input_info' \in [Infos -> InputInfos \cup {NULL}]
    BY <1>1, <1>2 DEF IInv, TypeOK
  <2>3. past' \in [Domains -> Numbers]
    BY <1>1, <1>2, <1>5 DEF IInv, TypeOK
  <2>4. exported' \in [Channels -> Numbers] /\ position' \in [Channels -> Numbers]
    BY <1>1, <1>3 DEF IInv, TypeOK
  <2> QED
    BY <1>1, <2>1, <2>2, <2>3, <2>4 DEF IInv, TypeOK
<1>7. InfoAtPosition'
  <2> SUFFICES ASSUME NEW e \in Channels
               PROVE  Received(e)'.sequence_number = position'[e]
    BY DEF InfoAtPosition
  <2>1. CASE e = c
    <3>1. input_info'[Info[c]] = NULL /\ position'[c] = 0
      BY <1>1, <1>2 DEF IInv, TypeOK
    <3> QED
      BY <2>1, <3>1 DEF Received, create_input_info
  <2>2. CASE e # c
    <3>1. Info[e] # Info[c] /\ Info[e] \in Infos
      BY <2>2 DEF SeparateInfos, Infos
    <3>2. input_info'[Info[e]] = input_info[Info[e]] /\ position'[e] = position[e]
      BY <1>1, <2>2, <3>1 DEF IInv, TypeOK
    <3>3. Received(e)' = Received(e)
      BY <3>2 DEF Received
    <3> QED
      BY <3>2, <3>3 DEF IInv, InfoAtPosition
  <2> QED
    BY <2>1, <2>2
<1>8. WireInOrder'
  <2> SUFFICES ASSUME NEW e \in Channels \ disturbed
               PROVE  Chain(wire'[e], position'[e], exported'[e])
    BY <1>1 DEF WireInOrder
  <2>1. CASE e = c
    <3>1. wire'[c] = << >> /\ position'[c] = 0 /\ exported'[c] = 0
      BY <1>1 DEF IInv, TypeOK
    <3> QED
      BY <2>1, <3>1 DEF Chain
  <2>2. CASE e # c
    <3>1. wire'[e] = wire[e] /\ position'[e] = position[e] /\ exported'[e] = exported[e]
      BY <1>1, <2>2 DEF IInv, TypeOK
    <3> QED
      BY <3>1 DEF IInv, WireInOrder
  <2> QED
    BY <2>1, <2>2
<1>9. DomainFollowsChannels'
  <2> SUFFICES ASSUME NEW e \in Domains
               PROVE  data_source_info_get_sequence_number(e)
                        = (past'[e] + Cardinality(Passed(e)')) % Wrap
    BY <1>1 DEF DomainFollowsChannels, data_source_info_get_sequence_number
  <2>1. /\ Cardinality(Passed(e)) \in Nat
        /\ e = d => Cardinality(Passed(e)') = Cardinality(Passed(e)) - position[c] + 0
        /\ e # d => Passed(e)' = Passed(e)
    BY <1>1, <1>3, PassedInDomain DEF d
  <2>2. data_source_info_get_sequence_number(e)
          = (past[e] + Cardinality(Passed(e))) % Wrap
    BY DEF IInv, DomainFollowsChannels
  <2>3. CASE e = d
    <3> DEFINE k == Cardinality(Passed(e))
    <3>1. past'[e] = (past[e] + position[c]) % Wrap
      BY <1>1, <2>3 DEF IInv, TypeOK, sum
    <3>2. k - position[c] \in Int /\ k \in Int
      BY <1>4, <2>1
    <3>3. Cardinality(Passed(e)') = k - position[c]
      BY <2>1, <2>3, <3>2
    <3> HIDE DEF k
    <3>4. (((past[e] + position[c]) % Wrap) + (k - position[c])) % Wrap
            = (past[e] + position[c] + (k - position[c])) % Wrap
      BY <1>4, <2>3, <3>2, ModPlus
    <3>5. past[e] + position[c] + (k - position[c]) = past[e] + k
      BY <1>4, <2>3, <3>2
    <3> QED
      BY <2>2, <3>1, <3>3, <3>4, <3>5 DEF k
  <2>4. CASE e # d
    <3>1. past'[e] = past[e]
      BY <1>1, <2>4 DEF IInv, TypeOK
    <3> QED
      BY <2>1, <2>2, <2>4, <3>1
  <2> QED
    BY <2>3, <2>4
<1>10. RecordsNumbered' /\ NoFalseAlarm'
  BY <1>1 DEF IInv, RecordsNumbered, NoFalseAlarm,
              data_source_info_get_sequence_number
<1> QED
  BY <1>6, <1>7, <1>8, <1>9, <1>10 DEF IInv

\* Every step keeps the invariant.
LEMMA NextIInv ==
  ASSUME SeparateInfos, IInv, [Next]_vars
  PROVE  IInv'
<1>1. CASE UNCHANGED vars
  BY <1>1 DEF vars, IInv, TypeOK, InfoAtPosition, Received, WireInOrder,
     DomainFollowsChannels, Passed, RecordsNumbered, NoFalseAlarm,
     data_source_info_get_sequence_number
<1>2. CASE Next
  BY <1>2, SendStep, LoseStep, ReceiveStep, CloseStep DEF Next
<1> QED
  BY <1>1, <1>2

-----------------------------------------------------------------------------
(***************************************************************************)
(* The theorems.                                                           *)
(***************************************************************************)

\* The invariant holds always.
THEOREM Invariant ==
  ASSUME SeparateInfos
  PROVE  Spec => []IInv
<1>1. IInv /\ [Next]_vars => IInv'
  BY NextIInv
<1> QED
  BY <1>1, InitIInv, PTL DEF Spec

\* The number put into the messages of a domain (preprocessor.c:612-626) is the
\* sum of how far its channels have come, closed ones included, through losses,
\* reordering, duplicates, unknown templates, and any wrapping around.
THEOREM NumbersFollowChannels ==
  ASSUME SeparateInfos
  PROVE  Spec => []DomainFollowsChannels
<1>1. IInv => DomainFollowsChannels
  BY DEF IInv
<1> QED
  BY <1>1, Invariant, PTL

\* While nothing goes wrong in the channels of a domain, the number is that of
\* the records passed on.
THEOREM NumbersCountRecords ==
  ASSUME SeparateInfos
  PROVE  Spec => []RecordsNumbered
<1>1. IInv => RecordsNumbered
  BY DEF IInv
<1> QED
  BY <1>1, Invariant, PTL

\* An error is reported (preprocessor.c:601-609) only for a channel in which
\* something was lost, reordered, duplicated or not decoded.
THEOREM AlarmsJustified ==
  ASSUME SeparateInfos
  PROVE  Spec => []NoFalseAlarm
<1>1. IInv => NoFalseAlarm
  BY DEF IInv
<1> QED
  BY <1>1, Invariant, PTL

=============================================================================
