---------------------------- MODULE PacketBuilder ----------------------------
(***************************************************************************)
(* The packet builder of the forwarding storage                            *)
(* (base/src/storage/forwarding/packet.c).  A message to forward is        *)
(* collected as an array of parts (pointers for sendmsg) that form Sets;   *)
(* bldr_end cuts the array into packets of limited size.  The packets      *)
(* share the array: the IPFIX header of a packet is put over the last part *)
(* of the packet before it, which is recovered from a backup when that     *)
(* packet is asked for again, for the next destination.                    *)
(*                                                                         *)
(* Here a part is the place it was inserted at (what its pointer points    *)
(* to) with its length; places start with 1, which is reserved for the     *)
(* header.                                                                 *)
(***************************************************************************)
EXTENDS Integers, Sequences, FiniteSets

CONSTANTS
  HEADER_SIZE,            \* of a Set, of a template and of a withdrawal
  IPFIX_HEADER_LENGTH,
  PACKET_MIN_SIZE,
  TMPLT_SET_MAX_LEN,
  MaxLength,              \* the longest IPFIX message (65535)
  Sizes,                  \* packet sizes of the configuration
  Bodies,                 \* lengths of templates and data sets without headers
  NULL,
  MaxParts                \* bound: parts of a message

ASSUME BuilderAssumption ==
  /\ HEADER_SIZE \in Nat \ {0} /\ IPFIX_HEADER_LENGTH \in Nat \ {0}
  /\ MaxLength \in Nat /\ MaxParts \in Nat
  /\ PACKET_MIN_SIZE \in 1..MaxLength
  /\ TMPLT_SET_MAX_LEN \in Nat
  /\ TMPLT_SET_MAX_LEN + IPFIX_HEADER_LENGTH <= MaxLength
  /\ 2 * HEADER_SIZE + IPFIX_HEADER_LENGTH <= MaxLength
  /\ Sizes \subseteq 1..MaxLength
  \* A Set that is forwarded came in a message.
  /\ \A n \in Bodies :
       n \in Nat /\ n + HEADER_SIZE + IPFIX_HEADER_LENGTH <= MaxLength

\* A template came in a message too, in a Set of its own at worst.
TemplateBodies ==
  {n \in Bodies : n + 2 * HEADER_SIZE + IPFIX_HEADER_LENGTH <= MaxLength}

Types == {"template", "options"}

(***************************************************************************)
(* Structures: struct iovec, struct packet_range, the variables of the     *)
(* loop that cuts packets, and what bldr_pkts_iovec hands out.             *)
(***************************************************************************)

Fields == [base : Nat, len : 0..MaxLength]

Ranges == [start : Nat, size : Nat, backup : Fields, rec_cnt : Nat]

Loops ==
  [i : Nat, start : Nat, cur_len : Nat, parts : Nat,
   max_size : 1..MaxLength, done : BOOLEAN]

Packets == [idx : Nat, parts : Seq(Fields), length : Nat, rec_cnt : Nat]

\* A null pointer is none of them, nor a place.
ASSUME NullAssumption ==
  NULL \notin Nat /\ NULL \notin Loops /\ NULL \notin Packets

VARIABLES
  rec_flds,          \* the parts: what each points to, and its length
  rec_cnt,           \* data records in each part
  rec_set_start,     \* is it the start of a Set?
  length,            \* length in the Set header that was inserted there, or 0
  last_set_type,
  last_set_header,   \* place of the header of the last template Set, or NULL
  loop,              \* the loop of parts_packets_prepare, or NULL before it
  pkt_arr,           \* the packets: ranges of places
  built,             \* rec_flds as bldr_end finds them
  fetched            \* the packet asked for last, or NULL

parts_vars == <<rec_flds, rec_cnt, rec_set_start, length>>
set_vars == <<last_set_type, last_set_header>>
packet_vars == <<loop, pkt_arr, built, fetched>>
vars == <<parts_vars, set_vars, packet_vars>>

Field(base, len) == [base |-> base, len |-> len]

PacketHeader == Field(0, IPFIX_HEADER_LENGTH)

Init ==
  /\ rec_flds = <<Field(0, 0)>>
  /\ rec_cnt = <<0>>
  /\ rec_set_start = <<FALSE>>
  /\ length = <<0>>
  /\ last_set_type = <<"none">> /\ last_set_header = NULL
  /\ loop = NULL
  /\ pkt_arr = <<>>
  /\ built = <<>>
  /\ fetched = NULL

rec_size == Len(rec_flds)

is_complete == loop # NULL

Cutting == loop # NULL /\ ~loop.done

Ready == loop # NULL /\ loop.done

\* bldr_start: the next message; the arrays are used again.
bldr_start ==
  /\ Ready
  /\ rec_flds' = <<rec_flds[1]>>
  /\ rec_cnt' = <<0>>
  /\ rec_set_start' = <<FALSE>>
  /\ length' = <<0>>
  /\ last_set_type' = <<"none">> /\ last_set_header' = NULL
  /\ loop' = NULL
  /\ pkt_arr' = <<>>
  /\ built' = <<>>
  /\ fetched' = NULL

-----------------------------------------------------------------------------
(***************************************************************************)
(* Adding Sets.  new is the sequence of parts that an operation inserts,   *)
(* each with its length, records, start of Set, and Set length.            *)
(***************************************************************************)

Part(len, rec, start, set_len) ==
  [len |-> len, rec |-> rec, start |-> start, set_len |-> set_len]

\* parts_insert for each part of new; of grow bytes the Set header at place h
\* is told.
parts_insert(new, h, grow) ==
  /\ ~is_complete
  /\ rec_size + Len(new) <= MaxParts
  /\ rec_flds' = rec_flds \o [k \in DOMAIN new |-> Field(rec_size + k, new[k].len)]
  /\ rec_cnt' = rec_cnt \o [k \in DOMAIN new |-> new[k].rec]
  /\ rec_set_start' = rec_set_start \o [k \in DOMAIN new |-> new[k].start]
  /\ length' = LET all == length \o [k \in DOMAIN new |-> new[k].set_len] IN
               [all EXCEPT ![h] = @ + grow]
  /\ UNCHANGED packet_vars

\* A Set or a template whose ID the mapper changed gets a new header, and its
\* body becomes a part of its own.
bldr_add_dataset(n, rec, remapped) ==
  /\ parts_insert(IF remapped
                  THEN <<Part(HEADER_SIZE, 0, TRUE, HEADER_SIZE + n),
                         Part(n, rec, FALSE, 0)>>
                  ELSE <<Part(HEADER_SIZE + n, rec, TRUE, HEADER_SIZE + n)>>, 1, 0)
  /\ last_set_type' = <<"data">> /\ last_set_header' = NULL

\* The last Set is extended if it is of the same kind and not too long.
Extends(kind, size) ==
  /\ last_set_type = kind
  /\ length[last_set_header] + size <= TMPLT_SET_MAX_LEN

\* bldr_aux_insert_set_header, unless the last Set is extended; then new.
AddToSet(kind, new, size) ==
  IF Extends(kind, size)
  THEN /\ parts_insert(new, last_set_header, size)
       /\ UNCHANGED set_vars
  ELSE /\ parts_insert(<<Part(HEADER_SIZE, 0, TRUE, HEADER_SIZE)>> \o new,
                       rec_size + 1, size)
       /\ last_set_type' = kind
       /\ last_set_header' = rec_size + 1

bldr_add_template(type, n, remapped) ==
  AddToSet(<<type, "define">>,
           IF remapped THEN <<Part(HEADER_SIZE, 0, FALSE, 0), Part(n, 0, FALSE, 0)>>
                       ELSE <<Part(HEADER_SIZE + n, 0, FALSE, 0)>>,
           HEADER_SIZE + n)

bldr_add_template_withdrawal(type) ==
  AddToSet(<<type, "withdraw">>, <<Part(HEADER_SIZE, 0, FALSE, 0)>>, HEADER_SIZE)

-----------------------------------------------------------------------------
(***************************************************************************)
(* Cutting the parts into packets.                                         *)
(***************************************************************************)

\* The parts of the Set that starts at place i.
parts_aux_set_parts(i) ==
  {j \in i..rec_size : \A k \in (i + 1)..j : ~rec_set_start[k]}

\* The sum of f over the places of S, as the number of things counted; neither
\* a length nor a number of records is greater than MaxLength.
Counted(f, S) == {u \in S \X (1..MaxLength) : u[2] <= f[u[1]]}

Total(f, S) == Cardinality(Counted(f, S))

SumLengths(flds, S) == Total([i \in DOMAIN flds |-> flds[i].len], S)

parts_aux_set_len(i) == SumLengths(rec_flds, parts_aux_set_parts(i))

Max(m, n) == IF m < n THEN n ELSE m

bldr_end(size) ==
  /\ ~is_complete
  /\ loop' = [i |-> 2, start |-> 2, cur_len |-> IPFIX_HEADER_LENGTH,
              parts |-> 0, max_size |-> Max(size, PACKET_MIN_SIZE),
              done |-> rec_size = 1]
  /\ built' = rec_flds
  /\ UNCHANGED <<parts_vars, set_vars, pkt_arr, fetched>>

Fits_Exceeds ==
  loop.cur_len <= loop.max_size \/ loop.parts = 0

Fits ==
  \/ loop.cur_len + parts_aux_set_len(loop.i) <= loop.max_size
  \/ loop.parts = 0

NextSet ==
  /\ Cutting
  /\ loop.i <= rec_size
  /\ Fits
  /\ LET n == Cardinality(parts_aux_set_parts(loop.i)) IN
     loop' = [loop EXCEPT !.i = @ + n, !.parts = @ + n,
                          !.cur_len = @ + parts_aux_set_len(loop.i)]
  /\ UNCHANGED <<parts_vars, set_vars, pkt_arr, built, fetched>>

\* The place before the first Set is the header's.
parts_packet_new ==
  pkt_arr' = Append(pkt_arr,
    [start |-> loop.start - 1, size |-> loop.parts + 1,
     backup |-> rec_flds[loop.start + loop.parts - 1],
     rec_cnt |-> Total(rec_cnt, loop.start..(loop.start + loop.parts - 1))])

NextPacket_SkipSet ==
  /\ Cutting
  /\ loop.i <= rec_size
  /\ ~Fits
  /\ parts_packet_new
  /\ LET i == loop.i + Cardinality(parts_aux_set_parts(loop.i)) IN
     loop' = [loop EXCEPT !.i = i, !.start = i, !.parts = 0,
                          !.cur_len = IPFIX_HEADER_LENGTH]
  /\ UNCHANGED <<parts_vars, set_vars, built, fetched>>

NextPacket ==
  /\ Cutting
  /\ loop.i <= rec_size
  /\ ~Fits
  /\ parts_packet_new
  /\ loop' = [loop EXCEPT !.start = loop.i, !.parts = 0,
                          !.cur_len = IPFIX_HEADER_LENGTH]
  /\ UNCHANGED <<parts_vars, set_vars, built, fetched>>

LastPacket ==
  /\ Cutting
  /\ loop.i > rec_size
  /\ parts_packet_new
  /\ loop' = [loop EXCEPT !.done = TRUE]
  /\ UNCHANGED <<parts_vars, set_vars, built, fetched>>

\* bldr_pkts_get: the last part is recovered, then the header is put over the
\* last part of the packet before.
Prepared_NoBackup(range) ==
  [rec_flds EXCEPT ![range.start] = PacketHeader]

Prepared(range) ==
  [rec_flds EXCEPT ![range.start + range.size - 1] = range.backup,
                   ![range.start] = PacketHeader]

bldr_pkts_iovec(idx) ==
  /\ Ready
  /\ idx \in DOMAIN pkt_arr
  /\ LET range == pkt_arr[idx]
         flds  == Prepared(range)
         last  == range.start + range.size - 1 IN
     /\ rec_flds' = flds
     /\ fetched' = [idx |-> idx, parts |-> SubSeq(flds, range.start, last),
                    length |-> IPFIX_HEADER_LENGTH
                                 + SumLengths(flds, (range.start + 1)..last),
                    rec_cnt |-> range.rec_cnt]
  /\ UNCHANGED <<rec_cnt, rec_set_start, length, set_vars, loop, pkt_arr, built>>

Next ==
  \/ bldr_start
  \/ \E n \in Bodies, remapped \in BOOLEAN : bldr_add_dataset(n, 1, remapped)
  \/ \E n \in TemplateBodies, remapped \in BOOLEAN, type \in Types :
       bldr_add_template(type, n, remapped)
  \/ \E type \in Types : bldr_add_template_withdrawal(type)
  \/ \E size \in Sizes : bldr_end(size)
  \/ NextSet \/ NextPacket \/ LastPacket
  \/ \E idx \in 1..MaxParts : bldr_pkts_iovec(idx)

Spec == Init /\ [][Next]_vars

-----------------------------------------------------------------------------
(***************************************************************************)
(* Properties.                                                             *)
(***************************************************************************)

Kinds == {<<"none">>, <<"data">>} \cup (Types \X {"define", "withdraw"})

\* The arrays have the same length, and every variable has its type.
TypeOK ==
  /\ rec_flds \in Seq(Fields) /\ rec_size > 0
  /\ rec_cnt \in Seq(0..MaxLength) /\ Len(rec_cnt) = rec_size
  /\ rec_set_start \in Seq(BOOLEAN) /\ Len(rec_set_start) = rec_size
  /\ length \in Seq(Nat) /\ Len(length) = rec_size
  /\ last_set_type \in Kinds /\ last_set_header \in Nat \cup {NULL}
  /\ loop \in Loops \cup {NULL}
  /\ pkt_arr \in Seq(Ranges)
  /\ built \in Seq(Fields)
  /\ fetched \in Packets \cup {NULL}

\* The places of a packet behind its header.
Places(p) == (p.start + 1)..(p.start + p.size - 1)

\* Every packet that is asked for, in whatever order and however often, is the
\* header and then its parts as they were inserted, although packets overwrite
\* each other's parts; the length in the header and the records agree.
PacketAsBuilt ==
  fetched # NULL =>
    LET p == pkt_arr[fetched.idx] IN
    /\ fetched.parts[1] = PacketHeader
    /\ \A k \in 2..Len(fetched.parts) :
         fetched.parts[k] = built[p.start + k - 1]
    /\ fetched.length = SumLengths(fetched.parts, DOMAIN fetched.parts)
    /\ fetched.rec_cnt = Total(rec_cnt, Places(p))

\* The packets have all parts, in order and once, and no Set is split.
NothingLeftOut ==
  Ready =>
    /\ UNION {Places(pkt_arr[k]) : k \in DOMAIN pkt_arr} = 2..rec_size
    /\ \A k \in DOMAIN pkt_arr :
         /\ pkt_arr[k].size > 1
         /\ rec_set_start[pkt_arr[k].start + 1]
         /\ k > 1 => pkt_arr[k].start =
                       pkt_arr[k - 1].start + pkt_arr[k - 1].size - 1

\* A packet is longer than the configured size only if it is one Set, which was
\* not longer when it came: the 16-bit length in the header never overflows.
PacketsLimited ==
  Ready => \A k \in DOMAIN pkt_arr :
    LET p   == pkt_arr[k]
        len == IPFIX_HEADER_LENGTH + SumLengths(built, Places(p)) IN
    /\ len <= MaxLength
    /\ \/ len <= loop.max_size
       \/ \A i \in Places(p) : i > p.start + 1 => ~rec_set_start[i]

\* Every Set header has the length of the Set that follows it: a template never
\* goes to a Set of another kind, or behind data.
SetLengthsTrue ==
  ~is_complete => \A i \in 2..rec_size :
    rec_set_start[i] => length[i] = parts_aux_set_len(i)

=============================================================================
