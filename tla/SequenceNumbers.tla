--------------------------- MODULE SequenceNumbers ---------------------------
(***************************************************************************)
(* Sequence numbers of base/src/preprocessor.c.  An exporter numbers the   *)
(* data records of each domain in each of its sessions, a channel here.    *)
(* Several channels may be one domain to the Preprocessor, which tells     *)
(* them apart by a CRC of the address and by the ODID; behind it they are  *)
(* one stream, numbered by the domain's own counter (struct                *)
(* data_source_info).  Messages are lost, reordered and duplicated when    *)
(* the channel runs over UDP, records whose template is unknown are not    *)
(* counted, and a connection that closes starts again from 0.              *)
(***************************************************************************)
EXTENDS Integers, Sequences, FiniteSets, SequencesExt

CONSTANTS
  Channels,      \* (transport session, domain) pairs
  Udp,           \* the ones over UDP; the others are reliable and in order
  Domains,       \* (CRC of the exporter, ODID)
  Domain,        \* the domain of each channel
  Info,          \* the structure input_info of each channel: its own over
                 \* TCP and UDP, one for the whole session over SCTP
  Wrap,          \* numbers are modulo Wrap, 2^32 in the code
  MaxMessages,   \* bound: messages an exporter sends in one channel
  MaxRecords,    \* bound: data records of one message
  MaxPackets,    \* bound: messages received from one input_info
  NULL           \* no structure

ASSUME ChannelsAssumption ==
  /\ Udp \subseteq Channels
  /\ IsFiniteSet(Channels)
  /\ Domain \in [Channels -> Domains]
  /\ DOMAIN Info = Channels

ASSUME WrapAssumption == Wrap \in Nat \ {0}

ASSUME BoundsAssumption ==
  MaxMessages \in Nat /\ MaxRecords \in Nat /\ MaxPackets \in Nat

Infos == { Info[c] : c \in Channels }

VARIABLES
  exported,           \* [Channels -> the exporter's next number]
  sent,               \* [Channels -> messages sent], for the bound
  wire,               \* [Channels -> messages on the way]
  input_info,         \* [Infos -> structure of the input plugin or NULL]
  data_source_info,   \* [Domains -> sequence_number or NULL]
  \* history, read only by the properties
  position,           \* [Channels -> number after the last record received]
  past,               \* [Domains -> sum of the positions of closed channels]
  written,            \* [Domains -> data records passed on, modulo Wrap]
  disturbed,          \* channels in which something was lost, reordered,
                      \* duplicated or not decoded
  warned              \* channels a sequence number error was reported for

exporter == << exported, sent >>

history == << position, past, written, disturbed, warned >>

vars == << exported, sent, wire, input_info, data_source_info,
           position, past, written, disturbed, warned >>

Numbers == 0 .. Wrap - 1

Messages == [sequence_number : Numbers, records : 0 .. MaxRecords]

InputInfos == [sequence_number : Numbers, packets : 0 .. MaxPackets]

\* A null pointer is neither.
ASSUME NullAssumption == NULL \notin Numbers /\ NULL \notin InputInfos

\* Everything is of the type of its declaration in C, or of its comment above.
TypeOK ==
  /\ exported \in [Channels -> Numbers]
  /\ sent \in [Channels -> 0 .. MaxMessages]
  /\ wire \in [Channels -> Seq(Messages)]
  /\ input_info \in [Infos -> InputInfos \cup {NULL}]
  /\ data_source_info \in [Domains -> Numbers \cup {NULL}]
  /\ position \in [Channels -> Numbers]
  /\ past \in [Domains -> Numbers]
  /\ written \in [Domains -> Numbers]
  /\ disturbed \subseteq Channels
  /\ warned \subseteq Channels

Init ==
  /\ exported = [c \in Channels |-> 0]
  /\ sent = [c \in Channels |-> 0]
  /\ wire = [c \in Channels |-> << >>]
  /\ input_info = [i \in Infos |-> NULL]
  /\ data_source_info = [d \in Domains |-> NULL]
  /\ position = [c \in Channels |-> 0]
  /\ past = [d \in Domains |-> 0]
  /\ written = [d \in Domains |-> 0]
  /\ disturbed = {}
  /\ warned = {}

-----------------------------------------------------------------------------
(* The exporter and the network. *)

Send(c) ==
  \E n \in 0 .. MaxRecords :
    /\ sent[c] < MaxMessages
    /\ sent' = [sent EXCEPT ![c] = @ + 1]
    /\ wire' = [wire EXCEPT ![c] =
                  Append(@, [sequence_number |-> exported[c], records |-> n])]
    /\ exported' = [exported EXCEPT ![c] = (@ + n) % Wrap]
    /\ UNCHANGED << input_info, data_source_info, history >>

Lose(c) ==
  \E i \in DOMAIN wire[c] :
    /\ c \in Udp
    /\ wire' = [wire EXCEPT ![c] = RemoveAt(@, i)]
    /\ disturbed' = disturbed \cup {c}
    /\ UNCHANGED << exporter, input_info, data_source_info, position, past, written, warned >>

\* Message i reaches the collector.  Over UDP it may overtake others, and
\* another copy of it may stay on the way.
Arrives(c, i) ==
  \E again \in BOOLEAN :
    /\ c \notin Udp => i = 1 /\ ~again
    /\ wire' = IF again THEN wire ELSE [wire EXCEPT ![c] = RemoveAt(@, i)]

-----------------------------------------------------------------------------
(* The Preprocessor. *)

\* The input plugin's structure for a source it has not seen.
create_input_info == [sequence_number |-> 0, packets |-> 0]

Received(c) ==
  IF input_info[Info[c]] = NULL THEN create_input_info ELSE input_info[Info[c]]

\* The domain's counter; the structure is added when it is missing.
data_source_info_get_sequence_number(d) ==
  IF data_source_info[d] = NULL THEN 0 ELSE data_source_info[d]

\* What the domain's counter becomes when the number of the message is not
\* the one expected.
CorrectedNumber_JustResynchronize(seqn, expected, number) == seqn

CorrectedNumber(seqn, expected, number) == (seqn + (number - expected)) % Wrap

\* The error is not reported for the first message of a source.
ReportsError(info, number) == info.sequence_number # number /\ info.packets > 0

\* preprocessor_parse_msg for message i of channel c, of whose records n are
\* in sets with a known template.
preprocessor_parse_msg(c, i, n) ==
  LET msg    == wire[c][i]
      d      == Domain[c]
      info   == Received(c)
      number == msg.sequence_number
      seqn   == CorrectedNumber(data_source_info_get_sequence_number(d),
                                info.sequence_number, number)
  IN /\ info.packets < MaxPackets
     /\ n <= msg.records
     /\ input_info' = [input_info EXCEPT ![Info[c]] =
          [ sequence_number |-> (number + n) % Wrap, packets |-> info.packets + 1 ]]
     /\ data_source_info' = [data_source_info EXCEPT ![d] = (seqn + n) % Wrap]
     /\ warned' = IF ReportsError(info, number) THEN warned \cup {c} ELSE warned
     /\ position' = [position EXCEPT ![c] = (number + n) % Wrap]
     /\ written' = [written EXCEPT ![d] = (@ + n) % Wrap]

Receive(c) ==
  \E i \in DOMAIN wire[c], n \in 0 .. MaxRecords :
    /\ Arrives(c, i)
    /\ preprocessor_parse_msg(c, i, n)
    /\ disturbed' = IF i # 1 \/ wire' = wire \/ n # wire[c][i].records
                    THEN disturbed \cup {c} ELSE disturbed
    /\ UNCHANGED << exporter, past >>

\* data_source_info_remove_source looks the structure up and leaves it: the
\* number of a domain goes on when its sources close.
data_source_info_remove_source_Freed(d) ==
  data_source_info' = [data_source_info EXCEPT ![d] = NULL]

data_source_info_remove_source(d) == UNCHANGED data_source_info

\* The structure of a closed connection goes with it.
remove_input_info_Kept(i) == UNCHANGED input_info

remove_input_info(i) == input_info' = [input_info EXCEPT ![i] = NULL]

\* A connection ends, with what is still on the way lost, and may be opened
\* again from the same address; its exporter starts from 0.  A UDP source is
\* never closed, and an SCTP association keeps its structure.
Close(c) ==
  LET d == Domain[c]
  IN /\ c \notin Udp
     /\ input_info[Info[c]] # NULL
     /\ \A e \in Channels \ {c} : Info[e] # Info[c]
     /\ remove_input_info(Info[c])
     /\ data_source_info_remove_source(d)
     /\ wire' = [wire EXCEPT ![c] = << >>]
     /\ exported' = [exported EXCEPT ![c] = 0]
     /\ past' = [past EXCEPT ![d] = (@ + position[c]) % Wrap]
     /\ position' = [position EXCEPT ![c] = 0]
     /\ UNCHANGED << sent, written, disturbed, warned >>

Next ==
  \E c \in Channels : Send(c) \/ Lose(c) \/ Receive(c) \/ Close(c)

Spec == Init /\ [][Next]_vars

-----------------------------------------------------------------------------
(* Properties *)

ChannelsOf(d) == { c \in Channels : Domain[c] = d }

\* The numbers the channels of a domain have come past.
Passed(d) == { r \in ChannelsOf(d) \X (1 .. Wrap) : r[2] <= position[r[1]] }

\* The number put into the next message of a domain (preprocessor.c:612-626)
\* is how far all its channels have come together, those closed included:
\* a gap or a step back in one channel, whatever the order in which the
\* channels' messages arrive, moves the domain's number by the same amount.
DomainFollowsChannels ==
  \A d \in Domains :
    data_source_info_get_sequence_number(d) =
      (past[d] + Cardinality(Passed(d))) % Wrap

\* As long as nothing is lost, reordered, duplicated or undecodable in any
\* channel of a domain, its messages are numbered as the standard says: by
\* the number of records passed on before, modulo 2^32, through closes and
\* new connections and however the channels interleave.
RecordsNumbered ==
  \A d \in Domains :
    ChannelsOf(d) \cap disturbed = {} =>
      data_source_info_get_sequence_number(d) = written[d]

\* A sequence number error (preprocessor.c:601-609) is reported only for a
\* channel in which something really went wrong.
NoFalseAlarm == warned \subseteq disturbed

====
