------------------------------ MODULE Forwarding ------------------------------
(***************************************************************************)
(* The forwarding storage plugin (base/src/storage/forwarding): the        *)
(* destination manager (destination.c) with its connector thread, and the  *)
(* sender of each destination (sender.c) with the buffer for what the      *)
(* socket does not take at once.                                           *)
(*                                                                         *)
(* The plugin's thread (main) takes a message, moves UDP destinations that *)
(* are due for their templates and destinations that reconnected, and      *)
(* sends the message to all destinations or to the next one in turn.  The  *)
(* connector thread moves destinations that it connected from disconn to   *)
(* ready.  conn and dst_idx belong to main, disconn and ready are guarded  *)
(* by group_mtx, ready_empty is read without it.                           *)
(*                                                                         *)
(* Which templates a message adds and which IDs they get is the business   *)
(* of the template mapper (module TemplateMapper); here templates only     *)
(* grow.  A message was cut into at most two packets by the packet         *)
(* builder; a data packet carries one record.                              *)
(***************************************************************************)
EXTENDS Integers, Sequences, SequencesExt, FiniteSets

CONSTANTS
  Configured,       \* the destinations in the order of the configuration
  Udp,              \* destinations reached by UDP
  Modes,            \* modes of distribution to look at: "all", "roundrobin"
  Templates,        \* templates of the forwarded data
  NULL,
  BufferSize,       \* packets the buffer of a sender holds
  MaxMessages,      \* bound: messages in a behaviour
  MaxConnections    \* bound: connections in a behaviour

Destinations == ToSet(Configured)

ASSUME ForwardingAssumption ==
  /\ Configured \in Seq(Destinations)
  /\ \A i, j \in DOMAIN Configured : Configured[i] = Configured[j] => i = j
  /\ Udp \subseteq Destinations
  /\ Modes \subseteq {"all", "roundrobin"}
  /\ NULL \notin Templates
  /\ BufferSize \in Nat /\ MaxMessages \in Nat /\ MaxConnections \in Nat

VARIABLES
  mode,             \* cfg->mode
  conn, disconn, ready,   \* the groups of destinations
  ready_empty,
  group_mtx,        \* who holds the mutex, or NULL
  dst_idx,          \* whose turn it is
  client,           \* destination -> its sender, and its sequence number
  templates,        \* the templates of the template mapper
  main,             \* what the plugin's thread does
  messages,         \* messages so far
  connections       \* connections so far

groups == <<conn, disconn, ready, ready_empty, group_mtx, dst_idx>>
vars == <<mode, groups, client, templates, main, messages, connections>>

(***************************************************************************)
(* A packet has the templates it announces and the template of its data    *)
(* (or NULL).  What was sent on a connection (stream) and what waits in    *)
(* the buffer are pieces: a packet, or the first part or the rest of one.  *)
(***************************************************************************)

Packet(tmplts, data) == [tmplts |-> tmplts, data |-> data]

Piece(pkt, seq, part) ==
  [tmplts |-> pkt.tmplts, data |-> pkt.data, seq |-> seq, part |-> part]

\* sender_create and the client of group_append: not connected, nothing sent.
NewClient == [open |-> FALSE, stream |-> <<>>, buffer |-> <<>>, seq |-> 0]

Idle == [pc |-> "idle"]

Init ==
  /\ mode \in Modes
  /\ conn = <<>> /\ ready = <<>>
  /\ disconn = Configured
  /\ ready_empty = TRUE
  /\ group_mtx = NULL
  /\ dst_idx = 0
  /\ client = [d \in Destinations |-> NewClient]
  /\ templates = {}
  /\ main = Idle
  /\ messages = 0
  /\ connections = 0

-----------------------------------------------------------------------------
(***************************************************************************)
(* The sender: s is a client; an operation has a set of possible results,  *)
(* each with the status that the destination manager sees.                 *)
(***************************************************************************)

sender_socket_close_KeepBuffer(s) == [s EXCEPT !.open = FALSE, !.stream = <<>>]

sender_socket_close(s) ==
  [s EXCEPT !.open = FALSE, !.stream = <<>>, !.buffer = <<>>]

\* sender_connect, if it succeeds: a socket that is still open is closed first.
sender_connect(s) ==
  [(IF s.open THEN sender_socket_close(s) ELSE s) EXCEPT !.open = TRUE]

Result(s, status) == [client |-> s, status |-> status]

Closed(s) == Result(sender_socket_close(s), "closed")

\* sender_buffer_store_io; a buffer that is full costs the connection.
sender_buffer_store(s, piece) ==
  IF Len(s.buffer) = BufferSize THEN Closed(s)
  ELSE Result([s EXCEPT !.buffer = Append(@, piece)], "ok")

First(piece) == [piece EXCEPT !.part = "first"]
Rest(piece)  == [piece EXCEPT !.part = "rest"]

\* sender_send_buffer: the socket takes nothing, some pieces of the buffer and
\* perhaps a part of the next, or all of them (a UDP socket takes all or
\* nothing, as one datagram); or the connection fails.
sender_send_buffer(s, udp) ==
  {[s EXCEPT !.stream = @ \o SubSeq(s.buffer, 1, n),
             !.buffer = SubSeq(@, n + 1, Len(@))] :
     n \in IF udp THEN {0, Len(s.buffer)} ELSE 0..Len(s.buffer)}
  \cup
  {[s EXCEPT !.stream = @ \o SubSeq(s.buffer, 1, n - 1)
                          \o <<First(s.buffer[n])>>,
             !.buffer = <<Rest(s.buffer[n])>> \o SubSeq(@, n + 1, Len(@))] :
     n \in {i \in 1..Len(s.buffer) : ~udp /\ s.buffer[i].part = "whole"}}
  \cup
  (IF s.buffer = <<>> THEN {} ELSE {sender_socket_close(s)})

\* sendmsg in sender_send_parts, with the buffer empty.
Transmit_NoRest(s, udp, required, piece) ==
  {Result([s EXCEPT !.stream = Append(@, piece)], "ok"), Closed(s)}
  \cup (IF udp THEN {}
        ELSE {Result([s EXCEPT !.stream = Append(@, First(piece))], "ok")})
  \cup (IF required THEN {sender_buffer_store(s, piece)}
                    ELSE {Result(s, "busy")})

Transmit(s, udp, required, piece) ==
  {Result([s EXCEPT !.stream = Append(@, piece)], "ok"), Closed(s)}
  \cup (IF udp THEN {}
        ELSE {sender_buffer_store([s EXCEPT !.stream = Append(@, First(piece))],
                                  Rest(piece))})
  \cup (IF required THEN {sender_buffer_store(s, piece)}
                    ELSE {Result(s, "busy")})

sender_send_parts(s, udp, required, piece) ==
  UNION {IF ~f.open THEN {Result(f, "closed")}
         ELSE IF f.buffer # <<>>
         THEN IF required THEN {sender_buffer_store(f, piece)}
                          ELSE {Result(f, "busy")}
         ELSE Transmit(f, udp, required, piece) : f \in sender_send_buffer(s, udp)}

\* One turn of the loop of dest_packet_sender.  The sequence number counts the
\* records of the packets before.
Counted_Packets(r, pkt) ==
  IF r.status = "ok"
  THEN [r EXCEPT !.client.seq = @ + 1] ELSE r

Counted(r, pkt) ==
  IF r.status = "ok" /\ pkt.data # NULL
  THEN [r EXCEPT !.client.seq = @ + 1] ELSE r

SendPacket(d, pkt, required) ==
  {Counted(r, pkt) : r \in sender_send_parts(client[d], d \in Udp, required,
                             Piece(pkt, client[d].seq, "whole"))}

-----------------------------------------------------------------------------
(***************************************************************************)
(* Groups.  A destination that is appended to a group starts with no       *)
(* sequence numbers (group_remove, group_append).                          *)
(***************************************************************************)

group_remove(group, d) ==
  RemoveAt(group, CHOOSE i \in DOMAIN group :
                    group[i] = d /\ \A j \in 1..(i - 1) : group[j] # d)

\* group_move: the members that the callback takes (S), in the order of the
\* group, and those that it leaves.
Only(group, S) ==
  LET taken[i \in 0..Len(group)] ==
        IF i = 0 THEN <<>>
        ELSE IF group[i] \in S THEN Append(taken[i - 1], group[i])
        ELSE taken[i - 1]
  IN  taken[Len(group)]

Without(group, S) == Only(group, ToSet(group) \ S)

NoSequence(c, S) ==
  [d \in Destinations |-> IF d \in S THEN [c[d] EXCEPT !.seq = 0] ELSE c[d]]

\* ready_empty is cleared whenever something is ready, new or not: a UDP
\* destination whose templates expired is noticed this way only.
ReadyEmpty_New(S) == ready_empty /\ S = {}

ReadyEmpty(S) == ready_empty /\ S = {} /\ ready = <<>>

\* connector_func wakes up: dest_reconnect tries every disconnected destination,
\* and S are the ones that connect.
dest_reconnect(S) ==
  /\ group_mtx = NULL
  /\ main.pc # "closed"
  /\ S \subseteq ToSet(disconn)
  /\ connections + Cardinality(S) <= MaxConnections
  /\ disconn' = Without(disconn, S)
  /\ ready' = ready \o Only(disconn, S)
  /\ ready_empty' = ReadyEmpty(S)
  /\ client' = [d \in Destinations |->
                  IF d \in S THEN sender_connect(client[d]) ELSE client[d]]
  /\ connections' = connections + Cardinality(S)
  /\ UNCHANGED <<mode, conn, group_mtx, dst_idx, templates, main, messages>>

Connector == \E S \in SUBSET ToSet(disconn) : dest_reconnect(S)

-----------------------------------------------------------------------------
(***************************************************************************)
(* store_packet.  dest_check_expired_udp: the UDP destinations of S are    *)
(* due for their templates.                                                *)
(***************************************************************************)

store_packet(S) ==
  /\ main.pc = "idle"
  /\ group_mtx = NULL
  /\ messages < MaxMessages
  /\ S \subseteq Udp \cap ToSet(conn)
  /\ conn' = Without(conn, S)
  /\ ready' = ready \o Only(conn, S)
  /\ client' = NoSequence(client, S)
  /\ main' = [pc |-> "reconnected"]
  /\ messages' = messages + 1
  /\ UNCHANGED <<mode, disconn, ready_empty, group_mtx, dst_idx, templates,
                 connections>>

(***************************************************************************)
(* dest_check_reconnected.  The templates are collected before the mutex   *)
(* is taken, and sent while it is held.                                    *)
(***************************************************************************)

NoneReconnected ==
  /\ main.pc = "reconnected"
  /\ ready_empty
  /\ main' = [pc |-> "parse"]
  /\ UNCHANGED <<mode, groups, client, templates, messages, connections>>

ReconnectedWithoutTemplates ==
  /\ main.pc = "reconnected"
  /\ ~ready_empty
  /\ group_mtx = NULL
  /\ templates = {}
  /\ conn' = conn \o ready
  /\ ready' = <<>>
  /\ ready_empty' = TRUE
  /\ client' = NoSequence(client, ToSet(ready))
  /\ main' = [pc |-> "parse"]
  /\ UNCHANGED <<mode, disconn, group_mtx, dst_idx, templates, messages,
                 connections>>

PrepareTemplates ==
  /\ main.pc = "reconnected"
  /\ ~ready_empty
  /\ group_mtx = NULL
  /\ templates # {}
  /\ group_mtx' = "main"
  /\ main' = [pc |-> "resend", idx |-> 1, pkt |-> Packet(templates, NULL)]
  /\ UNCHANGED <<mode, conn, disconn, ready, ready_empty, dst_idx, client,
                 templates, messages, connections>>

\* group_move with aux_reconn_tmplt: required delivery to ready[idx].
ResendTemplates ==
  /\ main.pc = "resend"
  /\ main.idx <= Len(ready)
  /\ LET d == ready[main.idx] IN
     \E r \in SendPacket(d, main.pkt, TRUE) :
       /\ client' = [client EXCEPT ![d] = r.client]
       /\ IF r.status = "ok"
          THEN /\ conn' = Append(conn, d)
               /\ ready' = group_remove(ready, d)
               /\ UNCHANGED main
          ELSE /\ main' = [main EXCEPT !.idx = @ + 1]
               /\ UNCHANGED <<conn, ready>>
  /\ UNCHANGED <<mode, disconn, ready_empty, group_mtx, dst_idx, templates,
                 messages, connections>>

\* The destinations that are still in ready have failed again.
FailedAgain_Forgotten == disconn

FailedAgain == disconn \o ready

ResendDone ==
  /\ main.pc = "resend"
  /\ main.idx > Len(ready)
  /\ disconn' = FailedAgain
  /\ ready' = <<>>
  /\ ready_empty' = TRUE
  /\ client' = NoSequence(client, ToSet(ready))
  /\ group_mtx' = NULL
  /\ main' = [pc |-> "parse"]
  /\ UNCHANGED <<mode, conn, dst_idx, templates, messages, connections>>

(***************************************************************************)
(* fwd_parse_msg: the packets to send, and the packets with the templates  *)
(* only.  New templates and data may be in one packet or in two, and a     *)
(* message may come to nothing (templates that were known, data that could *)
(* not be mapped).                                                         *)
(***************************************************************************)

MessagesOf(t) ==
  IF t \in templates
  THEN {<<Packet({}, t)>>, <<Packet({}, t), Packet({}, t)>>}
  ELSE {<<Packet({t}, NULL)>>, <<Packet({t}, t)>>,
        <<Packet({t}, NULL), Packet({}, t)>>}

NewTemplates(pkts) == UNION {pkts[i].tmplts : i \in DOMAIN pkts}

\* The loops of dest_send_next and dest_send_except_one; indices as in the
\* code, k is the packet of the message that goes next.
InTurn(pkts) ==
  [pc |-> "next", pkts |-> pkts, new |-> NewTemplates(pkts), k |-> 1,
   idx |-> dst_idx, attempts |-> Len(conn), tried |-> {}, start |-> ToSet(conn)]

Others(pkts, except, required) ==
  [pc |-> "others", pkts |-> pkts, required |-> required, k |-> 1, idx |-> 0,
   except |-> except]

fwd_parse_msg(pkts) ==
  /\ main.pc = "parse"
  /\ templates' = templates \cup NewTemplates(pkts)
  /\ main' = IF mode = "all" THEN Others(pkts, -1, NewTemplates(pkts) # {})
                             ELSE InTurn(pkts)
  /\ UNCHANGED <<mode, groups, client, messages, connections>>

ParseMessage ==
  \/ \E t \in Templates : \E pkts \in MessagesOf(t) : fwd_parse_msg(pkts)
  \/ fwd_parse_msg(<<>>)

\* Only the first packet of a message may be given up when the socket is busy.
Required(required) == required \/ main.k > 1

\* What becomes of conn[d] with the result r; dest_move_to_dc if it is closed.
dest_move_to_dc(d, r) ==
  /\ group_mtx = NULL
  /\ conn' = IF r.status = "closed" THEN group_remove(conn, d) ELSE conn
  /\ disconn' = IF r.status = "closed" THEN Append(disconn, d) ELSE disconn
  /\ client' = [client EXCEPT ![d] = IF r.status = "closed"
                                     THEN [r.client EXCEPT !.seq = 0] ELSE r.client]

unchanged_by_send == <<mode, ready, ready_empty, group_mtx, templates, messages,
                       connections>>

(***************************************************************************)
(* dest_send_next.                                                         *)
(***************************************************************************)

Turn == main.idx % Len(conn)

\* A destination that is closed leaves its index to the one behind it.
IndexAfter_Skip(status) == Turn + 1

IndexAfter(status) == IF status = "closed" THEN Turn ELSE Turn + 1

NextPacket ==
  /\ main.pc = "next"
  /\ main.attempts > 0
  /\ main.k <= Len(main.pkts)
  /\ LET d == conn[Turn + 1] IN
     \E r \in SendPacket(d, main.pkts[main.k], Required(main.new # {})) :
       /\ dest_move_to_dc(d, r)
       /\ main' = IF r.status = "ok"
                  THEN [main EXCEPT !.idx = Turn, !.k = @ + 1]
                  ELSE [main EXCEPT !.idx = IndexAfter(r.status), !.k = 1,
                          !.attempts = @ - 1, !.tried = @ \cup {d}]
  /\ UNCHANGED <<unchanged_by_send, dst_idx>>

\* dest_send_rr: the message is with conn[Turn], new templates go to the others.
TemplatesToOthers_No == Idle

TemplatesToOthers ==
  IF main.new = {} THEN Idle ELSE Others(<<Packet(main.new, NULL)>>, Turn, TRUE)

NextDone ==
  /\ main.pc = "next"
  /\ main.attempts > 0
  /\ main.k > Len(main.pkts)
  /\ dst_idx' = (Turn + 1) % Len(conn)
  /\ main' = TemplatesToOthers
  /\ UNCHANGED <<unchanged_by_send, conn, disconn, client>>

NextGivesUp ==
  /\ main.pc = "next"
  /\ main.attempts = 0
  /\ dst_idx' = IF main.start = {} THEN dst_idx
                ELSE IF conn = <<>> THEN 0 ELSE main.idx % Len(conn)
  /\ main' = Idle
  /\ UNCHANGED <<unchanged_by_send, conn, disconn, client>>

(***************************************************************************)
(* dest_send_except_one.                                                   *)
(***************************************************************************)

OthersSkip ==
  /\ main.pc = "others"
  /\ main.idx < Len(conn)
  /\ main.except = main.idx
  /\ main' = [main EXCEPT !.idx = @ + 1]
  /\ UNCHANGED <<unchanged_by_send, conn, disconn, client, dst_idx>>

OthersPacket ==
  /\ main.pc = "others"
  /\ main.idx < Len(conn)
  /\ main.except # main.idx
  /\ main.k <= Len(main.pkts)
  /\ LET d == conn[main.idx + 1] IN
     \E r \in SendPacket(d, main.pkts[main.k], Required(main.required)) :
       /\ dest_move_to_dc(d, r)
       /\ main' = CASE r.status = "ok"     -> [main EXCEPT !.k = @ + 1]
                    [] r.status = "busy"   -> [main EXCEPT !.k = 1, !.idx = @ + 1]
                    [] r.status = "closed" -> [main EXCEPT !.k = 1, !.except = @ - 1]
  /\ UNCHANGED <<unchanged_by_send, dst_idx>>

OthersDone ==
  /\ main.pc = "others"
  /\ main.idx < Len(conn)
  /\ main.except # main.idx
  /\ main.k > Len(main.pkts)
  /\ main' = [main EXCEPT !.k = 1, !.idx = @ + 1]
  /\ UNCHANGED <<unchanged_by_send, conn, disconn, client, dst_idx>>

OthersEnd ==
  /\ main.pc = "others"
  /\ main.idx >= Len(conn)
  /\ main' = Idle
  /\ UNCHANGED <<unchanged_by_send, conn, disconn, client, dst_idx>>

\* storage_close: the connector is cancelled while it sleeps, then all
\* destinations are destroyed.
storage_close ==
  /\ main.pc = "idle"
  /\ group_mtx = NULL
  /\ main' = [pc |-> "closed"]
  /\ conn' = <<>> /\ disconn' = <<>> /\ ready' = <<>>
  /\ client' = [d \in Destinations |-> NewClient]
  /\ UNCHANGED <<mode, ready_empty, group_mtx, dst_idx, templates, messages,
                 connections>>

CheckReconnected ==
  \/ NoneReconnected
  \/ ReconnectedWithoutTemplates
  \/ PrepareTemplates
  \/ ResendTemplates
  \/ ResendDone

SendMessage ==
  \/ NextPacket \/ NextDone \/ NextGivesUp
  \/ OthersSkip \/ OthersPacket \/ OthersDone \/ OthersEnd

StoreMessage ==
  \/ \E S \in SUBSET Udp : store_packet(S)
  \/ CheckReconnected
  \/ ParseMessage
  \/ SendMessage

Next == Connector \/ StoreMessage \/ storage_close

Spec == Init /\ [][Next]_vars

\* The connector sleeps for a bounded time (nanosleep) and never ends by itself;
\* the plugin's thread finishes what it does with a message.
FairSpec ==
  /\ Spec
  /\ WF_vars(Connector)
  /\ WF_vars(CheckReconnected)
  /\ WF_vars(ParseMessage)
  /\ WF_vars(SendMessage)

-----------------------------------------------------------------------------
(***************************************************************************)
(* Properties.                                                             *)
(***************************************************************************)

Pieces ==
  [tmplts : SUBSET Templates, data : Templates \cup {NULL}, seq : Nat,
   part : {"whole", "first", "rest"}]

TypeOK ==
  /\ mode \in Modes
  /\ \A g \in {conn, disconn, ready} : g \in Seq(Destinations)
  /\ ready_empty \in BOOLEAN
  /\ group_mtx \in {NULL, "main"}
  /\ dst_idx \in Nat
  /\ client \in [Destinations -> [open : BOOLEAN, stream : Seq(Pieces),
                                  buffer : Seq(Pieces), seq : Nat]]
  /\ templates \subseteq Templates
  /\ messages \in 0..MaxMessages
  /\ connections \in 0..MaxConnections

\* What the destination gets if its connection lasts.
Outgoing(d) == client[d].stream \o client[d].buffer

\* Every destination is in one group, once, until the plugin is closed; no order
\* of reconnections, expired templates and failures loses or doubles one.
OneGroup ==
  main.pc # "closed" =>
    /\ Len(conn \o disconn \o ready) = Cardinality(Destinations)
    /\ ToSet(conn \o disconn \o ready) = Destinations

\* A connected destination gets whole packets: a packet of which the socket took
\* a part is followed by its rest, whatever is sent next, and what was left of
\* an earlier connection is never sent on a new one.
WholePackets ==
  \A d \in Destinations : client[d].open =>
    LET out == Outgoing(d) IN
    \A i \in DOMAIN out :
      /\ out[i].part = "first" =>
           i < Len(out) /\ out[i + 1] = Rest(out[i])
      /\ out[i].part = "rest" =>
           i > 1 /\ out[i - 1] = First(out[i])

\* No destination gets data before the template it needs, on any connection:
\* not one that reconnects while templates arrive, that is busy or that is left
\* out because the message went to another one.
TemplatesBeforeData ==
  \A d \in Destinations : client[d].open =>
    LET out == Outgoing(d) IN
    \A i \in DOMAIN out : out[i].data # NULL =>
      \E j \in 1..i : out[i].data \in out[j].tmplts

\* The sequence number of a packet is the number of records before it on the
\* connection; a packet that was given up is not counted.  (A UDP destination
\* starts again at zero with every refresh of its templates.)
SequenceNumbersCount ==
  \A d \in Destinations \ Udp : client[d].open =>
    LET out == Outgoing(d) IN
    \A i \in DOMAIN out : out[i].part # "rest" =>
      out[i].seq = Cardinality({j \in 1..(i - 1) :
                                  out[j].data # NULL /\ out[j].part # "rest"})

\* A message in turn is dropped only after every destination that was connected
\* has been tried, although destinations leave the array while it is walked.
DroppedOnlyWhenRefused ==
  main.pc = "next" /\ main.attempts = 0 => main.tried = main.start

\* Destinations in the ready group are noticed: those whose templates expired
\* while nothing reconnects wait for the connector only.
ReadyNoticed ==
  ready # <<>> ~> (~ready_empty \/ ready = <<>>)

=============================================================================
