-------------------------- MODULE MCSequenceNumbers --------------------------
(* Channels t and u are one domain, v another one. *)
EXTENDS SequenceNumbers

CONSTANTS t, u, v, a, b

ByExporter == [c \in Channels |-> IF c = v THEN b ELSE a]

OwnInfo == [c \in Channels |-> c]

\* t and v are two domains of one SCTP association.
SharedInfo == [c \in Channels |-> IF c = v THEN t ELSE c]
====
