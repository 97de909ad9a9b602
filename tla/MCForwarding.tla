----------------------------- MODULE MCForwarding -----------------------------
(* Instances of Forwarding for TLC: the configured destinations. *)
EXTENDS Forwarding

CONSTANTS d1, d2, u, a

TwoAndUdp == <<d1, u, d2>>

=============================================================================
