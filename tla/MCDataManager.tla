---------------------------- MODULE MCDataManager ----------------------------
(* Instances of DataManager for TLC: the lists of plugins to start. *)
EXTENDS DataManager, TLC

CONSTANTS a, b, c

StartA   == <<a>>
StartAB  == <<a, b>>
StartABC == <<a, b, c>>

=============================================================================
