-------------------------- MODULE MCTemplateManager --------------------------
(* Instances of TemplateManager for TLC: which Data Manager serves whom. *)
EXTENDS TemplateManager, TLC

CONSTANTS s1, s2

OneSource  == (s1 :> 1)
OwnManager == (s1 :> 1) @@ (s2 :> 2)
OneManager == (s1 :> 1) @@ (s2 :> 1)

=============================================================================
