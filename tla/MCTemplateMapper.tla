--------------------------- MODULE MCTemplateMapper ---------------------------
(* Instances of TemplateMapper for TLC: who shares an Observation Domain. *)
EXTENDS TemplateMapper, TLC

CONSTANTS s1, s2, a, b, c, opt

OneDomain == (s1 :> 1) @@ (s2 :> 1)

\* Exporters of one domain, and templates of one type, are interchangeable.
Interchangeable == Permutations({s1, s2}) \cup Permutations({a, b, c})

=============================================================================
