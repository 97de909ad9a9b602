----------------------------- MODULE MCPipeline -----------------------------
(* Instances of Pipeline for TLC: chains of plugins. *)
EXTENDS Pipeline, TLC

CONSTANTS a, b, c, d

\* Plugins pass every message; b may also drop it, pass on a message made of it
\* before or after dropping it, or pass on two.
MCCalls  == [p \in Plugins |-> IF p = b
              THEN {<<"pass">>, <<"drop">>, <<"drop", "pass">>, <<"pass", "drop">>,
                    <<"pass", "pass">>}
              ELSE {<<"pass">>}]
AB       == <<a, b>>
ABC      == <<a, b, c>>
\* Everything two plugins can be changed to.
OfTwo    == {<<>>, <<a>>, <<b>>, <<a, b>>, <<b, a>>}
\* The same, and one of the two with c, which cannot be started, or d, which
\* cannot be loaded.
OfFour   == OfTwo \cup {<<a, c>>, <<a, d>>, <<b, c>>, <<b, d>>}
\* The two change places, or one of them is taken out while the other gets a
\* successor that cannot be started, or loaded; changed twice, either comes back.
Changes  == {<<b, a>>, <<a, c>>, <<b, d>>}
\* The first two of three plugins change places.
Swapped  == {<<b, a, c>>}
\* The first of two plugins is replaced.
Replaced == {<<c, b>>}

=============================================================================
