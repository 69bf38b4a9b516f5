------------------------------- MODULE MCServices -------------------------------
(* Small instances of the services, for TLC. *)
EXTENDS Services, TLC

CONSTANTS t1, t2, o1, d1, d2, d3, g1, g2, a, b, u1, u2, p1, p2, h1, h2

\* Two documents that say the same of two entities.
SameText ==
  {[chunks |-> {"1"}, mentions |-> {<<"1", a>>, <<"1", b>>}, relations |-> {<<"1", a, b, TRUE>>}]}

\* A scan of two pages, in two calls if need be, and a Word file with two pictures.
ScansOf(u) == IF u = u1 THEN {p1, p2} ELSE {}
PicturesOf(u) == IF u = u2 THEN {p1, p2} ELSE {}

\* Requests are alike, and so are the graph's documents.
Symmetry == Permutations({h1, h2}) \cup Permutations({g1, g2})

\* The model leaves its provider's list soon or at the end.
SmallInit == ServicesInit /\ (part = "model" => x1.retires \in {1, ModelHorizon})

SmallSpec == SmallInit /\ [][ServicesNext]_vars
===============================================================================
