------------------------------ MODULE MCMatters -------------------------------
(* Small instances of Matters for TLC: each user has a default matter, u1 a second one. *)
EXTENDS Matters

CONSTANTS u1, u2, d1, d2, m1, m2, m3

Orgs == [m \in Matter |-> IF m = m3 THEN u2 ELSE u1]
Owners == [d \in Doc |-> IF d = d2 THEN u2 ELSE u1]
Defaults == {m1, m3} \cap Matter
===============================================================================
