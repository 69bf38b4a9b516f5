---------------------------- MODULE MCDraftRelease ----------------------------
(* Small instances of DraftRelease for TLC: all findings are about one paragraph. *)
EXTENDS DraftRelease, TLC

CONSTANTS f1, f2, b1, a, b, u1

Blocks == [f \in Finding |-> b1]

\* f1 and f2 suggest different replacements, or the same.
Texts == [f \in Finding |-> IF f = f1 THEN a ELSE b]
SameTexts == [f \in Finding |-> a]

Ranks == [f \in Finding |-> IF f = f1 THEN 1 ELSE 2]

Requesters == [q \in Request |-> u1]

Symmetry == Permutations(User)
===============================================================================
