----------------------------- MODULE MCReviewQueue -----------------------------
(* Small instances of ReviewQueue for TLC. *)
EXTENDS ReviewQueue, TLC

\* All reviews are asked for by one user.
OneOwner == [r \in Review |-> CHOOSE u \in User : TRUE]

\* A uuid means nothing but itself.
TokenSymmetry == Permutations(Token)

\* Neither does a group; no property of the safety run tells them apart.
SafetySymmetry == Permutations(Token) \cup Permutations(Batch)
===============================================================================
