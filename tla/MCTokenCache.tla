----------------------------- MODULE MCTokenCache -----------------------------
(* Model-checking instance of TokenCache. *)
EXTENDS TokenCache, TLC

\* Calls and keys are interchangeable: sound for the safety runs.
Symmetry == Permutations(Calls) \cup Permutations(Keys)

\* A grant that is never served from the cache, and one that is at first.
MCExpiresIn == {1, 3}
=============================================================================
