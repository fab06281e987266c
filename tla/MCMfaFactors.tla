---------------------------- MODULE MCMfaFactors ----------------------------
(* One user's factors, with model values for requests, sessions and factors. *)
EXTENDS MfaFactors, TLC

\* The members of each set are interchangeable.
Symmetry == Permutations(Workers) \cup Permutations(Sessions) \cup Permutations(Keys)
            \cup Permutations(Ceremonies) \cup Permutations(Secrets)
            \cup Permutations(Batches)
=============================================================================
