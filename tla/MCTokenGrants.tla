--------------------------- MODULE MCTokenGrants ---------------------------
(* The token endpoint with model values for requests, codes and tokens. *)
EXTENDS TokenGrantsRefinement, TLC

\* Workers are interchangeable, and so are the identifiers drawn at random.
Symmetry == Permutations(Workers) \cup Permutations(Tokens)
=============================================================================
