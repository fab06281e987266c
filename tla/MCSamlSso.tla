----------------------------- MODULE MCSamlSso -----------------------------
(* Model values for users, AuthnRequests, stored requests and browsers. *)
EXTENDS SamlSso, TLC

\* The members of each set are interchangeable.
Symmetry == Permutations(Workers) \cup Permutations(Users) \cup Permutations(Messages)
            \cup Permutations(Rows)
=============================================================================
