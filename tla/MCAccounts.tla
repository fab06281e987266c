----------------------------- MODULE MCAccounts -----------------------------
(* One account with model values for requests, sessions and passwords. *)
EXTENDS Accounts, TLC

\* The members of each set are interchangeable.
Symmetry == Permutations(Workers) \cup Permutations(Sessions) \cup Permutations(Passwords)
=============================================================================
