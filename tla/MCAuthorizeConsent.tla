------------------------- MODULE MCAuthorizeConsent -------------------------
(* One client, with model values for requests, users, sessions and forms. *)
EXTENDS AuthorizeConsent, TLC

\* The members of each set are interchangeable; the scopes are not, for OpenID.
Symmetry == Permutations(Workers) \cup Permutations(Users) \cup Permutations(Sessions)
            \cup Permutations(Forms) \cup Permutations(Codes)
=============================================================================
