----------------------- MODULE TokenGrantsRefinement -----------------------
(* The transactions of the token endpoint implement the baton. *)
EXTENDS TokenGrants

\* The unconsumed refresh token that descends from code c.
HeirOf(c) ==
    IF c \in codeUsed
    THEN CHOOSE t \in rows \ consumed : tok[t].code = c
    ELSE None

\* Every redeemed code has an heir, so HeirOf is well defined.
HeirExists ==
    \A c \in codeUsed : \E t \in rows \ consumed : tok[t].code = c

Lineage == INSTANCE GrantLineage
           WITH redeemed <- codeUsed, issued <- rows, cancelled <- revoked,
                heir <- [c \in Codes |-> HeirOf(c)]

\* Concurrent exchanges, refreshes, reuse detections and revocations, with
\* failures and lost responses, are seen by clients as single hand-overs: the
\* token endpoint implements the lineage specification.
ImplementsLineage == Lineage!Spec
=============================================================================
