---------------------------- MODULE SigningKeys ----------------------------
(***************************************************************************)
(* Signing keys and their rotation: the OIDC key manager                   *)
(* (backend/internal/oidc/keys.go) or, as the initial state chooses, the   *)
(* SAML certificate manager (backend/internal/samlidp/certificates.go),    *)
(* which is the same protocol on another table plus renewal of a           *)
(* certificate that is about to expire.                                    *)
(*                                                                         *)
(* A rotation is one transaction under an advisory lock: retire the active *)
(* rows its statement sees, insert a new active row, commit.  A partial    *)
(* unique index refuses a second active row.  Key generation, encryption   *)
(* at rest and the encoding of keys are left out.                          *)
(***************************************************************************)
EXTENDS Naturals, FiniteSets

CONSTANTS Workers,   \* requests in progress at the same time, on any replica
          Keys,      \* keys that can be generated
          None

ASSUME KeyConstants == None \notin Workers \cup Keys

VARIABLES store,      \* which of the two managers this is: "oidc" or "saml"
          key,        \* committed rows: "none", "active" or "retired"
          old,        \* keys with less than 30 days left
          advisory,   \* the transaction that holds the advisory lock
          req,        \* requests in progress
          signed      \* history: keys that signatures were made with

vars == <<store, key, old, advisory, req, signed>>

\* retire: the rows the transaction has retired; new: the key it will insert or
\* the request signs with; then: what follows a rotation.
NoRequest == [pc |-> "idle", retire |-> {}, new |-> None, then |-> "idle"]

TypeOK ==
    /\ store \in {"oidc", "saml"}
    /\ key \in [Keys -> {"none", "active", "retired"}]
    /\ old \subseteq Keys
    /\ advisory \in Workers \cup {None}
    /\ req \in [Workers -> [pc : {"idle", "lock", "held", "insert", "sign"},
                            retire : SUBSET Keys, new : Keys \cup {None},
                            then : {"idle", "sign"}]]
    /\ signed \subseteq Keys

Init ==
    /\ store \in {"oidc", "saml"}
    /\ key = [k \in Keys |-> "none"]
    /\ old = {}
    /\ advisory = None
    /\ req = [w \in Workers |-> NoRequest]
    /\ signed = {}

-----------------------------------------------------------------------------
ActiveKeys == {k \in Keys : key[k] = "active"}

\* A SAML certificate with less than 30 days left is renewed by Active.
Renewable(k) == store = "saml" /\ k \in old

\* Keys generated so far, whether committed or not.
Generated == {k \in Keys : key[k] # "none"} \cup {req[w].new : w \in Workers}

\* What JWKS and PublicKeyByKID offer to verifiers: every row, active or not.
ActiveOnly(k) == key[k] = "active"
Published(k) == key[k] # "none"

End(w) == req' = [req EXCEPT ![w] = NoRequest]

\* Active: the active key if there is one that need not be renewed, otherwise a
\* rotation.
Active(w) ==
    /\ req[w].pc = "idle"
    /\ \/ \E k \in ActiveKeys :
             /\ ~Renewable(k)
             /\ req' = [req EXCEPT ![w].pc = "sign", ![w].new = k]
       \/ /\ \/ ActiveKeys = {}
             \/ \E k \in ActiveKeys : Renewable(k)
          /\ req' = [req EXCEPT ![w].pc = "lock", ![w].then = "sign"]
    /\ UNCHANGED <<store, key, old, advisory, signed>>

\* rotateSigningKey and rotateSAMLCertificate: an administrator rotates.
Rotate(w) ==
    /\ req[w].pc = "idle"
    /\ req' = [req EXCEPT ![w].pc = "lock"]
    /\ UNCHANGED <<store, key, old, advisory, signed>>

LockIgnored(w) == TRUE
LockFree(w) == advisory = None

\* pg_advisory_xact_lock, held until the transaction ends.
AcquireLock(w) ==
    /\ req[w].pc = "lock"
    /\ LockFree(w)
    /\ advisory' = w
    /\ req' = [req EXCEPT ![w].pc = "held"]
    /\ UNCHANGED <<store, key, old, signed>>

\* The rows are retired outside the transaction.
RetiredAtOnce(w) ==
    /\ req[w].pc = "held"
    /\ key' = [k \in Keys |-> IF k \in ActiveKeys THEN "retired" ELSE key[k]]
    /\ \E k \in Keys \ Generated :
          req' = [req EXCEPT ![w].pc = "insert", ![w].new = k]
    /\ UNCHANGED <<store, old, advisory, signed>>

\* UPDATE ... SET active = false WHERE active = true, on the rows committed now.
RetireActive(w) ==
    /\ req[w].pc = "held"
    /\ \E k \in Keys \ Generated :
          req' = [req EXCEPT ![w].pc = "insert", ![w].retire = ActiveKeys, ![w].new = k]
    /\ UNCHANGED <<store, key, old, advisory, signed>>

\* The new row would be the second active one: the unique index refuses it.
Conflict(w) == ActiveKeys \ req[w].retire # {}

InsertAndCommit(w) ==
    /\ req[w].pc = "insert"
    /\ ~Conflict(w)
    /\ key' = [k \in Keys |-> IF k = req[w].new THEN "active"
                              ELSE IF k \in req[w].retire THEN "retired" ELSE key[k]]
    /\ advisory' = None
    /\ IF req[w].then = "sign"
       THEN req' = [req EXCEPT ![w].pc = "sign", ![w].retire = {}, ![w].then = "idle"]
       ELSE End(w)
    /\ UNCHANGED <<store, old, signed>>

\* The caller signs a token or a SAML response with the key it was given,
\* however long ago that was.
Sign(w) ==
    /\ req[w].pc = "sign"
    /\ signed' = signed \cup {req[w].new}
    /\ End(w)
    /\ UNCHANGED <<store, key, old, advisory>>

\* A rotation fails or is cancelled: its transaction rolls back.
Abort(w) ==
    /\ req[w].pc # "idle"
    /\ advisory' = IF advisory = w THEN None ELSE advisory
    /\ End(w)
    /\ UNCHANGED <<store, key, old, signed>>

\* A certificate comes within 30 days of its end.
Age(k) ==
    /\ store = "saml"
    /\ key[k] = "active" /\ k \notin old
    /\ old' = old \cup {k}
    /\ UNCHANGED <<store, key, advisory, req, signed>>

Step(w) == AcquireLock(w) \/ RetireActive(w) \/ InsertAndCommit(w) \/ Sign(w)

Next ==
    \/ \E w \in Workers : Active(w) \/ Rotate(w) \/ Step(w) \/ Abort(w)
    \/ \E k \in Keys : Age(k)

Spec == Init /\ [][Next]_vars

-----------------------------------------------------------------------------
(* Properties *)

\* First use and rotation race on several replicas without ever running into the
\* unique index: no rotation is refused because another one got in between.
RotationsDoNotCollide == \A w \in Workers : req[w].pc = "insert" => ~Conflict(w)

\* Whatever token was signed, with a key retired meanwhile too, can be verified
\* with the keys the JWKS endpoint publishes.
SignaturesVerifiable == store = "oidc" => \A k \in signed : Published(k)

\* Once there is a key there always is an active one, also while a rotation is
\* in progress or after one failed.
AlwaysAKey == [][ActiveKeys # {} => ActiveKeys' # {}]_vars
=============================================================================
