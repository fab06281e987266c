---------------------------- MODULE TokenRequests ----------------------------
(***************************************************************************)
(* The token endpoint on its bounded pool of PostgreSQL connections        *)
(* (backend/internal/database/database.go, httpapi/oauth.go): TokenGrants  *)
(* composed with the connections its transactions hold.                    *)
(*                                                                         *)
(* A grant begins a transaction, which holds one connection from then on,  *)
(* also while it waits for a row lock.  While it is open issueAccessToken  *)
(* and signIDToken read the active key and the user through the pool, not  *)
(* through the transaction: a second connection of the same request.  The  *)
(* uses in a row are one use here.  Whoever asks an empty pool waits until *)
(* a connection is given back; nothing but the client's hanging up ends    *)
(* that wait.  The revocation endpoint runs single statements.             *)
(*                                                                         *)
(* Left out of TokenGrants: expiry, since an expired grant is refused as   *)
(* any other unusable one, and the single UPDATE of an access token.       *)
(***************************************************************************)
EXTENDS TokenGrants, Naturals, FiniteSets

CONSTANT PoolSizes   \* sizes of the pool to look at (MaxConns)

\* However many requests there are, finitely many are in progress at a time.
ASSUME PoolAssumption ==
    /\ PoolSizes \subseteq Nat \ {0}
    /\ IsFiniteSet(Workers)

VARIABLES poolSize,  \* connections there are
          conn       \* conn[w]: how worker w uses them, and the row it asks for

poolVars == <<vars, poolSize, conn>>

\* begun: the transaction is open and about to lock its row; waiting: it has
\* consumed its grant and asks for the second connection; nested: it has it;
\* single: nothing but the transaction's (or the statement's) own is needed.
Connection == [use : {"none", "begun", "waiting", "nested", "single"},
               row : Lockable \cup {None}]

NoConnection == [use |-> "none", row |-> None]

InUse == Cardinality({w \in Workers : conn[w].use # "none"})
         + Cardinality({w \in Workers : conn[w].use = "nested"})

Unbounded(n) == TRUE
Available(n) == InUse + n <= poolSize

\* A connection is out exactly while its transaction or statement is in
\* progress, and is used as its step allows.
ConnectionUsed(w) ==
    /\ conn[w].use = "none" =>
          txn[w].pc = "idle" \/ (txn[w].pc = "family" /\ txn[w].kind = "revoke")
    /\ conn[w].use = "begun" => txn[w].pc = "idle"
    /\ conn[w].use \in {"waiting", "nested"} => txn[w].pc \in {"idle", "commit"}

\* The pool never hands out more connections than it has, and each of them
\* belongs to a request in progress.
PoolConserved ==
    /\ TypeOK
    /\ poolSize \in PoolSizes
    /\ conn \in [Workers -> Connection]
    /\ InUse <= poolSize
    /\ \A w \in Workers : ConnectionUsed(w)

PoolInit ==
    /\ Init
    /\ poolSize \in PoolSizes
    /\ conn = [w \in Workers |-> NoConnection]

-----------------------------------------------------------------------------
Use(w, u) == conn' = [conn EXCEPT ![w] = [NoConnection EXCEPT !.use = u]]

\* A code or refresh grant begins its transaction; x is the row it will lock.
Begin(w, x) ==
    /\ conn[w].use = "none" /\ txn[w].pc = "idle"
    /\ Available(1)
    /\ \/ x \in Codes /\ codes[x] # None
       \/ x \in known
    /\ conn' = [conn EXCEPT ![w] = [use |-> "begun", row |-> x]]
    /\ UNCHANGED <<vars, poolSize>>

\* The row lock is granted: a usable grant is consumed and asks for the second
\* connection, a reused one starts to revoke its family.
GrantLocked(w) ==
    /\ conn[w].use = "begun"
    /\ \E a \in Apps :
          \/ /\ \/ conn[w].row \in Codes /\ CodeGrantLock(w, conn[w].row, a)
                \/ conn[w].row \in Tokens /\ RefreshGrantLock(w, conn[w].row, a)
             /\ Use(w, "waiting")
          \/ /\ conn[w].row \in Tokens
             /\ RefreshReuse(w, conn[w].row, a)
             /\ Use(w, "single")
    /\ UNCHANGED poolSize

\* The refusal returns without ending the transaction.
GrantRefusedLeaks(w) ==
    /\ conn[w].use = "begun"
    /\ lock[conn[w].row] = None
    /\ UNCHANGED poolVars

\* The row lock is granted and the grant refused: consumed code, wrong client,
\* expired token and so on.  The deferred Rollback gives the connection back.
GrantRefused(w) ==
    /\ conn[w].use = "begun"
    /\ lock[conn[w].row] = None
    /\ Use(w, "none")
    /\ UNCHANGED <<vars, poolSize>>

\* keys.Active and the read of the user take a connection of their own ...
TakeSecond(w) ==
    /\ conn[w].use = "waiting"
    /\ Available(1)
    /\ Use(w, "nested")
    /\ UNCHANGED <<vars, poolSize>>

\* ... and give it back.
ReturnSecond(w) ==
    /\ conn[w].use = "nested"
    /\ Use(w, "single")
    /\ UNCHANGED <<vars, poolSize>>

\* clientCredentialsGrant has no row to lock: it asks for the second connection
\* as soon as its transaction is open.  Nothing here reads the access token.
ClientCredentialsBegin(w) ==
    /\ conn[w].use = "none" /\ txn[w].pc = "idle"
    /\ Available(1)
    /\ Use(w, "waiting")
    /\ UNCHANGED <<vars, poolSize>>

ClientCredentialsCommit(w) ==
    /\ conn[w].use = "single" /\ txn[w].pc = "idle"
    /\ Use(w, "none")
    /\ UNCHANGED <<vars, poolSize>>

GrantCommit(w) ==
    /\ conn[w].use = "single"
    /\ CodeGrantCommit(w) \/ RefreshGrantCommit(w)
    /\ Use(w, "none")
    /\ UNCHANGED poolSize

\* revokeToken reads the family with one statement and revokes with another.
Revoke(w, t, a) ==
    /\ conn[w].use = "none"
    /\ Available(1)
    /\ RevokeToken(w, t, a)
    /\ UNCHANGED <<poolSize, conn>>

\* The UPDATE of a family runs in the transaction of a reuse, or on a
\* connection of its own.
UpdateStart(w) ==
    /\ \/ txn[w].kind = "reuse"
       \/ txn[w].kind = "revoke" /\ Available(1)
    /\ FamilyUpdateStart(w)
    /\ Use(w, "single")
    /\ UNCHANGED poolSize

UpdateRow(w, t) == FamilyUpdateRow(w, t) /\ UNCHANGED <<poolSize, conn>>

UpdateCommit(w) ==
    /\ FamilyUpdateCommit(w)
    /\ Use(w, "none")
    /\ UNCHANGED poolSize

\* A statement fails or the client hangs up, which cancels whatever the request
\* waits for: the transaction rolls back and its connections return.
HangUp(w) ==
    /\ \/ Abort(w)
       \/ conn[w].use # "none" /\ txn[w].pc = "idle" /\ UNCHANGED vars
    /\ Use(w, "none")
    /\ UNCHANGED poolSize

DeadlockVictim(w) ==
    /\ DeadlockAbort(w)
    /\ Use(w, "none")
    /\ UNCHANGED poolSize

PoolStep(w) ==
    \/ GrantLocked(w) \/ GrantRefused(w) \/ TakeSecond(w) \/ ReturnSecond(w)
    \/ GrantCommit(w) \/ ClientCredentialsCommit(w)
    \/ UpdateStart(w) \/ UpdateCommit(w) \/ DeadlockVictim(w)
    \/ \E t \in Tokens : UpdateRow(w, t)

PoolNext ==
    \/ \E w \in Workers :
          \/ \E x \in Lockable : Begin(w, x)
          \/ \E t \in Tokens, a \in Apps : Revoke(w, t, a)
          \/ ClientCredentialsBegin(w)
          \/ PoolStep(w)
          \/ HangUp(w)
    \/ /\ \E c \in Codes, a \in Apps : StoreAuthorizationCode(c, a)
       /\ UNCHANGED <<poolSize, conn>>

PoolSpec == PoolInit /\ [][PoolNext]_poolVars

\* PostgreSQL grants a row lock, and the pool a connection, to waiters in the
\* order they came; running requests go on.  Clients are not assumed to hang up.
PoolFairness == \A w \in Workers : SF_poolVars(PoolStep(w))

FairPoolSpec == PoolSpec /\ PoolFairness

-----------------------------------------------------------------------------
(* Properties *)

InProgress(w) == conn[w].use # "none" \/ txn[w].pc # "idle"

WaitsForRow(w) ==
    \/ conn[w].use = "begun" /\ lock[conn[w].row] # None
    \/ Blocked(w)

\* Every connection is held by a grant that asks for its second one, or by a
\* transaction that waits for a row of such a grant.
Exhausted ==
    /\ ~Available(1)
    /\ \E w \in Workers : conn[w].use = "waiting"
    /\ \A w \in Workers : conn[w].use # "none" => conn[w].use = "waiting" \/ WaitsForRow(w)

\* Every request that began comes to an end, whatever rows it waits for.  The
\* one way to hang is that grants use up the pool with their first connections
\* and all wait for a second one, which takes as many requests at the same time
\* as there are connections.
EveryRequestEnds ==
    \A w \in Workers :
        InProgress(w) ~> ~InProgress(w) \/ (Exhausted /\ poolSize <= Cardinality(Workers))
=============================================================================
