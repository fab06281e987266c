---------------------------- MODULE TokenGrants ----------------------------
(***************************************************************************)
(* The OAuth token endpoint: authorization codes, refresh-token families   *)
(* and their revocation (backend/internal/httpapi/oauth.go).               *)
(*                                                                         *)
(* Every request is served by a worker that runs one PostgreSQL            *)
(* transaction at READ COMMITTED.  What the model keeps of the database:   *)
(*   - a row is visible to the others once its transaction has committed;  *)
(*   - SELECT ... FOR UPDATE waits for the row's lock and then reads the   *)
(*     newest committed version, so lock and read are one step;            *)
(*   - UPDATE ... WHERE family_id = f works on the rows committed when the *)
(*     statement began and locks them one by one, waiting where another    *)
(*     transaction holds one: a row that commits meanwhile is not in its   *)
(*     snapshot;                                                           *)
(*   - a transaction that fails, is cancelled, or is chosen as a deadlock  *)
(*     victim is rolled back.                                              *)
(* A request that is refused before its first write (unknown or disabled   *)
(* client, wrong redirect URI or PKCE verifier, consumed or expired code,  *)
(* expired refresh token) changes nothing and is a stuttering step.        *)
(* Scope, user and nonce are copied from row to row by the statements that *)
(* copy the family and are left out.  An access token is issued in the     *)
(* same transaction as the refresh token and shares its identifier here.   *)
(***************************************************************************)
CONSTANTS Workers,  \* requests that can be in progress at the same time
          Codes,    \* authorization codes
          Tokens,   \* refresh tokens (and the access tokens issued with them)
          Apps,     \* OAuth clients
          None      \* SQL NULL

ASSUME ConstantsAssumption ==
    /\ None \notin Workers \cup Codes \cup Tokens \cup Apps
    /\ Codes \cap Tokens = {}

VARIABLES
    codes,      \* codes[c]: the client code c was issued to, None before its INSERT
    codeUsed,   \* codes whose consumed_at is set
    rows,       \* committed rows of refresh_tokens
    tok,        \* tok[t]: the immutable columns of row t, and the code it stems from
    consumed,   \* rows whose consumed_at is set
    revoked,    \* rows whose revoked_at is set
    expired,    \* codes and tokens whose expires_at has passed
    access,     \* state of the row of oauth_access_tokens
    known,      \* tokens whose response reached the client
    lock,       \* lock[x]: the worker whose transaction holds row x
    txn,        \* txn[w]: the open transaction of worker w
    overlapped  \* history: families in which a refresh committed during a revocation

vars == <<codes, codeUsed, rows, tok, consumed, revoked, expired, access,
          known, lock, txn, overlapped>>

Lockable == Codes \cup Tokens

TokenColumns == [family : Tokens \cup {None}, parent : Tokens \cup {None},
                 app : Apps \cup {None}, code : Codes \cup {None}]

NoColumns == [family |-> None, parent |-> None, app |-> None, code |-> None]

Transaction == [pc : {"idle", "commit", "family", "update"},
                kind : {"none", "code", "refresh", "reuse", "revoke"},
                obj : Lockable \cup {None}, app : Apps \cup {None},
                new : Tokens \cup {None},
                todo : SUBSET Tokens, marked : SUBSET Tokens]

NoTransaction == [pc |-> "idle", kind |-> "none", obj |-> None, app |-> None,
                  new |-> None, todo |-> {}, marked |-> {}]

TypeOK ==
    /\ codes \in [Codes -> Apps \cup {None}]
    /\ codeUsed \subseteq Codes
    /\ rows \subseteq Tokens
    /\ tok \in [Tokens -> TokenColumns]
    /\ consumed \subseteq Tokens
    /\ revoked \subseteq Tokens
    /\ expired \subseteq Lockable
    /\ access \in [Tokens -> {"none", "live", "revoked"}]
    /\ known \subseteq Tokens
    /\ lock \in [Lockable -> Workers \cup {None}]
    /\ txn \in [Workers -> Transaction]
    /\ overlapped \subseteq Tokens

Init ==
    /\ codes = [c \in Codes |-> None]
    /\ codeUsed = {}
    /\ rows = {}
    /\ tok = [t \in Tokens |-> NoColumns]
    /\ consumed = {}
    /\ revoked = {}
    /\ expired = {}
    /\ access = [t \in Tokens |-> "none"]
    /\ known = {}
    /\ lock = [x \in Lockable |-> None]
    /\ txn = [w \in Workers |-> NoTransaction]
    /\ overlapped = {}

-----------------------------------------------------------------------------
(* Helpers *)

\* Identifiers drawn so far: RandomToken and RandomUUID never repeat one.
Minted == {t \in Tokens : access[t] # "none"} \cup {txn[w].new : w \in Workers}

FamilyRows(f) == {t \in rows : tok[t].family = f}

\* What the introspection endpoint reports as an active refresh token.
Active(t) == t \in rows \ (consumed \cup revoked \cup expired)

\* The end of a transaction gives back every row lock it holds.
Released(w) == [x \in Lockable |-> IF lock[x] = w THEN None ELSE lock[x]]

\* The row may be taken by w: no other transaction holds it.
Free(w, x) == lock[x] \in {None, w}

Ended(w) ==
    /\ lock' = Released(w)
    /\ txn' = [txn EXCEPT ![w] = NoTransaction]

CodeRedeemableTwice(c) == c \notin expired
CodeRedeemable(c) == c \notin codeUsed /\ c \notin expired

ReuseIgnoresRevoked(t) == t \in consumed
Reuse(t) == t \in consumed \cup revoked

OwnerUnchecked(t, a) == t \in rows \cap known
OwnedBy(t, a) == t \in rows \cap known /\ tok[t].app = a

-----------------------------------------------------------------------------
(* Authorization codes *)

\* The authorization endpoint stores a code bound to client a.
StoreAuthorizationCode(c, a) ==
    /\ codes[c] = None
    /\ codes' = [codes EXCEPT ![c] = a]
    /\ UNCHANGED <<codeUsed, rows, tok, consumed, revoked, expired, access,
                   known, lock, txn, overlapped>>

\* The clock passes the expires_at of a code or of a refresh token.
Expire(x) ==
    /\ x \notin expired
    /\ \/ x \in Codes /\ codes[x] # None
       \/ x \in rows
    /\ expired' = expired \cup {x}
    /\ UNCHANGED <<codes, codeUsed, rows, tok, consumed, revoked, access,
                   known, lock, txn, overlapped>>

\* issueUserTokens: identifiers are drawn and both tokens INSERTed in w's open
\* transaction, where nobody sees them before the commit; x is the code or
\* token the transaction has locked and marked consumed.
IssueUserTokens(w, kind, x, a) ==
    /\ lock' = [lock EXCEPT ![x] = w]
    /\ \E t \in Tokens \ Minted :
          txn' = [txn EXCEPT ![w] =
                    [NoTransaction EXCEPT !.pc = "commit", !.kind = kind,
                                          !.obj = x, !.app = a, !.new = t]]

\* authorizationCodeGrant: SELECT the code FOR UPDATE, check it, and mark it
\* consumed inside the transaction.
CodeGrantLock(w, c, a) ==
    /\ txn[w].pc = "idle"
    /\ codes[c] = a
    /\ lock[c] = None
    /\ CodeRedeemable(c)
    /\ IssueUserTokens(w, "code", c, a)
    /\ UNCHANGED <<codes, codeUsed, rows, tok, consumed, revoked, expired,
                   access, known, overlapped>>

\* The columns a worker's new refresh token is inserted with: a code grant
\* starts a family, a refresh continues its parent's.
NewColumns(w) ==
    IF txn[w].kind = "code"
    THEN [family |-> txn[w].new, parent |-> None,
          app |-> txn[w].app, code |-> txn[w].obj]
    ELSE [family |-> tok[txn[w].obj].family, parent |-> txn[w].obj,
          app |-> txn[w].app, code |-> tok[txn[w].obj].code]

\* The issued tokens become visible; the response may be lost on its way.
TokensStoredUnderOldId(w) ==
    /\ rows' = rows \cup {txn[w].obj}
    /\ tok' = [tok EXCEPT ![txn[w].new] = NewColumns(w)]
    /\ access' = [access EXCEPT ![txn[w].new] = "live"]
    /\ known' \in {known, known \cup {txn[w].new}}
    /\ Ended(w)

TokensCommitted(w) ==
    /\ rows' = rows \cup {txn[w].new}
    /\ tok' = [tok EXCEPT ![txn[w].new] = NewColumns(w)]
    /\ access' = [access EXCEPT ![txn[w].new] = "live"]
    /\ known' \in {known, known \cup {txn[w].new}}
    /\ Ended(w)

CodeGrantCommitForgetsCode(w) ==
    /\ txn[w].pc = "commit" /\ txn[w].kind = "code"
    /\ TokensCommitted(w)
    /\ UNCHANGED <<codes, codeUsed, consumed, revoked, expired, overlapped>>

CodeGrantCommit(w) ==
    /\ txn[w].pc = "commit" /\ txn[w].kind = "code"
    /\ codeUsed' = codeUsed \cup {txn[w].obj}
    /\ TokensCommitted(w)
    /\ UNCHANGED <<codes, consumed, revoked, expired, overlapped>>

-----------------------------------------------------------------------------
(* Refresh tokens *)

\* refreshTokenGrant on a usable token: lock the row and consume it inside
\* the transaction.
RefreshGrantLock(w, t, a) ==
    /\ txn[w].pc = "idle"
    /\ OwnedBy(t, a)
    /\ lock[t] = None
    /\ ~Reuse(t) /\ t \notin expired
    /\ IssueUserTokens(w, "refresh", t, a)
    /\ UNCHANGED <<codes, codeUsed, rows, tok, consumed, revoked, expired,
                   access, known, overlapped>>

\* Some family update is in progress in the family of token t.
UpdateRunning(t) ==
    \E q \in Workers : /\ txn[q].pc = "update"
                       /\ tok[txn[q].obj].family = tok[t].family

RefreshGrantCommit(w) ==
    /\ txn[w].pc = "commit" /\ txn[w].kind = "refresh"
    /\ consumed' = consumed \cup {txn[w].obj}
    /\ TokensCommitted(w)
    /\ overlapped' = IF UpdateRunning(txn[w].obj)
                     THEN overlapped \cup {tok[txn[w].obj].family}
                     ELSE overlapped
    /\ UNCHANGED <<codes, codeUsed, revoked, expired>>

\* refreshTokenGrant on a consumed or revoked token: its row is locked and
\* the family is about to be revoked in the same transaction.
RefreshReuse(w, t, a) ==
    /\ txn[w].pc = "idle"
    /\ OwnedBy(t, a)
    /\ lock[t] = None
    /\ Reuse(t)
    /\ lock' = [lock EXCEPT ![t] = w]
    /\ txn' = [txn EXCEPT ![w] =
                 [NoTransaction EXCEPT !.pc = "family", !.kind = "reuse",
                                       !.obj = t, !.app = a]]
    /\ UNCHANGED <<codes, codeUsed, rows, tok, consumed, revoked, expired,
                   access, known, overlapped>>

\* revokeToken on a refresh token: the family is read without a lock.
RevokeToken(w, t, a) ==
    /\ txn[w].pc = "idle"
    /\ OwnedBy(t, a)
    /\ txn' = [txn EXCEPT ![w] =
                 [NoTransaction EXCEPT !.pc = "family", !.kind = "revoke",
                                       !.obj = t, !.app = a]]
    /\ UNCHANGED <<codes, codeUsed, rows, tok, consumed, revoked, expired,
                   access, known, lock, overlapped>>

\* UPDATE refresh_tokens ... WHERE family_id = f: the statement's snapshot.
PresentedTokenOnly(w) == {txn[w].obj}
UpdateTargets(w) == FamilyRows(tok[txn[w].obj].family)

FamilyUpdateStart(w) ==
    /\ txn[w].pc = "family"
    /\ txn' = [txn EXCEPT ![w].pc = "update",
                          ![w].todo = UpdateTargets(w)]
    /\ UNCHANGED <<codes, codeUsed, rows, tok, consumed, revoked, expired,
                   access, known, lock, overlapped>>

\* ... which locks and marks the rows of the snapshot one after the other.
FamilyUpdateRow(w, t) ==
    /\ txn[w].pc = "update"
    /\ t \in txn[w].todo
    /\ Free(w, t)
    /\ lock' = [lock EXCEPT ![t] = w]
    /\ txn' = [txn EXCEPT ![w].todo = @ \ {t}, ![w].marked = @ \cup {t}]
    /\ UNCHANGED <<codes, codeUsed, rows, tok, consumed, revoked, expired,
                   access, known, overlapped>>

FamilyUpdateCommit(w) ==
    /\ txn[w].pc = "update" /\ txn[w].todo = {}
    /\ revoked' = revoked \cup txn[w].marked
    /\ Ended(w)
    /\ UNCHANGED <<codes, codeUsed, rows, tok, consumed, expired, access,
                   known, overlapped>>

-----------------------------------------------------------------------------
(* Access tokens that are not part of a refresh family's life *)

\* clientCredentialsGrant: one INSERT and the commit, an access token only.
ClientCredentialsGrant ==
    \E t \in Tokens \ Minted :
        /\ access' = [access EXCEPT ![t] = "live"]
        /\ known' \in {known, known \cup {t}}
        /\ UNCHANGED <<codes, codeUsed, rows, tok, consumed, revoked, expired,
                       lock, txn, overlapped>>

\* revokeToken on an access token: one UPDATE.
RevokeAccessToken(t) ==
    /\ t \in known /\ access[t] = "live"
    /\ access' = [access EXCEPT ![t] = "revoked"]
    /\ UNCHANGED <<codes, codeUsed, rows, tok, consumed, revoked, expired,
                   known, lock, txn, overlapped>>

-----------------------------------------------------------------------------
(* Failures *)

\* A statement fails, the request is cancelled or its replica dies: the
\* transaction rolls back.
AbortKeepsLocks(w) ==
    /\ txn[w].pc # "idle"
    /\ txn' = [txn EXCEPT ![w] = NoTransaction]
    /\ UNCHANGED <<codes, codeUsed, rows, tok, consumed, revoked, expired,
                   access, known, lock, overlapped>>

Abort(w) ==
    /\ txn[w].pc # "idle"
    /\ Ended(w)
    /\ UNCHANGED <<codes, codeUsed, rows, tok, consumed, revoked, expired,
                   access, known, overlapped>>

Blocked(w) ==
    /\ txn[w].pc = "update" /\ txn[w].todo # {}
    /\ \A t \in txn[w].todo : ~Free(w, t)

\* Workers that all wait for rows of one another.
Deadlocked(S) ==
    \A w \in S : Blocked(w) /\ \A t \in txn[w].todo : lock[t] \in S

\* PostgreSQL's deadlock detector rolls one of them back.
DeadlockAbort(w) ==
    /\ \E S \in SUBSET Workers : w \in S /\ Deadlocked(S)
    /\ Abort(w)

-----------------------------------------------------------------------------
Step(w) ==
    \/ CodeGrantCommit(w)
    \/ RefreshGrantCommit(w)
    \/ FamilyUpdateStart(w)
    \/ \E t \in Tokens : FamilyUpdateRow(w, t)
    \/ FamilyUpdateCommit(w)

Request(w) ==
    \/ \E c \in Codes, a \in Apps : CodeGrantLock(w, c, a)
    \/ \E t \in Tokens, a \in Apps : \/ RefreshGrantLock(w, t, a)
                                     \/ RefreshReuse(w, t, a)
                                     \/ RevokeToken(w, t, a)

Environment ==
    \/ \E c \in Codes, a \in Apps : StoreAuthorizationCode(c, a)
    \/ \E x \in Lockable : Expire(x)
    \/ ClientCredentialsGrant
    \/ \E t \in Tokens : RevokeAccessToken(t)

Next ==
    \/ \E w \in Workers : Step(w) \/ Request(w) \/ Abort(w) \/ DeadlockAbort(w)
    \/ Environment

Spec == Init /\ [][Next]_vars

-----------------------------------------------------------------------------
(* Properties *)

\* However many exchanges of a code and refreshes of its tokens race, at most
\* one unconsumed refresh token descends from each authorization code: a code
\* is redeemed once and a refresh token has one successor.
OneHeirPerCode ==
    \A t, u \in rows \ consumed : tok[t].code = tok[u].code => t = u

\* A failure anywhere leaves a grant either unspent or replaced: a code is
\* consumed exactly when a family was started from it, a refresh token exactly
\* when its successor was stored.
GrantsConserved ==
    /\ codeUsed = {tok[t].code : t \in {u \in rows : tok[u].parent = None}}
    /\ consumed = {tok[t].parent : t \in rows} \ {None}

\* No token of a family ever belongs to another client than the one the
\* authorization code was issued to.
FamilyConfined ==
    \A t \in rows : tok[t].app # None /\ tok[t].app = codes[tok[t].code]

\* Once a refresh token is committed as revoked, no refresh of it succeeds,
\* whatever was in progress when it was revoked.
RevokedNeverRefreshed ==
    [][\A t \in revoked : t \in consumed' => t \in consumed]_vars

\* A committed revocation (reuse detection or the revocation endpoint) has
\* revoked the whole family, unless a refresh of that family committed while
\* the revoking UPDATE was running.
RevocationComplete ==
    \A t \in rows : tok[t].family \in overlapped
                       \/ FamilyRows(tok[t].family) \cap revoked = {}
                       \/ t \in revoked

\* docs/oidc.md on the token and revocation endpoints: reuse of a consumed or
\* revoked token revokes every token in the family, and revoking a refresh
\* token revokes its entire family.  No token stays active in a family that
\* has a revoked one.
RevokedFamilyIsDead ==
    \A t \in rows : FamilyRows(tok[t].family) \cap revoked # {} => ~Active(t)

-----------------------------------------------------------------------------
(* The inductive invariant behind the safety properties *)

\* A transaction that issues tokens still holds the row it read: the code is
\* unused, the refresh token neither consumed nor revoked, the new identifier
\* unused and nobody else's.
IssuerOwnsItsGrant ==
    \A w \in Workers : txn[w].pc = "commit" =>
        /\ txn[w].kind \in {"code", "refresh"}
        /\ txn[w].new \in Tokens /\ access[txn[w].new] = "none"
        /\ txn[w].app \in Apps
        /\ txn[w].kind = "code" =>
              /\ txn[w].obj \in Codes \ codeUsed
              /\ codes[txn[w].obj] = txn[w].app
        /\ txn[w].kind = "refresh" =>
              /\ txn[w].obj \in rows \ (consumed \cup revoked)
              /\ tok[txn[w].obj].app = txn[w].app
        /\ lock[txn[w].obj] = w
        /\ \A v \in Workers \ {w} : txn[v].new # txn[w].new

\* A running family update has locked what it marked, and its snapshot holds
\* the whole family as long as no refresh overlapped it.
UpdateCovers(w) ==
    /\ txn[w].pc \in {"family", "update"} => txn[w].obj \in rows
    /\ txn[w].pc = "family" => txn[w].marked = {}
    /\ txn[w].pc = "update" =>
          /\ txn[w].todo \cup txn[w].marked \subseteq UpdateTargets(w)
          /\ \A t \in txn[w].marked : lock[t] = w
          /\ \/ tok[txn[w].obj].family \in overlapped
             \/ UpdateTargets(w) = txn[w].todo \cup txn[w].marked

UpdateCoversFamily == \A w \in Workers : UpdateCovers(w)

\* Every stored token stems from a used code through stored tokens.
RowsStemFromCodes ==
    /\ consumed \cup revoked \subseteq rows
    /\ \A t \in rows : /\ access[t] # "none"
                       /\ tok[t].code \in codeUsed
                       /\ tok[t].family \in rows

\* The inductive invariant: what every transaction in progress may rely on,
\* together with the safety properties it keeps true.
IInv ==
    /\ TypeOK
    /\ IssuerOwnsItsGrant
    /\ UpdateCoversFamily
    /\ RowsStemFromCodes
    /\ OneHeirPerCode
    /\ GrantsConserved
    /\ FamilyConfined
    /\ RevocationComplete
=============================================================================
