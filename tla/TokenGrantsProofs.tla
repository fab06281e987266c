------------------------- MODULE TokenGrantsProofs -------------------------
(* Safety of the token endpoint for any number of requests, codes, tokens  *)
(* and clients.                                                            *)
EXTENDS TokenGrantsRefinement, TokenRequests, FiniteSetTheorems, TLAPS

USE DEF Lockable

(***************************************************************************)
(* Type correctness                                                        *)
(***************************************************************************)

\* The end of a transaction keeps locks and transactions well typed.
LEMMA EndedType ==
    ASSUME TypeOK, NEW w \in Workers, Ended(w)
    PROVE  /\ lock' \in [Lockable -> Workers \cup {None}]
           /\ txn' \in [Workers -> Transaction]
  <1>1. NoTransaction \in Transaction
    BY DEF NoTransaction, Transaction
  <1>2. QED
    BY <1>1 DEF Ended, Released, TypeOK

\* Opening an issuing transaction keeps locks and transactions well typed.
LEMMA IssueType ==
    ASSUME TypeOK, NEW w \in Workers, NEW kind \in {"code", "refresh"},
           NEW x \in Lockable, NEW a \in Apps, IssueUserTokens(w, kind, x, a)
    PROVE  /\ lock' \in [Lockable -> Workers \cup {None}]
           /\ txn' \in [Workers -> Transaction]
  <1>1. PICK t \in Tokens : txn' = [txn EXCEPT ![w] =
            [NoTransaction EXCEPT !.pc = "commit", !.kind = kind,
                                  !.obj = x, !.app = a, !.new = t]]
    BY DEF IssueUserTokens
  <1>2. [NoTransaction EXCEPT !.pc = "commit", !.kind = kind,
                              !.obj = x, !.app = a, !.new = t] \in Transaction
    BY DEF NoTransaction, Transaction
  <1>3. QED
    BY <1>1, <1>2 DEF IssueUserTokens, TypeOK

\* Committing issued tokens keeps the tables well typed.
LEMMA CommitType ==
    ASSUME TypeOK, IssuerOwnsItsGrant, NEW w \in Workers,
           txn[w].pc = "commit", TokensCommitted(w)
    PROVE  /\ rows' \subseteq Tokens
           /\ tok' \in [Tokens -> TokenColumns]
           /\ access' \in [Tokens -> {"none", "live", "revoked"}]
           /\ known' \subseteq Tokens
           /\ lock' \in [Lockable -> Workers \cup {None}]
           /\ txn' \in [Workers -> Transaction]
  <1>1. txn[w] \in Transaction /\ txn[w].new \in Tokens /\ txn[w].app \in Apps
    BY DEF TypeOK, IssuerOwnsItsGrant
  <1>2. NewColumns(w) \in TokenColumns
    <2>1. CASE txn[w].kind = "code"
      BY <1>1, <2>1 DEF NewColumns, TokenColumns, IssuerOwnsItsGrant
    <2>2. CASE txn[w].kind = "refresh"
      <3>1. txn[w].obj \in Tokens /\ tok[txn[w].obj] \in TokenColumns
        BY <2>2 DEF IssuerOwnsItsGrant, TypeOK
      <3>2. QED
        BY <1>1, <2>2, <3>1 DEF NewColumns, TokenColumns
    <2>3. QED
      BY <2>1, <2>2 DEF IssuerOwnsItsGrant
  <1>3. QED
    BY <1>1, <1>2, EndedType DEF TokensCommitted, TypeOK

\* Every step keeps the state well typed.
LEMMA TypeStep ==
    ASSUME TypeOK, IssuerOwnsItsGrant, RowsStemFromCodes, [Next]_vars
    PROVE  TypeOK'
  <1> USE DEF TypeOK
  <1>1. CASE UNCHANGED vars
    BY <1>1 DEF vars
  <1>2. ASSUME NEW c \in Codes, NEW a \in Apps, StoreAuthorizationCode(c, a)
        PROVE  TypeOK'
    BY <1>2 DEF StoreAuthorizationCode
  <1>3. ASSUME NEW x \in Lockable, Expire(x)
        PROVE  TypeOK'
    BY <1>3 DEF Expire
  <1>4. ASSUME ClientCredentialsGrant
        PROVE  TypeOK'
    BY <1>4 DEF ClientCredentialsGrant
  <1>5. ASSUME NEW t \in Tokens, RevokeAccessToken(t)
        PROVE  TypeOK'
    BY <1>5 DEF RevokeAccessToken
  <1>6. ASSUME NEW w \in Workers, Abort(w) \/ DeadlockAbort(w)
        PROVE  TypeOK'
    BY <1>6, EndedType DEF Abort, DeadlockAbort
  <1>7. ASSUME NEW w \in Workers, NEW c \in Codes, NEW a \in Apps,
               CodeGrantLock(w, c, a)
        PROVE  TypeOK'
    BY <1>7, IssueType DEF CodeGrantLock
  <1>8. ASSUME NEW w \in Workers, NEW t \in Tokens, NEW a \in Apps,
               RefreshGrantLock(w, t, a)
        PROVE  TypeOK'
    BY <1>8, IssueType DEF RefreshGrantLock
  <1>9. ASSUME NEW w \in Workers, NEW t \in Tokens, NEW a \in Apps,
               RefreshReuse(w, t, a) \/ RevokeToken(w, t, a)
        PROVE  TypeOK'
    <2>1. \A k \in {"reuse", "revoke"} :
             [NoTransaction EXCEPT !.pc = "family", !.kind = k,
                                   !.obj = t, !.app = a] \in Transaction
      BY DEF NoTransaction, Transaction
    <2>2. QED
      BY <1>9, <2>1 DEF RefreshReuse, RevokeToken
  <1>10. ASSUME NEW w \in Workers, CodeGrantCommit(w)
         PROVE  TypeOK'
    <2>1. txn[w].obj \in Codes
      BY <1>10 DEF CodeGrantCommit, IssuerOwnsItsGrant
    <2>2. QED
      BY <1>10, <2>1, CommitType DEF CodeGrantCommit
  <1>11. ASSUME NEW w \in Workers, RefreshGrantCommit(w)
         PROVE  TypeOK'
    <2>1. txn[w].obj \in Tokens /\ tok[txn[w].obj] \in TokenColumns
      BY <1>11 DEF RefreshGrantCommit, IssuerOwnsItsGrant
    <2>2. tok[txn[w].obj].family \in Tokens
      BY <1>11 DEF RefreshGrantCommit, IssuerOwnsItsGrant, RowsStemFromCodes
    <2>3. QED
      BY <1>11, <2>1, <2>2, CommitType DEF RefreshGrantCommit
  <1>12. ASSUME NEW w \in Workers, FamilyUpdateStart(w)
         PROVE  TypeOK'
    <2>1. UpdateTargets(w) \subseteq Tokens
      BY DEF UpdateTargets, FamilyRows
    <2>2. [txn[w] EXCEPT !.pc = "update", !.todo = UpdateTargets(w)] \in Transaction
      BY <2>1, ZenonT(40) DEF Transaction
    <2>3. QED
      BY <1>12, <2>2 DEF FamilyUpdateStart
  <1>13. ASSUME NEW w \in Workers, NEW t \in Tokens, FamilyUpdateRow(w, t)
         PROVE  TypeOK'
    <2>1. [txn[w] EXCEPT !.todo = @ \ {t}, !.marked = @ \cup {t}] \in Transaction
      BY ZenonT(40) DEF Transaction
    <2>2. QED
      BY <1>13, <2>1 DEF FamilyUpdateRow
  <1>14. ASSUME NEW w \in Workers, FamilyUpdateCommit(w)
         PROVE  TypeOK'
    <2>1. txn[w].marked \subseteq Tokens
      BY DEF Transaction
    <2>2. QED
      BY <1>14, <2>1, EndedType DEF FamilyUpdateCommit
  <1>15. QED
    BY <1>1, <1>2, <1>3, <1>4, <1>5, <1>6, <1>7, <1>8, <1>9, <1>10, <1>11,
       <1>12, <1>13, <1>14 DEF Next, Environment, Step, Request

(***************************************************************************)
(* The inductive invariant                                                 *)
(***************************************************************************)

\* The parts of the invariant that speak of committed rows only.
Tables == RowsStemFromCodes /\ OneHeirPerCode /\ GrantsConserved
          /\ FamilyConfined /\ RevocationComplete

\* A step that writes no table keeps what the invariant says of the tables.
LEMMA TablesFrame ==
    ASSUME Tables, UNCHANGED <<codes, codeUsed, rows, tok, consumed, revoked>>,
           \A t \in rows : access[t] # "none" => access'[t] # "none",
           overlapped' = overlapped
    PROVE  Tables'
  BY DEF Tables, RowsStemFromCodes, OneHeirPerCode, GrantsConserved,
         FamilyConfined, RevocationComplete, FamilyRows

\* Ending a transaction idles its worker, frees its rows and no others.
LEMMA EndedFacts ==
    ASSUME TypeOK, NEW w \in Workers, Ended(w)
    PROVE  /\ txn'[w] = NoTransaction
           /\ \A v \in Workers \ {w} : txn'[v] = txn[v]
           /\ \A x \in Lockable, v \in Workers \ {w} : lock'[x] = v <=> lock[x] = v
  BY ConstantsAssumption DEF Ended, Released, TypeOK

\* A worker that has just ended satisfies what is said of open transactions.
LEMMA IdleFacts ==
    /\ NoTransaction.pc = "idle"
    /\ NoTransaction.new = None
  BY DEF NoTransaction

\* An issuing transaction starts: only w's entry and the lock of x change.
LEMMA IssueFacts ==
    ASSUME TypeOK, NEW w \in Workers, NEW kind \in {"code", "refresh"},
           NEW x \in Lockable, NEW a \in Apps, IssueUserTokens(w, kind, x, a)
    PROVE  /\ txn'[w].pc = "commit" /\ txn'[w].kind = kind
           /\ txn'[w].obj = x /\ txn'[w].app = a
           /\ txn'[w].new \in Tokens /\ access[txn'[w].new] = "none"
           /\ \A v \in Workers : txn[v].new # txn'[w].new
           /\ \A v \in Workers \ {w} : txn'[v] = txn[v]
           /\ lock'[x] = w
           /\ \A y \in Lockable \ {x} : lock'[y] = lock[y]
  <1>1. PICK t \in Tokens \ Minted : txn' = [txn EXCEPT ![w] =
            [NoTransaction EXCEPT !.pc = "commit", !.kind = kind,
                                  !.obj = x, !.app = a, !.new = t]]
    BY DEF IssueUserTokens
  <1>2. txn'[w] = [pc |-> "commit", kind |-> kind, obj |-> x, app |-> a,
                   new |-> t, todo |-> {}, marked |-> {}]
    BY <1>1 DEF NoTransaction, TypeOK
  <1>3. access[t] = "none" /\ \A v \in Workers : txn[v].new # t
    BY <1>1 DEF Minted
  <1>4. \A v \in Workers \ {w} : txn'[v] = txn[v]
    BY <1>1 DEF TypeOK
  <1>5. lock'[x] = w /\ \A y \in Lockable \ {x} : lock'[y] = lock[y]
    BY DEF IssueUserTokens, TypeOK
  <1>6. QED
    BY <1>2, <1>3, <1>4, <1>5

\* A step of another worker that writes no refresh token and takes no lock
\* away keeps what is said of v's update.
LEMMA UpdateFrame ==
    ASSUME TypeOK, NEW v \in Workers, UpdateCovers(v), txn'[v] = txn[v],
           UNCHANGED <<rows, tok, overlapped>>,
           \A y \in Lockable : lock[y] = v => lock'[y] = v
    PROVE  UpdateCovers(v)'
  <1>1. UpdateTargets(v)' = UpdateTargets(v)
    BY DEF UpdateTargets, FamilyRows
  <1>2. txn[v].marked \subseteq Lockable
    BY DEF TypeOK, Transaction
  <1>3. QED
    BY <1>1, <1>2 DEF UpdateCovers

\* Opening an issuing transaction on a row nobody holds keeps what is said of
\* the other transactions.
LEMMA IssueStep ==
    ASSUME IInv, NEW w \in Workers, NEW kind \in {"code", "refresh"},
           NEW x \in Lockable, NEW a \in Apps, IssueUserTokens(w, kind, x, a),
           lock[x] = None,
           kind = "code" => x \in Codes \ codeUsed /\ codes[x] = a,
           kind = "refresh" => /\ x \in rows \ (consumed \cup revoked)
                               /\ tok[x].app = a,
           UNCHANGED <<codes, codeUsed, rows, tok, consumed, revoked, access,
                       overlapped>>
    PROVE  IssuerOwnsItsGrant' /\ UpdateCoversFamily' /\ Tables'
  <1> USE DEF IInv
  <1>1. \A y \in Lockable, v \in Workers \ {w} : lock[y] = v => lock'[y] = v
    BY IssueFacts, ConstantsAssumption
  <1>2. IssuerOwnsItsGrant'
    BY <1>1, IssueFacts DEF IssuerOwnsItsGrant, TypeOK
  <1>3. UpdateCoversFamily'
    <2>1. UpdateCovers(w)'
      BY IssueFacts DEF UpdateCovers
    <2>2. \A v \in Workers \ {w} : UpdateCovers(v)'
      BY <1>1, IssueFacts, UpdateFrame DEF UpdateCoversFamily
    <2>3. QED
      BY <2>1, <2>2 DEF UpdateCoversFamily
  <1>4. Tables'
    BY TablesFrame DEF Tables
  <1>5. QED
    BY <1>2, <1>3, <1>4

\* Steps of worker w that open a family update or go on with it, and the end
\* of a transaction without a write.
LEMMA QuietStep ==
    ASSUME IInv, NEW w \in Workers,
           \/ \E t \in Tokens, a \in Apps : RefreshReuse(w, t, a) \/ RevokeToken(w, t, a)
           \/ FamilyUpdateStart(w)
           \/ \E t \in Tokens : FamilyUpdateRow(w, t)
           \/ Abort(w)
    PROVE  IssuerOwnsItsGrant' /\ UpdateCoversFamily' /\ Tables'
  <1> USE DEF IInv
  <1>1. UNCHANGED <<codes, codeUsed, rows, tok, consumed, revoked, access, overlapped>>
    BY DEF RefreshReuse, RevokeToken, FamilyUpdateStart, FamilyUpdateRow, Abort
  <1> DEFINE Quiet ==
        /\ txn'[w].pc # "commit" /\ txn'[w].new \in {None, txn[w].new}
        /\ \A v \in Workers \ {w} : txn'[v] = txn[v]
        /\ \A y \in Lockable, v \in Workers \ {w} : lock[y] = v => lock'[y] = v
        /\ UpdateCovers(w)'
  <1>2. ASSUME NEW t \in Tokens, NEW a \in Apps,
               RefreshReuse(w, t, a) \/ RevokeToken(w, t, a)
        PROVE  Quiet
    <2>1. PICK k \in {"reuse", "revoke"} : txn' = [txn EXCEPT ![w] =
                 [NoTransaction EXCEPT !.pc = "family", !.kind = k,
                                       !.obj = t, !.app = a]]
      BY <1>2 DEF RefreshReuse, RevokeToken
    <2>2. txn'[w] = [pc |-> "family", kind |-> k, obj |-> t, app |-> a,
                     new |-> None, todo |-> {}, marked |-> {}]
      BY <2>1 DEF NoTransaction, TypeOK
    <2>3. \A v \in Workers \ {w} : txn'[v] = txn[v]
      BY <2>1 DEF TypeOK
    <2>4. t \in rows
      BY <1>2 DEF RefreshReuse, RevokeToken, OwnedBy
    <2>5. \A y \in Lockable, v \in Workers \ {w} : lock[y] = v => lock'[y] = v
      BY <1>2, ConstantsAssumption DEF RefreshReuse, RevokeToken, TypeOK
    <2>6. QED
      BY <1>1, <2>2, <2>3, <2>4, <2>5 DEF UpdateCovers
  <1>3. ASSUME FamilyUpdateStart(w)
        PROVE  Quiet
    <2>1. /\ txn'[w].pc = "update" /\ txn'[w].obj = txn[w].obj
          /\ txn'[w].new = txn[w].new /\ txn'[w].todo = UpdateTargets(w)
          /\ txn'[w].marked = txn[w].marked
      BY <1>3 DEF FamilyUpdateStart, TypeOK, Transaction
    <2>2. \A v \in Workers \ {w} : txn'[v] = txn[v]
      BY <1>3 DEF FamilyUpdateStart, TypeOK
    <2>3. lock' = lock /\ UpdateTargets(w)' = UpdateTargets(w)
      BY <1>1, <1>3, <2>1 DEF FamilyUpdateStart, UpdateTargets, FamilyRows
    <2>4. txn[w].obj \in rows /\ txn[w].marked = {}
      BY <1>3 DEF FamilyUpdateStart, UpdateCoversFamily, UpdateCovers
    <2>5. QED
      BY <1>1, <2>1, <2>2, <2>3, <2>4 DEF UpdateCovers
  <1>4. ASSUME NEW t \in Tokens, FamilyUpdateRow(w, t)
        PROVE  Quiet
    <2>1. /\ txn'[w].pc = "update" /\ txn'[w].obj = txn[w].obj
          /\ txn'[w].new = txn[w].new /\ txn'[w].todo = txn[w].todo \ {t}
          /\ txn'[w].marked = txn[w].marked \cup {t}
      BY <1>4 DEF FamilyUpdateRow, TypeOK, Transaction
    <2>2. \A v \in Workers \ {w} : txn'[v] = txn[v]
      BY <1>4 DEF FamilyUpdateRow, TypeOK
    <2>3. UpdateTargets(w)' = UpdateTargets(w)
      BY <1>1, <2>1 DEF UpdateTargets, FamilyRows
    <2>4. UpdateCovers(w) /\ t \in txn[w].todo /\ txn[w].pc = "update"
      BY <1>4 DEF FamilyUpdateRow, UpdateCoversFamily
    <2>5. /\ lock'[t] = w
          /\ \A y \in Lockable \ {t} : lock'[y] = lock[y]
          /\ lock[t] \in {None, w}
      BY <1>4 DEF FamilyUpdateRow, Free, TypeOK
    <2>6. txn[w].marked \subseteq Lockable
      BY DEF TypeOK, Transaction
    <2>7. UpdateCovers(w)'
      BY <1>1, <2>1, <2>3, <2>4, <2>5, <2>6 DEF UpdateCovers
    <2>8. QED
      BY <2>1, <2>2, <2>5, <2>7, ConstantsAssumption
  <1>5. ASSUME Abort(w)
        PROVE  Quiet
    BY <1>5, EndedFacts, IdleFacts DEF Abort, UpdateCovers
  <1>6. Quiet
    BY <1>2, <1>3, <1>4, <1>5
  <1>7. IssuerOwnsItsGrant'
    BY <1>1, <1>6, ConstantsAssumption DEF IssuerOwnsItsGrant, TypeOK
  <1>8. UpdateCoversFamily'
    BY <1>1, <1>6, UpdateFrame DEF UpdateCoversFamily
  <1>9. Tables'
    BY <1>1, TablesFrame DEF Tables
  <1>10. QED
    BY <1>7, <1>8, <1>9

\* What the commit of issued tokens does to the tables.
LEMMA CommitFacts ==
    ASSUME IInv, NEW w \in Workers, txn[w].pc = "commit", TokensCommitted(w)
    PROVE  /\ txn[w].new \in Tokens \ rows
           /\ rows' = rows \cup {txn[w].new}
           /\ tok'[txn[w].new] = NewColumns(w)
           /\ \A t \in Tokens \ {txn[w].new} : tok'[t] = tok[t]
           /\ access'[txn[w].new] = "live"
           /\ \A t \in Tokens \ {txn[w].new} : access'[t] = access[t]
           /\ txn'[w] = NoTransaction
           /\ \A v \in Workers \ {w} : txn'[v] = txn[v]
           /\ \A x \in Lockable, v \in Workers \ {w} : lock'[x] = v <=> lock[x] = v
  <1> USE DEF IInv
  <1>1. txn[w].new \in Tokens /\ access[txn[w].new] = "none"
    BY DEF IssuerOwnsItsGrant
  <1>2. txn[w].new \notin rows
    BY <1>1 DEF RowsStemFromCodes
  <1>3. Ended(w)
    BY DEF TokensCommitted
  <1>4. QED
    BY <1>1, <1>2, <1>3, EndedFacts DEF TokensCommitted, TypeOK

\* Redeeming a code.
LEMMA CodeCommitStep ==
    ASSUME IInv, NEW w \in Workers, CodeGrantCommit(w)
    PROVE  IssuerOwnsItsGrant' /\ UpdateCoversFamily' /\ Tables'
  <1> USE DEF IInv
  <1> DEFINE n == txn[w].new
             c == txn[w].obj
  <1>1. /\ txn[w].pc = "commit" /\ txn[w].kind = "code" /\ TokensCommitted(w)
        /\ codeUsed' = codeUsed \cup {c}
        /\ UNCHANGED <<codes, consumed, revoked, overlapped>>
    BY DEF CodeGrantCommit
  <1>2. c \in Codes \ codeUsed /\ codes[c] = txn[w].app /\ txn[w].app \in Apps
        /\ lock[c] = w
    BY <1>1 DEF IssuerOwnsItsGrant
  <1>3. tok'[n] = [family |-> n, parent |-> None, app |-> txn[w].app, code |-> c]
    BY <1>1, CommitFacts DEF NewColumns
  <1>4. /\ n \in Tokens \ rows /\ rows' = rows \cup {n}
        /\ \A t \in rows : tok'[t] = tok[t] /\ access'[t] = access[t]
        /\ access'[n] = "live"
        /\ rows \subseteq Tokens
    BY <1>1, CommitFacts DEF TypeOK
  <1>5. \A t \in rows : tok[t].family \in rows /\ tok[t].code \in codeUsed
    BY DEF RowsStemFromCodes
  <1>6. IssuerOwnsItsGrant'
    <2> SUFFICES ASSUME NEW v \in Workers \ {w}, txn[v].pc = "commit"
                 PROVE  /\ txn[v].kind \in {"code", "refresh"}
                        /\ txn[v].new \in Tokens /\ access'[txn[v].new] = "none"
                        /\ txn[v].app \in Apps
                        /\ txn[v].kind = "code" =>
                              /\ txn[v].obj \in Codes \ codeUsed'
                              /\ codes'[txn[v].obj] = txn[v].app
                        /\ txn[v].kind = "refresh" =>
                              /\ txn[v].obj \in rows' \ (consumed' \cup revoked')
                              /\ tok'[txn[v].obj].app = txn[v].app
                        /\ lock'[txn[v].obj] = v
                        /\ \A u \in Workers \ {v} : txn'[u].new # txn[v].new
      BY <1>1, CommitFacts, IdleFacts DEF IssuerOwnsItsGrant
    <2>1. /\ txn[v].new # n /\ txn[v].new \in Tokens /\ access[txn[v].new] = "none"
          /\ lock[txn[v].obj] = v
      BY DEF IssuerOwnsItsGrant
    <2>2. txn[v].obj \in Lockable /\ lock'[txn[v].obj] = v /\ txn[v].obj # c
      BY <1>1, <1>2, <2>1, CommitFacts DEF IssuerOwnsItsGrant, TypeOK
    <2>3. access'[txn[v].new] = "none"
      BY <1>1, <2>1, CommitFacts
    <2>4. \A u \in Workers \ {v} : txn'[u].new # txn[v].new
      BY <1>1, <2>1, CommitFacts, IdleFacts, ConstantsAssumption DEF IssuerOwnsItsGrant
    <2>5. QED
      BY <1>1, <1>4, <2>1, <2>2, <2>3, <2>4 DEF IssuerOwnsItsGrant
  <1>7. UpdateCoversFamily'
    <2>1. UpdateCovers(w)'
      BY <1>1, CommitFacts, IdleFacts DEF UpdateCovers
    <2>2. ASSUME NEW v \in Workers \ {w}, txn[v].pc \in {"family", "update"}
          PROVE  UpdateCovers(v)'
      <3>1. txn'[v] = txn[v] /\ txn[v].obj \in rows /\ UpdateCovers(v)
        BY <1>1, <2>2, CommitFacts DEF UpdateCoversFamily, UpdateCovers
      <3>2. UpdateTargets(v)' = UpdateTargets(v)
        BY <1>3, <1>4, <1>5, <3>1 DEF UpdateTargets, FamilyRows
      <3>3. txn[v].marked \subseteq Lockable
        BY DEF TypeOK, Transaction
      <3>4. QED
        BY <1>1, <1>4, <3>1, <3>2, <3>3, CommitFacts DEF UpdateCovers
    <2>3. ASSUME NEW v \in Workers \ {w}, txn[v].pc \notin {"family", "update"}
          PROVE  UpdateCovers(v)'
      BY <1>1, <2>3, CommitFacts DEF UpdateCovers
    <2>4. QED
      BY <2>1, <2>2, <2>3 DEF UpdateCoversFamily
  <1>8. Tables'
    <2>1. RowsStemFromCodes'
      BY <1>1, <1>3, <1>4, <1>5 DEF RowsStemFromCodes
    <2>2. OneHeirPerCode'
      BY <1>1, <1>2, <1>3, <1>4, <1>5 DEF OneHeirPerCode
    <2>3. GrantsConserved'
      BY <1>1, <1>3, <1>4 DEF GrantsConserved
    <2>4. FamilyConfined'
      BY <1>1, <1>2, <1>3, <1>4, ConstantsAssumption DEF FamilyConfined
    <2>5. RevocationComplete'
      <3>1. {u \in rows' : tok'[u].family = n} = {n} /\ n \notin revoked
        BY <1>3, <1>4, <1>5 DEF RowsStemFromCodes
      <3>2. \A t \in rows : {u \in rows' : tok'[u].family = tok'[t].family}
                               = FamilyRows(tok[t].family)
        BY <1>3, <1>4, <1>5 DEF FamilyRows
      <3>3. ASSUME NEW t \in rows'
            PROVE  \/ tok'[t].family \in overlapped
                   \/ {u \in rows' : tok'[u].family = tok'[t].family} \cap revoked = {}
                   \/ t \in revoked
        <4>1. CASE t = n
          BY <1>3, <3>1, <4>1
        <4>2. CASE t \in rows
          BY <1>4, <3>2, <4>2 DEF RevocationComplete
        <4>3. QED
          BY <1>4, <4>1, <4>2
      <3>4. QED
        BY <1>1, <3>3 DEF RevocationComplete, FamilyRows
    <2>6. QED
      BY <2>1, <2>2, <2>3, <2>4, <2>5 DEF Tables
  <1>9. QED
    BY <1>6, <1>7, <1>8

\* Refreshing a token.
LEMMA RefreshCommitStep ==
    ASSUME IInv, NEW w \in Workers, RefreshGrantCommit(w)
    PROVE  IssuerOwnsItsGrant' /\ UpdateCoversFamily' /\ Tables'
  <1> USE DEF IInv
  <1> DEFINE n == txn[w].new
             p == txn[w].obj
             f == tok[p].family
  <1>1. /\ txn[w].pc = "commit" /\ txn[w].kind = "refresh" /\ TokensCommitted(w)
        /\ consumed' = consumed \cup {p}
        /\ overlapped' = IF UpdateRunning(p) THEN overlapped \cup {f} ELSE overlapped
        /\ UNCHANGED <<codes, codeUsed, revoked>>
    BY DEF RefreshGrantCommit
  <1>2. p \in rows \ (consumed \cup revoked) /\ tok[p].app = txn[w].app
        /\ txn[w].app \in Apps /\ lock[p] = w
    BY <1>1 DEF IssuerOwnsItsGrant
  <1>3. tok'[n] = [family |-> f, parent |-> p, app |-> txn[w].app,
                   code |-> tok[p].code]
    BY <1>1, CommitFacts DEF NewColumns
  <1>4. /\ n \in Tokens \ rows /\ rows' = rows \cup {n}
        /\ \A t \in rows : tok'[t] = tok[t] /\ access'[t] = access[t]
        /\ access'[n] = "live"
        /\ rows \subseteq Tokens
    BY <1>1, CommitFacts DEF TypeOK
  <1>5. \A t \in rows : tok[t].family \in rows /\ tok[t].code \in codeUsed
    BY DEF RowsStemFromCodes
  <1>6. IssuerOwnsItsGrant'
    <2> SUFFICES ASSUME NEW v \in Workers \ {w}, txn[v].pc = "commit"
                 PROVE  /\ txn[v].kind \in {"code", "refresh"}
                        /\ txn[v].new \in Tokens /\ access'[txn[v].new] = "none"
                        /\ txn[v].app \in Apps
                        /\ txn[v].kind = "code" =>
                              /\ txn[v].obj \in Codes \ codeUsed'
                              /\ codes'[txn[v].obj] = txn[v].app
                        /\ txn[v].kind = "refresh" =>
                              /\ txn[v].obj \in rows' \ (consumed' \cup revoked')
                              /\ tok'[txn[v].obj].app = txn[v].app
                        /\ lock'[txn[v].obj] = v
                        /\ \A u \in Workers \ {v} : txn'[u].new # txn[v].new
      BY <1>1, CommitFacts, IdleFacts DEF IssuerOwnsItsGrant
    <2>1. /\ txn[v].new # n /\ txn[v].new \in Tokens /\ access[txn[v].new] = "none"
          /\ lock[txn[v].obj] = v
      BY DEF IssuerOwnsItsGrant
    <2>2. txn[v].obj \in Lockable /\ lock'[txn[v].obj] = v /\ txn[v].obj # p
      BY <1>1, <1>2, <2>1, CommitFacts DEF IssuerOwnsItsGrant, TypeOK
    <2>3. access'[txn[v].new] = "none"
      BY <1>1, <2>1, CommitFacts
    <2>4. \A u \in Workers \ {v} : txn'[u].new # txn[v].new
      BY <1>1, <2>1, CommitFacts, IdleFacts, ConstantsAssumption DEF IssuerOwnsItsGrant
    <2>5. QED
      BY <1>1, <1>4, <2>1, <2>2, <2>3, <2>4 DEF IssuerOwnsItsGrant
  <1>7. UpdateCoversFamily'
    <2>1. UpdateCovers(w)'
      BY <1>1, CommitFacts, IdleFacts DEF UpdateCovers
    <2>2. ASSUME NEW v \in Workers \ {w}, txn[v].pc \in {"family", "update"}
          PROVE  UpdateCovers(v)'
      <3>1. /\ txn'[v] = txn[v] /\ txn[v].obj \in rows /\ UpdateCovers(v)
            /\ tok'[txn[v].obj] = tok[txn[v].obj]
        BY <1>1, <1>4, <2>2, CommitFacts DEF UpdateCoversFamily, UpdateCovers
      <3>2. UpdateTargets(v) \subseteq UpdateTargets(v)'
        BY <1>4, <3>1 DEF UpdateTargets, FamilyRows
      <3>3. CASE tok[txn[v].obj].family # f
        <4>1. UpdateTargets(v)' = UpdateTargets(v)
          BY <1>3, <1>4, <3>1, <3>3 DEF UpdateTargets, FamilyRows
        <4>2. overlapped \subseteq overlapped'
          BY <1>1
        <4>3. txn[v].marked \subseteq Lockable
          BY DEF TypeOK, Transaction
        <4>4. QED
          BY <1>1, <1>4, <3>1, <4>1, <4>2, <4>3, CommitFacts DEF UpdateCovers
      <3>4. CASE tok[txn[v].obj].family = f
        <4>1. txn[v].pc = "update" => f \in overlapped'
          BY <1>1, <3>4 DEF UpdateRunning
        <4>2. txn[v].marked \subseteq Lockable
          BY DEF TypeOK, Transaction
        <4>3. QED
          BY <1>1, <1>4, <3>1, <3>2, <3>4, <4>1, <4>2, CommitFacts DEF UpdateCovers
      <3>5. QED
        BY <3>3, <3>4
    <2>3. ASSUME NEW v \in Workers \ {w}, txn[v].pc \notin {"family", "update"}
          PROVE  UpdateCovers(v)'
      BY <1>1, <2>3, CommitFacts DEF UpdateCovers
    <2>4. QED
      BY <2>1, <2>2, <2>3 DEF UpdateCoversFamily
  <1>8. Tables'
    <2>1. RowsStemFromCodes'
      BY <1>1, <1>2, <1>3, <1>4, <1>5 DEF RowsStemFromCodes
    <2>2. OneHeirPerCode'
      BY <1>1, <1>2, <1>3, <1>4, <1>5 DEF OneHeirPerCode
    <2>3. GrantsConserved'
      <3>1. {t \in rows' : tok'[t].parent = None} = {t \in rows : tok[t].parent = None}
        BY <1>2, <1>3, <1>4, ConstantsAssumption
      <3>2. {tok'[t].parent : t \in rows'} = {tok[t].parent : t \in rows} \cup {p}
        BY <1>3, <1>4
      <3>3. p # None
        BY <1>2, <1>4, ConstantsAssumption
      <3>4. {tok'[t].code : t \in {u \in rows' : tok'[u].parent = None}}
              = {tok[t].code : t \in {u \in rows : tok[u].parent = None}}
        BY <1>4, <3>1
      <3>5. consumed' = {tok'[t].parent : t \in rows'} \ {None}
        BY <1>1, <3>2, <3>3 DEF GrantsConserved
      <3>6. QED
        BY <1>1, <3>4, <3>5 DEF GrantsConserved
    <2>4. FamilyConfined'
      BY <1>1, <1>2, <1>3, <1>4, ConstantsAssumption DEF FamilyConfined
    <2>5. RevocationComplete'
      <3> SUFFICES ASSUME NEW t \in rows'
                   PROVE  \/ tok'[t].family \in overlapped'
                          \/ {u \in rows' : tok'[u].family = tok'[t].family} \cap revoked = {}
                          \/ t \in revoked
        BY <1>1 DEF RevocationComplete, FamilyRows
      <3>1. n \notin revoked /\ overlapped \subseteq overlapped'
        BY <1>1, <1>4 DEF RowsStemFromCodes
      <3>2. {u \in rows' : tok'[u].family = tok'[t].family} \cap revoked
              = FamilyRows(tok'[t].family) \cap revoked
        BY <1>4, <3>1 DEF FamilyRows
      <3>3. CASE t = n
        BY <1>2, <1>3, <3>1, <3>2, <3>3 DEF RevocationComplete
      <3>4. CASE t \in rows
        BY <1>4, <3>1, <3>2, <3>4 DEF RevocationComplete
      <3>5. QED
        BY <1>4, <3>3, <3>4
    <2>6. QED
      BY <2>1, <2>2, <2>3, <2>4, <2>5 DEF Tables
  <1>9. QED
    BY <1>6, <1>7, <1>8

\* Committing a family revocation.
LEMMA RevocationCommitStep ==
    ASSUME IInv, NEW w \in Workers, FamilyUpdateCommit(w)
    PROVE  IssuerOwnsItsGrant' /\ UpdateCoversFamily' /\ Tables'
  <1> USE DEF IInv
  <1> DEFINE M == txn[w].marked
             f == tok[txn[w].obj].family
  <1>1. /\ txn[w].pc = "update" /\ txn[w].todo = {} /\ Ended(w)
        /\ revoked' = revoked \cup M
        /\ UNCHANGED <<codes, codeUsed, rows, tok, consumed, access, overlapped>>
    BY DEF FamilyUpdateCommit
  <1>2. /\ txn[w].obj \in rows /\ M \subseteq FamilyRows(f)
        /\ \A t \in M : lock[t] = w
        /\ f \in overlapped \/ FamilyRows(f) = M
    BY <1>1 DEF UpdateCoversFamily, UpdateCovers, UpdateTargets
  <1>3. M \subseteq rows
    BY <1>2 DEF FamilyRows
  <1>4. IssuerOwnsItsGrant'
    <2>1. \A v \in Workers \ {w} : txn[v].pc = "commit" => txn[v].obj \notin M
      BY <1>2 DEF IssuerOwnsItsGrant
    <2>2. \A v \in Workers \ {w} : txn[v].pc = "commit" => lock'[txn[v].obj] = v
      BY <1>1, EndedFacts DEF IssuerOwnsItsGrant, TypeOK
    <2>3. QED
      BY <1>1, <2>1, <2>2, EndedFacts, IdleFacts, ConstantsAssumption DEF IssuerOwnsItsGrant
  <1>5. UpdateCoversFamily'
    BY <1>1, EndedFacts, IdleFacts, UpdateFrame DEF UpdateCoversFamily, UpdateCovers
  <1>6. Tables'
    <2>1. RowsStemFromCodes'
      BY <1>1, <1>3 DEF RowsStemFromCodes
    <2>2. OneHeirPerCode' /\ GrantsConserved' /\ FamilyConfined'
      BY <1>1 DEF OneHeirPerCode, GrantsConserved, FamilyConfined
    <2>3. RevocationComplete'
      <3> SUFFICES ASSUME NEW t \in rows, tok[t].family \notin overlapped,
                          FamilyRows(tok[t].family) \cap (revoked \cup M) # {}
                   PROVE  t \in revoked \cup M
        BY <1>1 DEF RevocationComplete, FamilyRows
      <3>1. CASE tok[t].family = f
        BY <1>2, <3>1 DEF FamilyRows
      <3>2. CASE tok[t].family # f
        BY <1>2, <3>2 DEF FamilyRows, RevocationComplete
      <3>3. QED
        BY <3>1, <3>2
    <2>4. QED
      BY <2>1, <2>2, <2>3 DEF Tables
  <1>7. QED
    BY <1>4, <1>5, <1>6

\* Codes, clocks and access tokens.
LEMMA EnvironmentStep ==
    ASSUME IInv, Environment
    PROVE  IssuerOwnsItsGrant' /\ UpdateCoversFamily' /\ Tables'
  <1> USE DEF IInv
  <1>1. ASSUME NEW c \in Codes, NEW a \in Apps, StoreAuthorizationCode(c, a)
        PROVE  IssuerOwnsItsGrant' /\ UpdateCoversFamily' /\ Tables'
    <2>1. /\ UNCHANGED <<codeUsed, rows, tok, consumed, revoked, access, lock, txn,
                         overlapped>>
          /\ \A d \in Codes : codes[d] # None => codes'[d] = codes[d]
      BY <1>1 DEF StoreAuthorizationCode, TypeOK
    <2>2. IssuerOwnsItsGrant'
      BY <2>1, ConstantsAssumption DEF IssuerOwnsItsGrant
    <2>3. UpdateCoversFamily'
      BY <2>1, UpdateFrame DEF UpdateCoversFamily
    <2>4. RowsStemFromCodes' /\ OneHeirPerCode' /\ GrantsConserved' /\ RevocationComplete'
      BY <2>1 DEF RowsStemFromCodes, OneHeirPerCode, GrantsConserved,
                  RevocationComplete, FamilyRows
    <2>5. FamilyConfined'
      BY <2>1 DEF FamilyConfined, RowsStemFromCodes, TypeOK
    <2>6. QED
      BY <2>2, <2>3, <2>4, <2>5 DEF Tables
  <1>2. ASSUME \/ \E x \in Lockable : Expire(x)
               \/ ClientCredentialsGrant
               \/ \E t \in Tokens : RevokeAccessToken(t)
        PROVE  IssuerOwnsItsGrant' /\ UpdateCoversFamily' /\ Tables'
    <2>1. /\ UNCHANGED <<codes, codeUsed, rows, tok, consumed, revoked, lock, txn,
                         overlapped>>
          /\ \A t \in Tokens : access[t] # "none" => access'[t] # "none"
          /\ \A w \in Workers : txn[w].new \in Tokens =>
                (access[txn[w].new] = "none" => access'[txn[w].new] = "none")
      BY <1>2 DEF Expire, ClientCredentialsGrant, RevokeAccessToken, Minted, TypeOK
    <2>2. IssuerOwnsItsGrant'
      BY <2>1 DEF IssuerOwnsItsGrant
    <2>3. UpdateCoversFamily'
      BY <2>1, UpdateFrame DEF UpdateCoversFamily
    <2>4. Tables'
      BY <2>1, TablesFrame DEF Tables, TypeOK
    <2>5. QED
      BY <2>2, <2>3, <2>4
  <1>3. QED
    BY <1>1, <1>2 DEF Environment

\* The invariant holds initially.
LEMMA InitIInv == Init => IInv
  <1> SUFFICES ASSUME Init PROVE IInv
    OBVIOUS
  <1>1. TypeOK
    BY DEF Init, TypeOK, NoColumns, TokenColumns, NoTransaction, Transaction
  <1>2. \A w \in Workers : txn[w].pc = "idle"
    BY DEF Init, NoTransaction
  <1>3. IssuerOwnsItsGrant /\ UpdateCoversFamily
    BY <1>2 DEF IssuerOwnsItsGrant, UpdateCoversFamily, UpdateCovers
  <1>4. RowsStemFromCodes /\ OneHeirPerCode /\ GrantsConserved
        /\ FamilyConfined /\ RevocationComplete
    BY DEF Init, RowsStemFromCodes, OneHeirPerCode, GrantsConserved,
           FamilyConfined, RevocationComplete
  <1>5. QED
    BY <1>1, <1>3, <1>4 DEF IInv

\* Every step preserves the invariant.
LEMMA NextIInv == IInv /\ [Next]_vars => IInv'
  <1> SUFFICES ASSUME IInv, [Next]_vars PROVE IInv'
    OBVIOUS
  <1>1. TypeOK'
    BY TypeStep DEF IInv
  <1>2. IssuerOwnsItsGrant' /\ UpdateCoversFamily' /\ Tables'
    <2>1. CASE UNCHANGED vars
      BY <2>1, TablesFrame, UpdateFrame
         DEF vars, IInv, Tables, IssuerOwnsItsGrant, UpdateCoversFamily
    <2>2. CASE Environment
      BY <2>2, EnvironmentStep
    <2>3. ASSUME NEW w \in Workers, NEW c \in Codes, NEW a \in Apps,
                 CodeGrantLock(w, c, a)
          PROVE  IssuerOwnsItsGrant' /\ UpdateCoversFamily' /\ Tables'
      BY <2>3, IssueStep DEF CodeGrantLock, CodeRedeemable
    <2>4. ASSUME NEW w \in Workers, NEW t \in Tokens, NEW a \in Apps,
                 RefreshGrantLock(w, t, a)
          PROVE  IssuerOwnsItsGrant' /\ UpdateCoversFamily' /\ Tables'
      BY <2>4, IssueStep DEF RefreshGrantLock, OwnedBy, Reuse
    <2>5. ASSUME NEW w \in Workers, CodeGrantCommit(w)
          PROVE  IssuerOwnsItsGrant' /\ UpdateCoversFamily' /\ Tables'
      BY <2>5, CodeCommitStep
    <2>6. ASSUME NEW w \in Workers, RefreshGrantCommit(w)
          PROVE  IssuerOwnsItsGrant' /\ UpdateCoversFamily' /\ Tables'
      BY <2>6, RefreshCommitStep
    <2>7. ASSUME NEW w \in Workers, FamilyUpdateCommit(w)
          PROVE  IssuerOwnsItsGrant' /\ UpdateCoversFamily' /\ Tables'
      BY <2>7, RevocationCommitStep
    <2>8. ASSUME NEW w \in Workers,
                 \/ \E t \in Tokens, a \in Apps : RefreshReuse(w, t, a) \/ RevokeToken(w, t, a)
                 \/ FamilyUpdateStart(w)
                 \/ \E t \in Tokens : FamilyUpdateRow(w, t)
                 \/ Abort(w) \/ DeadlockAbort(w)
          PROVE  IssuerOwnsItsGrant' /\ UpdateCoversFamily' /\ Tables'
      BY <2>8, QuietStep DEF DeadlockAbort
    <2>9. QED
      BY <2>1, <2>2, <2>3, <2>4, <2>5, <2>6, <2>7, <2>8 DEF Next, Step, Request
  <1>3. QED
    BY <1>1, <1>2 DEF IInv, Tables

\* The token endpoint's transactions keep the inductive invariant.
THEOREM InductiveInvariant == Spec => []IInv
  BY InitIInv, NextIInv, PTL DEF Spec

\* Type correctness of the token endpoint.
THEOREM TypeCorrect == Spec => []TypeOK
  <1>1. IInv => TypeOK
    BY DEF IInv
  <1>2. QED
    BY <1>1, InductiveInvariant, PTL

\* For any number of concurrent exchanges and refreshes, at most one unconsumed
\* refresh token descends from an authorization code.
THEOREM SingleHeir == Spec => []OneHeirPerCode
  <1>1. IInv => OneHeirPerCode
    BY DEF IInv
  <1>2. QED
    BY <1>1, InductiveInvariant, PTL

\* No failure loses or duplicates a grant.
THEOREM Conservation == Spec => []GrantsConserved
  <1>1. IInv => GrantsConserved
    BY DEF IInv
  <1>2. QED
    BY <1>1, InductiveInvariant, PTL

\* A family never leaves the client its code was issued to.
THEOREM Confinement == Spec => []FamilyConfined
  <1>1. IInv => FamilyConfined
    BY DEF IInv
  <1>2. QED
    BY <1>1, InductiveInvariant, PTL

\* A committed revocation covers the family unless a refresh overlapped it.
THEOREM RevocationCovers == Spec => []RevocationComplete
  <1>1. IInv => RevocationComplete
    BY DEF IInv
  <1>2. QED
    BY <1>1, InductiveInvariant, PTL

\* A revoked refresh token is never refreshed, whatever was in progress.
THEOREM NoRefreshAfterRevocation == Spec => RevokedNeverRefreshed
  <1>1. IInv /\ [Next]_vars =>
          [\A t \in revoked : t \in consumed' => t \in consumed]_vars
    <2> SUFFICES ASSUME IInv, Next
                 PROVE  \A t \in revoked : t \in consumed' => t \in consumed
      OBVIOUS
    <2>1. ASSUME NEW w \in Workers, RefreshGrantCommit(w)
          PROVE  \A t \in revoked : t \in consumed' => t \in consumed
      BY <2>1 DEF RefreshGrantCommit, IInv, IssuerOwnsItsGrant
    <2>2. (\A w \in Workers : ~RefreshGrantCommit(w)) => consumed' = consumed
      BY ZenonT(40) DEF Next, Step, Request, Environment, CodeGrantCommit, FamilyUpdateStart,
             FamilyUpdateRow, FamilyUpdateCommit, CodeGrantLock, RefreshGrantLock,
             RefreshReuse, RevokeToken, Abort, DeadlockAbort, StoreAuthorizationCode,
             Expire, ClientCredentialsGrant, RevokeAccessToken
    <2>3. QED
      BY <2>1, <2>2
  <1>2. QED
    BY <1>1, InductiveInvariant, PTL DEF Spec, RevokedNeverRefreshed

(***************************************************************************)
(* Refinement of the lineage specification                                 *)
(***************************************************************************)

\* Only three steps write the committed rows the mapping looks at.
LEMMA MappedStep ==
    ASSUME [Next]_vars
    PROVE  \/ UNCHANGED <<codeUsed, rows, tok, consumed, revoked>>
           \/ \E w \in Workers : \/ CodeGrantCommit(w)
                                 \/ RefreshGrantCommit(w)
                                 \/ FamilyUpdateCommit(w)
  <1> DEFINE Same == UNCHANGED <<codeUsed, rows, tok, consumed, revoked>>
  <1>1. CASE UNCHANGED vars
    BY <1>1 DEF vars
  <1>2. CASE Environment
    BY <1>2 DEF Environment, StoreAuthorizationCode, Expire,
                ClientCredentialsGrant, RevokeAccessToken
  <1>3. ASSUME NEW w \in Workers, Request(w)
        PROVE  Same
    BY <1>3 DEF Request, CodeGrantLock, RefreshGrantLock, RefreshReuse, RevokeToken
  <1>4. ASSUME NEW w \in Workers,
               \/ FamilyUpdateStart(w)
               \/ \E t \in Tokens : FamilyUpdateRow(w, t)
               \/ Abort(w) \/ DeadlockAbort(w)
        PROVE  Same
    BY <1>4 DEF FamilyUpdateStart, FamilyUpdateRow, Abort, DeadlockAbort
  <1>5. QED
    BY <1>1, <1>2, <1>3, <1>4 DEF Next, Step

\* Redeeming code c adds its root token n and nothing else.
LEMMA RedeemFacts ==
    ASSUME IInv, NEW w \in Workers, CodeGrantCommit(w)
    PROVE  /\ txn[w].obj \in Codes \ codeUsed
           /\ codeUsed' = codeUsed \cup {txn[w].obj}
           /\ txn[w].new \in Tokens \ rows
           /\ rows' = rows \cup {txn[w].new}
           /\ tok'[txn[w].new].code = txn[w].obj
           /\ \A t \in rows : tok'[t] = tok[t]
           /\ consumed' = consumed /\ revoked' = revoked
           /\ txn[w].new \notin consumed
  <1>1. txn[w].pc = "commit" /\ txn[w].kind = "code" /\ TokensCommitted(w)
    BY DEF CodeGrantCommit
  <1>2. tok'[txn[w].new] = NewColumns(w) /\ NewColumns(w).code = txn[w].obj
    BY <1>1, CommitFacts DEF NewColumns
  <1>3. rows \subseteq Tokens /\ consumed \subseteq rows
    BY DEF IInv, TypeOK, RowsStemFromCodes
  <1>4. QED
    BY <1>1, <1>2, <1>3, CommitFacts DEF CodeGrantCommit, IInv, IssuerOwnsItsGrant

\* Refreshing token p consumes it and adds n in its place.
LEMMA RotateFacts ==
    ASSUME IInv, NEW w \in Workers, RefreshGrantCommit(w)
    PROVE  /\ txn[w].obj \in rows \ (consumed \cup revoked)
           /\ consumed' = consumed \cup {txn[w].obj}
           /\ txn[w].new \in Tokens \ rows
           /\ rows' = rows \cup {txn[w].new}
           /\ tok'[txn[w].new].code = tok[txn[w].obj].code
           /\ \A t \in rows : tok'[t] = tok[t]
           /\ codeUsed' = codeUsed /\ revoked' = revoked
           /\ txn[w].new \notin consumed
  <1>1. txn[w].pc = "commit" /\ txn[w].kind = "refresh" /\ TokensCommitted(w)
    BY DEF RefreshGrantCommit
  <1>2. tok'[txn[w].new] = NewColumns(w)
        /\ NewColumns(w).code = tok[txn[w].obj].code
    BY <1>1, CommitFacts DEF NewColumns
  <1>3. rows \subseteq Tokens /\ consumed \subseteq rows
    BY DEF IInv, TypeOK, RowsStemFromCodes
  <1>4. QED
    BY <1>1, <1>2, <1>3, CommitFacts DEF RefreshGrantCommit, IInv, IssuerOwnsItsGrant

\* Every redeemed code keeps an heir.
THEOREM HeirAlwaysExists == Spec => []HeirExists
  <1>1. Init => HeirExists
    BY DEF Init, HeirExists
  <1>2. IInv /\ HeirExists /\ [Next]_vars => HeirExists'
    <2> SUFFICES ASSUME IInv, HeirExists, [Next]_vars PROVE HeirExists'
      OBVIOUS
    <2>1. CASE UNCHANGED <<codeUsed, rows, tok, consumed, revoked>>
      BY <2>1 DEF HeirExists
    <2>2. ASSUME NEW w \in Workers, CodeGrantCommit(w)
          PROVE  HeirExists'
      BY <2>2, RedeemFacts DEF HeirExists
    <2>3. ASSUME NEW w \in Workers, RefreshGrantCommit(w)
          PROVE  HeirExists'
      BY <2>3, RotateFacts DEF HeirExists
    <2>4. ASSUME NEW w \in Workers, FamilyUpdateCommit(w)
          PROVE  HeirExists'
      BY <2>4 DEF HeirExists, FamilyUpdateCommit
    <2>5. QED
      BY <2>1, <2>2, <2>3, <2>4, MappedStep
  <1>3. QED
    BY <1>1, <1>2, InductiveInvariant, PTL DEF Spec

\* The heir of a redeemed code is its one unconsumed token.
HeirFacts ==
    /\ \A c \in Codes, t \in rows \ consumed : tok[t].code = c => HeirOf(c) = t
    /\ \A c \in Codes \ codeUsed : HeirOf(c) = None

\* In a reachable state the heir of a code is well defined: the one unconsumed
\* token that stems from it, or None before the code is redeemed.
LEMMA HeirUnique == IInv => HeirFacts
  <1> SUFFICES ASSUME IInv PROVE HeirFacts
    OBVIOUS
  <1>1. ASSUME NEW c \in Codes, NEW t \in rows \ consumed, tok[t].code = c
        PROVE  HeirOf(c) = t
    <2> DEFINE P(u) == tok[u].code = c
    <2>1. c \in codeUsed
      BY <1>1 DEF IInv, RowsStemFromCodes
    <2>2. \A u \in rows \ consumed : P(u) => u = t
      BY <1>1 DEF IInv, OneHeirPerCode
    <2>3. (CHOOSE u \in rows \ consumed : P(u)) = t
      BY <1>1, <2>2
    <2>4. QED
      BY <2>1, <2>3 DEF HeirOf
  <1>2. \A c \in Codes \ codeUsed : HeirOf(c) = None
    BY DEF HeirOf
  <1>3. QED
    BY <1>1, <1>2 DEF HeirFacts

\* The transactions of the token endpoint implement single hand-overs.
THEOREM Refinement == Spec => ImplementsLineage
  <1> DEFINE heir == [c \in Codes |-> HeirOf(c)]
  <1>1. Init => Lineage!Init
    BY DEF Init, Lineage!Init, HeirOf
  <1>2. IInv /\ HeirExists /\ HeirFacts /\ HeirFacts' /\ [Next]_vars
          => [Lineage!Next]_(Lineage!vars)
    <2> SUFFICES ASSUME IInv, HeirExists, HeirFacts, HeirFacts', [Next]_vars
                 PROVE  Lineage!Next \/ UNCHANGED Lineage!vars
      OBVIOUS
    <2>1. CASE UNCHANGED <<codeUsed, rows, tok, consumed, revoked>>
      BY <2>1 DEF Lineage!vars, HeirOf
    <2>2. ASSUME NEW w \in Workers, CodeGrantCommit(w)
          PROVE  Lineage!Next
      <3> DEFINE c == txn[w].obj
                 n == txn[w].new
      <3>1. ASSUME NEW d \in Codes
            PROVE  HeirOf(d)' = IF d = c THEN n ELSE HeirOf(d)
        <4>1. CASE d = c
          BY <2>2, <4>1, RedeemFacts DEF HeirFacts
        <4>2. CASE d # c /\ d \in codeUsed
          <5>1. PICK t \in rows \ consumed : tok[t].code = d
            BY <4>2 DEF HeirExists
          <5>2. HeirOf(d) = t
            BY <5>1 DEF HeirFacts
          <5>3. HeirOf(d)' = t
            BY <2>2, <5>1, RedeemFacts DEF HeirFacts
          <5>4. QED
            BY <4>2, <5>2, <5>3
        <4>3. CASE d # c /\ d \notin codeUsed
          BY <2>2, <4>3, RedeemFacts DEF HeirFacts
        <4>4. QED
          BY <4>1, <4>2, <4>3
      <3>2. heir' = [heir EXCEPT ![c] = n]
        BY <3>1
      <3>3. Lineage!Redeem(c, n)
        BY <2>2, <3>2, RedeemFacts DEF Lineage!Redeem, Lineage!Hand
      <3>4. QED
        BY <2>2, <3>3, RedeemFacts DEF Lineage!Next
    <2>3. ASSUME NEW w \in Workers, RefreshGrantCommit(w)
          PROVE  Lineage!Next
      <3> DEFINE p == txn[w].obj
                 c == tok[p].code
                 n == txn[w].new
      <3>1. c \in codeUsed /\ c \in Codes
        BY <2>3, RotateFacts DEF IInv, RowsStemFromCodes, TypeOK
      <3>2. ASSUME NEW d \in Codes
            PROVE  HeirOf(d)' = IF d = c THEN n ELSE HeirOf(d)
        <4>1. CASE d = c
          BY <2>3, <4>1, RotateFacts DEF HeirFacts
        <4>2. CASE d # c /\ d \in codeUsed
          <5>1. PICK t \in rows \ consumed : tok[t].code = d
            BY <4>2 DEF HeirExists
          <5>2. HeirOf(d) = t
            BY <5>1 DEF HeirFacts
          <5>3. HeirOf(d)' = t
            BY <2>3, <4>2, <5>1, RotateFacts DEF HeirFacts
          <5>4. QED
            BY <4>2, <5>2, <5>3
        <4>3. CASE d # c /\ d \notin codeUsed
          BY <2>3, <4>3, RotateFacts DEF HeirFacts
        <4>4. QED
          BY <4>1, <4>2, <4>3
      <3>3. heir' = [heir EXCEPT ![c] = n]
        BY <3>2
      <3>4. heir[c] = p
        BY <2>3, <3>1, RotateFacts DEF HeirFacts
      <3>5. Lineage!Rotate(c, n)
        BY <2>3, <3>1, <3>3, <3>4, RotateFacts DEF Lineage!Rotate, Lineage!Hand
      <3>6. QED
        BY <2>3, <3>1, <3>5, RotateFacts DEF Lineage!Next
    <2>4. ASSUME NEW w \in Workers, FamilyUpdateCommit(w)
          PROVE  Lineage!Next
      <3>1. /\ revoked' = revoked \cup txn[w].marked
            /\ UNCHANGED <<codeUsed, rows, tok, consumed>>
        BY <2>4 DEF FamilyUpdateCommit
      <3>2. txn[w].marked \subseteq rows
        BY <2>4 DEF FamilyUpdateCommit, IInv, UpdateCoversFamily, UpdateCovers,
                    UpdateTargets, FamilyRows
      <3>3. heir' = heir
        BY <3>1 DEF HeirOf
      <3>4. Lineage!Cancel(txn[w].marked)
        BY <3>1, <3>3 DEF Lineage!Cancel
      <3>5. QED
        BY <3>2, <3>4 DEF Lineage!Next
    <2>5. QED
      BY <2>1, <2>2, <2>3, <2>4, MappedStep
  <1>3. QED
    BY <1>1, <1>2, InductiveInvariant, HeirAlwaysExists, HeirUnique, PTL
       DEF Spec, ImplementsLineage, Lineage!Spec

(***************************************************************************)
(* The bounded pool of connections                                         *)
(***************************************************************************)

\* A pooled request takes the steps of the request it serves, and the steps
\* that only take or give back a connection leave the tables alone.
LEMMA PoolStepIsStep ==
    ASSUME PoolNext
    PROVE  Next \/ UNCHANGED vars
  <1>1. ASSUME NEW w \in Workers, NEW x \in Lockable, Begin(w, x)
        PROVE  UNCHANGED vars
    BY <1>1 DEF Begin
  <1>2. ASSUME NEW w \in Workers, NEW t \in Tokens, NEW a \in Apps, Revoke(w, t, a)
        PROVE  Next
    BY <1>2 DEF Revoke, Next, Request
  <1>3. ASSUME NEW w \in Workers, GrantLocked(w)
        PROVE  Next
    BY <1>3 DEF GrantLocked, Next, Request
  <1>4. ASSUME NEW w \in Workers, GrantCommit(w)
        PROVE  Next
    BY <1>4 DEF GrantCommit, Next, Step
  <1>5. ASSUME NEW w \in Workers, UpdateStart(w)
        PROVE  Next
    BY <1>5 DEF UpdateStart, Next, Step
  <1>6. ASSUME NEW w \in Workers, NEW t \in Tokens, UpdateRow(w, t)
        PROVE  Next
    BY <1>6 DEF UpdateRow, Next, Step
  <1>7. ASSUME NEW w \in Workers, UpdateCommit(w)
        PROVE  Next
    BY <1>7 DEF UpdateCommit, Next, Step
  <1>8. ASSUME NEW w \in Workers, DeadlockVictim(w)
        PROVE  Next
    BY <1>8 DEF DeadlockVictim, Next
  <1>9. ASSUME NEW w \in Workers, HangUp(w)
        PROVE  Next \/ UNCHANGED vars
    BY <1>9 DEF HangUp, Next
  <1>10. ASSUME NEW w \in Workers,
                GrantRefused(w) \/ TakeSecond(w) \/ ReturnSecond(w)
                \/ ClientCredentialsBegin(w) \/ ClientCredentialsCommit(w)
         PROVE  UNCHANGED vars
    BY <1>10 DEF GrantRefused, TakeSecond, ReturnSecond, ClientCredentialsBegin,
                 ClientCredentialsCommit
  <1>11. ASSUME NEW c \in Codes, NEW a \in Apps, StoreAuthorizationCode(c, a)
         PROVE  Next
    BY <1>11 DEF Next, Environment
  <1>12. QED
    BY <1>1, <1>2, <1>3, <1>4, <1>5, <1>6, <1>7, <1>8, <1>9, <1>10, <1>11
       DEF PoolNext, PoolStep

\* Requests on a bounded pool behave as the token endpoint without one, so that
\* what is proved of the endpoint holds however small the pool is.
THEOREM PoolImplementsGrants == PoolSpec => Spec
  <1>1. PoolInit => Init
    BY DEF PoolInit
  <1>2. [PoolNext]_poolVars => [Next]_vars
    BY PoolStepIsStep DEF poolVars
  <1>3. QED
    BY <1>1, <1>2, PTL DEF PoolSpec, Spec

Counted(w, T) == IF w \in T THEN 1 ELSE 0

\* Taking w out of a set of requests, or putting it in, changes the number of
\* requests in it by one.
LEMMA CountOfOthers ==
    ASSUME NEW w \in Workers, NEW T \in SUBSET Workers
    PROVE  /\ Cardinality(T) \in Nat /\ Cardinality(T \ {w}) \in Nat
           /\ Cardinality(T) = Cardinality(T \ {w}) + Counted(w, T)
  <1>1. IsFiniteSet(T)
    BY FS_Subset, PoolAssumption
  <1>2. Cardinality(T) \in Nat
    BY <1>1, FS_CardinalityType
  <1>3. IsFiniteSet(T \ {w}) /\ Cardinality(T \ {w}) \in Nat
    BY <1>1, FS_Subset, FS_CardinalityType
  <1>4. CASE w \in T
    BY <1>1, <1>2, <1>3, <1>4, FS_RemoveElement DEF Counted
  <1>5. CASE w \notin T
    <2>1. T \ {w} = T
      BY <1>5
    <2>2. Cardinality(T \ {w}) = Cardinality(T) /\ Counted(w, T) = 0
      BY <1>5, <2>1, Zenon DEF Counted
    <2>3. QED
      BY <1>2, <2>2
  <1>6. QED
    BY <1>2, <1>3, <1>4, <1>5

\* The connections a request holds in each of its uses.
Held(u) == IF u = "none" THEN 0 ELSE IF u = "nested" THEN 2 ELSE 1

\* When one request changes its use, the pool gains what it gives back.
LEMMA UseChanged ==
    ASSUME conn \in [Workers -> Connection], NEW w \in Workers,
           NEW r \in Connection, conn' = [conn EXCEPT ![w] = r]
    PROVE  /\ InUse \in Nat /\ InUse' \in Nat
           /\ InUse' + Held(conn[w].use) = InUse + Held(r.use)
  <1> DEFINE T == {v \in Workers : conn[v].use # "none"}
             N == {v \in Workers : conn[v].use = "nested"}
             TT == {v \in Workers : conn'[v].use # "none"}
             NN == {v \in Workers : conn'[v].use = "nested"}
  <1>1. InUse = Cardinality(T) + Cardinality(N)
    BY DEF InUse
  <1>2. InUse' = Cardinality(TT) + Cardinality(NN)
    BY DEF InUse
  <1>3. TT \ {w} = T \ {w} /\ NN \ {w} = N \ {w}
    OBVIOUS
  <1>4. /\ Counted(w, T) + Counted(w, N) = Held(conn[w].use)
        /\ Counted(w, TT) + Counted(w, NN) = Held(r.use)
    BY DEF Counted, Held
  <1>5. /\ Counted(w, T) \in Nat /\ Counted(w, N) \in Nat
        /\ Counted(w, TT) \in Nat /\ Counted(w, NN) \in Nat
    BY DEF Counted
  <1>6. /\ T \in SUBSET Workers /\ N \in SUBSET Workers
        /\ TT \in SUBSET Workers /\ NN \in SUBSET Workers
    OBVIOUS
  <1> HIDE DEF T, N, TT, NN
  <1>7. /\ Cardinality(T) \in Nat /\ Cardinality(T \ {w}) \in Nat
        /\ Cardinality(T) = Cardinality(T \ {w}) + Counted(w, T)
    BY <1>6, CountOfOthers
  <1>8. /\ Cardinality(N) \in Nat /\ Cardinality(N \ {w}) \in Nat
        /\ Cardinality(N) = Cardinality(N \ {w}) + Counted(w, N)
    BY <1>6, CountOfOthers
  <1>9. /\ Cardinality(TT) \in Nat
        /\ Cardinality(TT) = Cardinality(TT \ {w}) + Counted(w, TT)
    BY <1>6, CountOfOthers
  <1>10. /\ Cardinality(NN) \in Nat
         /\ Cardinality(NN) = Cardinality(NN \ {w}) + Counted(w, NN)
    BY <1>6, CountOfOthers
  <1>11. Held(conn[w].use) \in Nat /\ Held(r.use) \in Nat
    BY DEF Held
  <1>12. /\ Cardinality(TT \ {w}) = Cardinality(T \ {w})
         /\ Cardinality(NN \ {w}) = Cardinality(N \ {w})
    BY <1>3, Zenon
  <1>13. InUse \in Nat /\ InUse' \in Nat
    BY <1>1, <1>2, <1>7, <1>8, <1>9, <1>10
  <1>14. InUse' + Held(conn[w].use) = InUse + Held(r.use)
    BY <1>1, <1>2, <1>4, <1>5, <1>7, <1>8, <1>9, <1>10, <1>11, <1>12
  <1>15. QED
    BY <1>13, <1>14

\* A step of one request keeps the pool when it takes no more than there is and
\* uses it as its transaction allows.
LEMMA RequestUses ==
    ASSUME PoolConserved, TypeOK', poolSize' = poolSize, NEW w \in Workers,
           NEW r \in Connection, conn' = [conn EXCEPT ![w] = r],
           \A v \in Workers \ {w} : txn'[v] = txn[v],
           \/ Held(r.use) <= Held(conn[w].use)
           \/ /\ Held(r.use) = Held(conn[w].use) + 1
              /\ Available(1),
           ConnectionUsed(w)'
    PROVE  PoolConserved'
  <1>1. conn' \in [Workers -> Connection]
    BY DEF PoolConserved
  <1>2. poolSize \in Nat
    BY PoolAssumption DEF PoolConserved
  <1>3. InUse' <= poolSize'
    <2>1. /\ InUse \in Nat /\ InUse' \in Nat
          /\ InUse' + Held(conn[w].use) = InUse + Held(r.use)
      BY UseChanged DEF PoolConserved
    <2>2. Held(conn[w].use) \in Nat /\ Held(r.use) \in Nat
      BY DEF Held
    <2>3. QED
      BY <1>2, <2>1, <2>2 DEF PoolConserved, Available
  <1>4. ASSUME NEW v \in Workers
        PROVE  ConnectionUsed(v)'
    BY <1>4 DEF PoolConserved, ConnectionUsed
  <1>5. QED
    BY <1>1, <1>3, <1>4 DEF PoolConserved

\* The record Use stores is a connection in that use.
LEMMA UseType ==
    ASSUME NEW u \in {"none", "begun", "waiting", "nested", "single"}
    PROVE  /\ [NoConnection EXCEPT !.use = u] \in Connection
           /\ [NoConnection EXCEPT !.use = u].use = u
  BY DEF NoConnection, Connection

\* A change of one transaction keeps those of the other requests.
LEMMA OthersKept ==
    ASSUME TypeOK, NEW w \in Workers,
           \/ UNCHANGED txn
           \/ \E s : txn' = [txn EXCEPT ![w] = s]
    PROVE  \A v \in Workers \ {w} : txn'[v] = txn[v]
  BY DEF TypeOK

\* RequestUses for a request whose next use is u.
LEMMA UseStep ==
    ASSUME PoolConserved, TypeOK', poolSize' = poolSize, NEW w \in Workers,
           NEW u \in {"none", "begun", "waiting", "nested", "single"}, Use(w, u),
           \/ UNCHANGED txn
           \/ \E s : txn' = [txn EXCEPT ![w] = s],
           \/ Held(u) <= Held(conn[w].use)
           \/ /\ Held(u) = Held(conn[w].use) + 1
              /\ Available(1),
           u = "none" => \/ txn'[w].pc = "idle"
                         \/ txn'[w].pc = "family" /\ txn'[w].kind = "revoke",
           u = "begun" => txn'[w].pc = "idle",
           u \in {"waiting", "nested"} => txn'[w].pc \in {"idle", "commit"}
    PROVE  PoolConserved'
  <1> DEFINE r == [NoConnection EXCEPT !.use = u]
  <1>1. r \in Connection /\ r.use = u
    BY UseType
  <1>2. conn' = [conn EXCEPT ![w] = r]
    BY DEF Use
  <1> HIDE DEF r
  <1>3. conn'[w].use = u
    BY <1>1, <1>2 DEF PoolConserved
  <1>4. ConnectionUsed(w)'
    BY <1>3 DEF ConnectionUsed
  <1>5. \A v \in Workers \ {w} : txn'[v] = txn[v]
    BY OthersKept DEF PoolConserved
  <1>6. QED
    BY <1>1, <1>2, <1>4, <1>5, RequestUses

\* A grant that begins takes the one connection it found available.
LEMMA BeginKeeps ==
    ASSUME PoolConserved, TypeOK', NEW w \in Workers, NEW x \in Lockable, Begin(w, x)
    PROVE  PoolConserved'
  <1> DEFINE r == [use |-> "begun", row |-> x]
  <1>1. r \in Connection /\ r.use = "begun"
    BY DEF Connection
  <1>2. /\ conn' = [conn EXCEPT ![w] = r]
        /\ UNCHANGED <<poolSize, txn>>
        /\ conn[w].use = "none" /\ txn[w].pc = "idle" /\ Available(1)
    BY DEF Begin, vars
  <1> HIDE DEF r
  <1>3. ConnectionUsed(w)'
    BY <1>1, <1>2 DEF ConnectionUsed, PoolConserved
  <1>4. Held(r.use) = Held(conn[w].use) + 1
    BY <1>1, <1>2 DEF Held
  <1>5. QED
    BY <1>1, <1>2, <1>3, <1>4, RequestUses

\* A granted row lock changes what the connection is used for, not their number.
LEMMA GrantLockedKeeps ==
    ASSUME PoolConserved, TypeOK', NEW w \in Workers, GrantLocked(w)
    PROVE  PoolConserved'
  <1>1. conn[w].use = "begun" /\ poolSize' = poolSize
    BY DEF GrantLocked
  <1>2. PICK a \in Apps :
          \/ /\ \/ conn[w].row \in Codes /\ CodeGrantLock(w, conn[w].row, a)
                \/ conn[w].row \in Tokens /\ RefreshGrantLock(w, conn[w].row, a)
             /\ Use(w, "waiting")
          \/ /\ conn[w].row \in Tokens
             /\ RefreshReuse(w, conn[w].row, a)
             /\ Use(w, "single")
    BY DEF GrantLocked
  <1>3. /\ Held("waiting") <= Held(conn[w].use)
        /\ Held("single") <= Held(conn[w].use)
    BY <1>1 DEF Held
  <1>4. CASE /\ \/ conn[w].row \in Codes /\ CodeGrantLock(w, conn[w].row, a)
                \/ conn[w].row \in Tokens /\ RefreshGrantLock(w, conn[w].row, a)
             /\ Use(w, "waiting")
    <2>1. PICK k \in {"code", "refresh"} : IssueUserTokens(w, k, conn[w].row, a)
      BY <1>4 DEF CodeGrantLock, RefreshGrantLock
    <2>2. PICK t \in Tokens : txn' = [txn EXCEPT ![w] =
            [NoTransaction EXCEPT !.pc = "commit", !.kind = k,
                                  !.obj = conn[w].row, !.app = a, !.new = t]]
      BY <2>1 DEF IssueUserTokens
    <2>3. txn'[w].pc = "commit"
      BY <2>2 DEF PoolConserved, TypeOK, NoTransaction
    <2>4. \E s : txn' = [txn EXCEPT ![w] = s]
      BY <2>2, Zenon
    <2>5. Use(w, "waiting")
      BY <1>4
    <2>6. QED
      BY <1>1, <1>3, <2>3, <2>4, <2>5, UseStep
  <1>5. CASE RefreshReuse(w, conn[w].row, a) /\ Use(w, "single")
    <2>1. \E s : txn' = [txn EXCEPT ![w] = s]
      BY <1>5 DEF RefreshReuse
    <2>2. Use(w, "single")
      BY <1>5
    <2>3. QED
      BY <1>1, <1>3, <2>1, <2>2, UseStep
  <1>6. QED
    BY <1>2, <1>4, <1>5

\* Steps that only take or give back a connection.
LEMMA ConnectionOnlyKeeps ==
    ASSUME PoolConserved, TypeOK', NEW w \in Workers,
           GrantRefused(w) \/ TakeSecond(w) \/ ReturnSecond(w)
           \/ ClientCredentialsBegin(w) \/ ClientCredentialsCommit(w)
    PROVE  PoolConserved'
  <1>1. /\ Held("none") = 0 /\ Held("begun") = 1 /\ Held("waiting") = 1
        /\ Held("nested") = 2 /\ Held("single") = 1
    BY DEF Held
  <1>2. CASE GrantRefused(w)
    <2>1. /\ conn[w].use = "begun" /\ Use(w, "none") /\ UNCHANGED <<poolSize, txn>>
          /\ txn'[w].pc = "idle"
      BY <1>2 DEF GrantRefused, PoolConserved, ConnectionUsed, vars
    <2>2. QED
      BY <1>1, <2>1, UseStep
  <1>3. CASE TakeSecond(w)
    <2>1. /\ conn[w].use = "waiting" /\ Use(w, "nested") /\ UNCHANGED <<poolSize, txn>>
          /\ txn'[w].pc \in {"idle", "commit"} /\ Available(1)
      BY <1>3 DEF TakeSecond, PoolConserved, ConnectionUsed, vars
    <2>2. QED
      BY <1>1, <2>1, UseStep
  <1>4. CASE ReturnSecond(w)
    <2>1. conn[w].use = "nested" /\ Use(w, "single") /\ UNCHANGED <<poolSize, txn>>
      BY <1>4 DEF ReturnSecond, vars
    <2>2. QED
      BY <1>1, <2>1, UseStep
  <1>5. CASE ClientCredentialsBegin(w)
    <2>1. /\ conn[w].use = "none" /\ Use(w, "waiting") /\ UNCHANGED <<poolSize, txn>>
          /\ txn'[w].pc = "idle" /\ Available(1)
      BY <1>5 DEF ClientCredentialsBegin, vars
    <2>2. QED
      BY <1>1, <2>1, UseStep
  <1>6. CASE ClientCredentialsCommit(w)
    <2>1. /\ conn[w].use = "single" /\ Use(w, "none") /\ UNCHANGED <<poolSize, txn>>
          /\ txn'[w].pc = "idle"
      BY <1>6 DEF ClientCredentialsCommit, vars
    <2>2. QED
      BY <1>1, <2>1, UseStep
  <1>7. QED
    BY <1>2, <1>3, <1>4, <1>5, <1>6

\* The end of a request's transaction gives back all it holds.
LEMMA EndKeeps ==
    ASSUME PoolConserved, TypeOK', NEW w \in Workers, poolSize' = poolSize,
           Use(w, "none"), Ended(w) \/ (UNCHANGED txn /\ txn[w].pc = "idle")
    PROVE  PoolConserved'
  <1>1. conn[w].use \in {"none", "begun", "waiting", "nested", "single"}
    BY DEF PoolConserved, Connection
  <1>2. Held("none") <= Held(conn[w].use)
    BY <1>1 DEF Held
  <1>3. txn'[w].pc = "idle"
    BY DEF Ended, NoTransaction, PoolConserved, TypeOK
  <1>4. \/ UNCHANGED txn
        \/ \E s : txn' = [txn EXCEPT ![w] = s]
    BY DEF Ended
  <1>5. QED
    BY <1>2, <1>3, <1>4, UseStep

\* The UPDATE of a reuse runs on the connection its transaction has, that of the
\* revocation endpoint on one it takes.
LEMMA UpdateKeeps ==
    ASSUME PoolConserved, TypeOK', NEW w \in Workers, UpdateStart(w)
    PROVE  PoolConserved'
  <1>1. /\ txn[w].pc = "family" /\ Use(w, "single") /\ poolSize' = poolSize
        /\ txn[w].kind = "reuse" \/ (txn[w].kind = "revoke" /\ Available(1))
    BY DEF UpdateStart, FamilyUpdateStart
  <1>2. conn[w].use \in {"none", "single"}
    BY <1>1 DEF PoolConserved, Connection, ConnectionUsed
  <1>3. \/ Held("single") <= Held(conn[w].use)
        \/ Held("single") = Held(conn[w].use) + 1 /\ Available(1)
    BY <1>1, <1>2 DEF Held, PoolConserved, ConnectionUsed
  <1>4. \E s : txn' = [txn EXCEPT ![w] = s]
    BY DEF UpdateStart, FamilyUpdateStart
  <1>5. QED
    BY <1>1, <1>3, <1>4, UseStep

\* A step that leaves the connections alone and, of the transactions, changes
\* at most one: from idle to the read of a family, or within its update.
LEMMA NoUseKeeps ==
    ASSUME PoolConserved, TypeOK', UNCHANGED <<poolSize, conn>>,
           \A v \in Workers :
              \/ txn'[v] = txn[v]
              \/ /\ conn[v].use \in {"none", "single"}
                 /\ conn[v].use = "none" => /\ txn'[v].pc = "family"
                                            /\ txn'[v].kind = "revoke"
    PROVE  PoolConserved'
  <1>1. InUse' = InUse
    BY DEF InUse
  <1>2. ASSUME NEW v \in Workers
        PROVE  ConnectionUsed(v)'
    BY <1>2 DEF PoolConserved, ConnectionUsed
  <1>3. QED
    BY <1>1, <1>2 DEF PoolConserved

\* The read of a family gives its connection back at once.
LEMMA RevokeKeeps ==
    ASSUME PoolConserved, TypeOK', NEW w \in Workers, NEW t \in Tokens,
           NEW a \in Apps, Revoke(w, t, a)
    PROVE  PoolConserved'
  <1>1. /\ conn[w].use = "none" /\ UNCHANGED <<poolSize, conn>>
        /\ txn' = [txn EXCEPT ![w] =
                 [NoTransaction EXCEPT !.pc = "family", !.kind = "revoke",
                                       !.obj = t, !.app = a]]
    BY DEF Revoke, RevokeToken
  <1>2. txn'[w].pc = "family" /\ txn'[w].kind = "revoke"
    BY <1>1 DEF NoTransaction, PoolConserved, TypeOK
  <1>3. \A v \in Workers \ {w} : txn'[v] = txn[v]
    BY <1>1, OthersKept DEF PoolConserved
  <1>4. QED
    BY <1>1, <1>2, <1>3, NoUseKeeps

\* The update of one row goes on with the connection of its statement.
LEMMA UpdateRowKeeps ==
    ASSUME PoolConserved, TypeOK', NEW w \in Workers, NEW t \in Tokens, UpdateRow(w, t)
    PROVE  PoolConserved'
  <1>1. txn[w].pc = "update" /\ UNCHANGED <<poolSize, conn>>
    BY DEF UpdateRow, FamilyUpdateRow
  <1>2. conn[w].use = "single"
    BY <1>1 DEF PoolConserved, Connection, ConnectionUsed
  <1>3. \A v \in Workers \ {w} : txn'[v] = txn[v]
    <2>1. \E s : txn' = [txn EXCEPT ![w] = s]
      BY DEF UpdateRow, FamilyUpdateRow
    <2>2. QED
      BY <2>1, OthersKept DEF PoolConserved
  <1>4. QED
    BY <1>1, <1>2, <1>3, NoUseKeeps

\* PoolConserved is inductive, given that the tables stay well typed.
LEMMA PoolConservedStep ==
    ASSUME PoolConserved, TypeOK', [PoolNext]_poolVars
    PROVE  PoolConserved'
  <1>1. ASSUME NEW w \in Workers, HangUp(w) \/ DeadlockVictim(w)
                                  \/ GrantCommit(w) \/ UpdateCommit(w)
        PROVE  PoolConserved'
    <2>1. /\ Use(w, "none") /\ poolSize' = poolSize
          /\ Ended(w) \/ (UNCHANGED txn /\ txn[w].pc = "idle")
      BY <1>1 DEF HangUp, DeadlockVictim, GrantCommit, UpdateCommit, Abort,
                  DeadlockAbort, CodeGrantCommit, RefreshGrantCommit,
                  TokensCommitted, FamilyUpdateCommit, vars
    <2>2. QED
      BY <2>1, EndKeeps
  <1>2. ASSUME UNCHANGED <<poolSize, conn, txn>>
        PROVE  PoolConserved'
    BY <1>2, NoUseKeeps
  <1>3. ASSUME NEW c \in Codes, NEW a \in Apps, StoreAuthorizationCode(c, a),
               UNCHANGED <<poolSize, conn>>
        PROVE  PoolConserved'
    BY <1>2, <1>3 DEF StoreAuthorizationCode
  <1>4. CASE UNCHANGED poolVars
    BY <1>2, <1>4 DEF poolVars, vars
  <1>5. ASSUME NEW w \in Workers, PoolStep(w)
        PROVE  PoolConserved'
    BY <1>1, <1>5, GrantLockedKeeps, ConnectionOnlyKeeps, UpdateKeeps,
       UpdateRowKeeps DEF PoolStep
  <1>6. QED
    BY <1>1, <1>3, <1>4, <1>5, BeginKeeps, RevokeKeeps, ConnectionOnlyKeeps
       DEF PoolNext

\* An idle pool is conserved.
LEMMA PoolConservedInit ==
    ASSUME PoolInit, TypeOK
    PROVE  PoolConserved
  <1> DEFINE T == {w \in Workers : conn[w].use # "none"}
             N == {w \in Workers : conn[w].use = "nested"}
  <1>1. conn = [w \in Workers |-> NoConnection] /\ poolSize \in PoolSizes
    BY DEF PoolInit
  <1>2. T = {} /\ N = {}
    BY <1>1 DEF NoConnection
  <1>3. InUse = Cardinality(T) + Cardinality(N)
    BY DEF InUse
  <1> HIDE DEF T, N
  <1>4. InUse = 0
    BY <1>2, <1>3, FS_EmptySet
  <1>5. InUse <= poolSize
    BY <1>1, <1>4, PoolAssumption
  <1>6. conn \in [Workers -> Connection]
    BY <1>1 DEF NoConnection, Connection
  <1>7. \A w \in Workers : ConnectionUsed(w)
    BY <1>1 DEF ConnectionUsed, NoConnection, PoolInit, Init, NoTransaction
  <1>8. QED
    BY <1>1, <1>5, <1>6, <1>7 DEF PoolConserved

\* The pool never hands out more connections than it has, and every one of them
\* belongs to a transaction or statement in progress: refusals, failures and
\* hang-ups give back all a request holds.
THEOREM PoolConserves == PoolSpec => []PoolConserved
  <1>1. IInv => TypeOK
    BY DEF IInv
  <1>2. PoolInit /\ TypeOK => PoolConserved
    BY PoolConservedInit
  <1>3. PoolConserved /\ TypeOK' /\ [PoolNext]_poolVars => PoolConserved'
    BY PoolConservedStep
  <1>4. QED
    BY <1>1, <1>2, <1>3, InductiveInvariant, PoolImplementsGrants, PTL DEF PoolSpec

\* The inductive invariant of the token endpoint holds on a bounded pool.
THEOREM PoolKeepsGrants == PoolSpec => []IInv
  BY InductiveInvariant, PoolImplementsGrants, PTL
=============================================================================
