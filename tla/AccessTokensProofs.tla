------------------------- MODULE AccessTokensProofs -------------------------
(***************************************************************************)
(* Theorems about AccessTokens for any number of requests, tokens and      *)
(* clients and any limit: admissions stay within the limit, every answer   *)
(* rests on facts that held during its request, and a token is revoked by  *)
(* its own client only.  Fairness is not used.                             *)
(***************************************************************************)
EXTENDS AccessTokens, TLAPS

USE AccessConstants

\* A request in progress sees what holds after each step, and forgets nothing.
LEMMA Observed ==
    ASSUME AccessInv, Observe
    PROVE  /\ seen' \in [Workers -> SUBSET Facts]
           /\ \A w \in Workers : req'[w].pc # "idle" =>
                seen[w] \subseteq seen'[w] /\ FactsNow(w)' \subseteq seen'[w]
<1>1. \A w \in Workers : FactsNow(w)' \subseteq Facts
    BY DEF FactsNow
<1>2. seen \in [Workers -> SUBSET Facts]
    BY DEF AccessInv, TypeOK
<1>3. \A w \in Workers : seen'[w] = IF req'[w].pc = "idle" THEN {} ELSE seen[w] \cup FactsNow(w)'
    BY DEF Observe
<1>4. seen' \in [Workers -> SUBSET Facts]
    BY <1>1, <1>2 DEF Observe
<1> QED
    BY <1>3, <1>4

\* What a step of one request does to the requests.
LEMMA RequestChanged ==
    ASSUME TypeOK, NEW w \in Workers, NEW r \in RequestState,
           req' = [req EXCEPT ![w] = r]
    PROVE  /\ req' \in [Workers -> RequestState]
           /\ req'[w] = r
           /\ \A v \in Workers \ {w} : req'[v] = req[v]
BY DEF TypeOK

\* A refused request leaves no trace.
LEMMA RefuseState ==
    ASSUME TypeOK, NEW w \in Workers, Refuse(w)
    PROVE  /\ req' \in [Workers -> RequestState]
           /\ req'[w] = NoRequest
           /\ \A v \in Workers \ {w} : req'[v] = req[v]
<1>1. NoRequest \in RequestState
    BY DEF NoRequest, RequestState
<1> QED
    BY <1>1, RequestChanged DEF Refuse

\* A request that goes on keeps its kind, its client and its token.
LEMMA GoState ==
    ASSUME TypeOK, NEW w \in Workers,
           NEW pc \in {"client", "user", "row", "commit", "yes"}, Go(w, pc)
    PROVE  /\ req' \in [Workers -> RequestState]
           /\ req'[w].pc = pc
           /\ req'[w].kind = req[w].kind
           /\ req'[w].app = req[w].app
           /\ req'[w].tok = req[w].tok
           /\ \A v \in Workers \ {w} : req'[v] = req[v]
<1> DEFINE r == [req[w] EXCEPT !.pc = pc]
<1>1. req' = [req EXCEPT ![w] = r] /\ req[w] \in RequestState
    BY DEF Go, TypeOK
<1>2. r \in RequestState
    BY <1>1 DEF RequestState
<1>3. r.pc = pc /\ r.kind = req[w].kind /\ r.app = req[w].app /\ r.tok = req[w].tok
    BY <1>1 DEF RequestState
<1> HIDE DEF r
<1> QED
    BY <1>1, <1>2, <1>3, RequestChanged

\* Rows are never removed, and they keep the client they were issued to.
RowsKept ==
    /\ row' \in [Tokens -> TokenRow]
    /\ \A t \in Tokens : row'[t].state = "none" <=> row'[t].app = None
    /\ \A t \in Tokens : row[t].state # "none" =>
                            row'[t].state # "none" /\ row'[t].app = row[t].app

\* What is not part of a request stays well-formed.
SurroundingsOK ==
    /\ active' \in BOOLEAN
    /\ valid' \subseteq Apps
    /\ LimiterTypeOK'
    /\ AdmissionsCounted'
    /\ RowsKept

\* What a request has proven stays proven while others go on.
LEMMA OthersKept ==
    ASSUME AccessInv, Observe, RowsKept, NEW v \in Workers, req'[v] = req[v]
    PROVE  RequestFormed(v)' /\ RequestProven(v)'
<1>1. RequestFormed(v) /\ RequestProven(v)
    BY DEF AccessInv
<1>2. RequestFormed(v)'
    BY <1>1 DEF RequestFormed, RowsKept
<1>3. req[v].pc # "idle" => seen[v] \subseteq seen'[v]
    BY Observed
<1>4. req[v].kind = "introspect" /\ req[v].pc = "yes" /\ OwnToken(v) => OwnToken(v)'
    BY <1>1 DEF RequestFormed, RowsKept, OwnToken, ClientKinds
<1>5. RequestProven(v)'
    BY <1>1, <1>3, <1>4 DEF RequestProven
<1> QED
    BY <1>2, <1>5

\* A step of request w keeps the invariant if it keeps that of w.
LEMMA RequestStep ==
    ASSUME AccessInv, Observe, SurroundingsOK, NEW w \in Workers,
           req' \in [Workers -> RequestState],
           \A v \in Workers \ {w} : req'[v] = req[v],
           RequestFormed(w)', RequestProven(w)'
    PROVE  AccessInv'
<1>1. TypeOK'
    BY Observed DEF TypeOK, SurroundingsOK, RowsKept
<1>2. \A v \in Workers : RequestFormed(v)' /\ RequestProven(v)'
    BY OthersKept DEF SurroundingsOK
<1> QED
    BY <1>1, <1>2 DEF AccessInv, SurroundingsOK

\* A step that changes no row, counter or account keeps them well-formed.
LEMMA SurroundingsUnchanged ==
    ASSUME AccessInv, Unchanged
    PROVE  SurroundingsOK
BY DEF AccessInv, Unchanged, SurroundingsOK, TypeOK, LimiterTypeOK, AdmissionsCounted,
       limiterVars, RowsKept

\* A refused request has nothing to prove.
LEMMA RefuseStep ==
    ASSUME AccessInv, Observe, SurroundingsOK, NEW w \in Workers, Refuse(w)
    PROVE  AccessInv'
<1>1. /\ req' \in [Workers -> RequestState] /\ req'[w] = NoRequest
      /\ \A v \in Workers \ {w} : req'[v] = req[v]
    BY RefuseState DEF AccessInv
<1>2. RequestFormed(w)' /\ RequestProven(w)'
    BY <1>1 DEF RequestFormed, RequestProven, NoRequest, TokenKinds, ClientKinds
<1> QED
    BY <1>1, <1>2, RequestStep

-----------------------------------------------------------------------------
(* The limiter *)

\* INCR hands out the next number, so an admission stays within the limit.
LEMMA IncrCounted ==
    ASSUME AccessInv, NEW n \in 1..MaxCount, Incr(n)
    PROVE  LimiterTypeOK' /\ AdmissionsCounted'
<1>1. /\ count \in 0..MaxCount /\ admitted \in 0..MaxCount
      /\ expiring \in BOOLEAN /\ lost \in BOOLEAN
      /\ admitted <= count /\ admitted <= Limit
    BY DEF AccessInv, TypeOK, LimiterTypeOK, AdmissionsCounted
<1>2. /\ n = count + 1 /\ count' = n /\ n <= MaxCount
      /\ UNCHANGED <<expiring, lost>>
      /\ admitted' = IF n <= Limit /\ admitted < MaxCount THEN admitted + 1 ELSE admitted
    BY DEF Incr, Incremented
<1>3. Limit \in Nat /\ MaxCount \in Nat
    BY LimiterConstants
<1>4. admitted' \in 0..MaxCount /\ admitted' <= count' /\ admitted' <= Limit
    BY <1>1, <1>2, <1>3
<1> QED
    BY <1>1, <1>2, <1>4 DEF LimiterTypeOK, AdmissionsCounted

\* The token endpoint admits a request or refuses it.
LEMMA TokenEndpointStep ==
    ASSUME AccessInv, Observe, NEW w \in Workers, NEW kind \in TokenKinds, NEW a \in Apps,
           TokenEndpoint(w, kind, a)
    PROVE  AccessInv'
<1>1. PICK n \in 1..MaxCount :
         /\ Incr(n)
         /\ IF n <= Limit
            THEN req' = [req EXCEPT ![w] =
                           [kind |-> kind, app |-> a, tok |-> None,
                            pc |-> IF SetsExpiry(n) THEN "expire" ELSE "client"]]
            ELSE Refuse(w)
    BY DEF TokenEndpoint
<1>2. SurroundingsOK
    BY <1>1, IncrCounted DEF TokenEndpoint, SurroundingsOK, AccessInv, TypeOK, RowsKept
<1>3. CASE ~(n <= Limit)
    BY <1>1, <1>2, <1>3, RefuseStep
<1>4. CASE n <= Limit
  <2> DEFINE pc == IF SetsExpiry(n) THEN "expire" ELSE "client"
             r == [kind |-> kind, app |-> a, tok |-> None, pc |-> pc]
  <2>1. req' = [req EXCEPT ![w] = r] /\ pc \in {"expire", "client"}
    BY <1>1, <1>4
  <2> HIDE DEF pc
  <2>2. r \in RequestState /\ r.pc = pc /\ r.kind = kind /\ r.app = a
    BY <2>1 DEF RequestState
  <2> HIDE DEF r
  <2>3. /\ req' \in [Workers -> RequestState] /\ req'[w] = r
        /\ \A v \in Workers \ {w} : req'[v] = req[v]
    BY <2>1, <2>2, RequestChanged DEF AccessInv
  <2>4. RequestFormed(w)' /\ RequestProven(w)'
    BY <2>1, <2>2, <2>3 DEF RequestFormed, RequestProven, TokenKinds, ClientKinds
  <2> QED
    BY <1>2, <2>3, <2>4, RequestStep
<1> QED
    BY <1>3, <1>4

\* Whether EXPIRE arrives or not, the request goes on to its client.
LEMMA SetExpiryStep ==
    ASSUME AccessInv, Observe, NEW w \in Workers, SetExpiry(w)
    PROVE  AccessInv'
<1>1. /\ req[w].pc = "expire" /\ Go(w, "client")
      /\ Expire \/ ExpireLost
      /\ UNCHANGED <<active, valid, row>>
    BY DEF SetExpiry
<1>2. LimiterTypeOK' /\ AdmissionsCounted'
    BY <1>1 DEF Expire, ExpireLost, AccessInv, TypeOK, LimiterTypeOK, AdmissionsCounted
<1>3. SurroundingsOK
    BY <1>1, <1>2 DEF SurroundingsOK, AccessInv, TypeOK, RowsKept
<1>4. RequestFormed(w)
    BY DEF AccessInv
<1>5. /\ req' \in [Workers -> RequestState] /\ req'[w].pc = "client"
      /\ req'[w].kind = req[w].kind /\ req'[w].app = req[w].app
      /\ \A v \in Workers \ {w} : req'[v] = req[v]
    BY <1>1, GoState DEF AccessInv
<1>6. RequestFormed(w)' /\ RequestProven(w)'
    BY <1>1, <1>4, <1>5 DEF RequestFormed, RequestProven, TokenKinds, ClientKinds
<1> QED
    BY <1>3, <1>5, <1>6, RequestStep

\* A counter ends its life with the admissions it counted.
LEMMA WindowEndsStep ==
    ASSUME AccessInv, Observe, WindowEnds
    PROVE  AccessInv'
<1>1. /\ count' = 0 /\ admitted' = 0 /\ expiring' = FALSE /\ lost' = FALSE
      /\ UNCHANGED <<active, valid, row, req>>
    BY DEF WindowEnds, CounterExpires
<1>2. LimiterTypeOK' /\ AdmissionsCounted'
  <2>1. 0 \in 0..MaxCount /\ 0 <= 0 /\ 0 <= Limit
    BY LimiterConstants
  <2> QED
    BY <1>1, <2>1 DEF LimiterTypeOK, AdmissionsCounted
<1>3. RowsKept
    BY <1>1 DEF AccessInv, TypeOK, RowsKept
<1>4. TypeOK'
    BY <1>1, <1>2, <1>3, Observed DEF AccessInv, TypeOK, RowsKept
<1>5. \A v \in Workers : RequestFormed(v)' /\ RequestProven(v)'
    BY <1>1, <1>3, OthersKept
<1> QED
    BY <1>2, <1>4, <1>5 DEF AccessInv

-----------------------------------------------------------------------------
(* The token endpoint's transaction *)

\* Authentication reads the client: what follows has seen it valid.
LEMMA AuthenticateOAuthClientStep ==
    ASSUME AccessInv, Observe, NEW w \in Workers, AuthenticateOAuthClient(w)
    PROVE  AccessInv'
<1>1. req[w].pc = "client" /\ Unchanged
    BY DEF AuthenticateOAuthClient
<1>2. SurroundingsOK
    BY <1>1, SurroundingsUnchanged
<1>3. CASE req[w].app \notin valid
  <2>1. Refuse(w)
    BY <1>3 DEF AuthenticateOAuthClient
  <2> QED
    BY <1>2, <2>1, RefuseStep
<1>4. CASE req[w].app \in valid
  <2>1. Go(w, AfterClient(w)) /\ AfterClient(w) \in {"user", "commit", "row"}
    BY <1>4 DEF AuthenticateOAuthClient, AfterClient
  <2>2. RequestFormed(w)
    BY DEF AccessInv
  <2>3. /\ req' \in [Workers -> RequestState] /\ req'[w].pc = AfterClient(w)
        /\ req'[w].kind = req[w].kind /\ req'[w].app = req[w].app /\ req'[w].tok = req[w].tok
        /\ \A v \in Workers \ {w} : req'[v] = req[v]
    BY <2>1, GoState DEF AccessInv
  <2>4. "client" \in seen'[w]
    <3>1. req'[w].app \in valid'
      BY <1>1, <1>4, <2>3 DEF Unchanged
    <3>2. "client" \in FactsNow(w)'
      BY <3>1 DEF FactsNow, Facts
    <3> QED
      BY <2>1, <2>3, <3>2, Observed
  <2>5. RequestFormed(w)'
    BY <1>1, <2>2, <2>3 DEF RequestFormed, AfterClient, TokenKinds, ClientKinds, Unchanged
  <2>6. RequestProven(w)'
    BY <1>1, <2>2, <2>3, <2>4 DEF RequestFormed, RequestProven, AfterClient, TokenKinds, ClientKinds
  <2> QED
    BY <1>2, <2>3, <2>5, <2>6, RequestStep
<1> QED
    BY <1>3, <1>4

\* A grant goes on once it has read its user as active.
LEMMA SignIDTokenStep ==
    ASSUME AccessInv, Observe, NEW w \in Workers, SignIDToken(w)
    PROVE  AccessInv'
<1>1. req[w].pc = "user" /\ req[w].kind = "grant" /\ Unchanged
    BY DEF SignIDToken
<1>2. SurroundingsOK
    BY <1>1, SurroundingsUnchanged
<1>3. CASE ~active
  <2>1. Refuse(w)
    BY <1>3 DEF SignIDToken
  <2> QED
    BY <1>2, <2>1, RefuseStep
<1>4. CASE active
  <2>1. Go(w, "commit")
    BY <1>4 DEF SignIDToken
  <2>2. RequestFormed(w) /\ RequestProven(w)
    BY DEF AccessInv
  <2>3. /\ req' \in [Workers -> RequestState] /\ req'[w].pc = "commit"
        /\ req'[w].kind = req[w].kind /\ req'[w].app = req[w].app /\ req'[w].tok = req[w].tok
        /\ \A v \in Workers \ {w} : req'[v] = req[v]
    BY <2>1, GoState DEF AccessInv
  <2>4. "user" \in seen'[w]
    <3>1. active' /\ req'[w].kind = "grant"
      BY <1>1, <1>4, <2>3 DEF Unchanged
    <3>2. "user" \in FactsNow(w)'
      BY <3>1 DEF FactsNow, Facts
    <3> QED
      BY <2>3, <3>2, Observed
  <2>5. seen[w] \subseteq seen'[w]
    BY <2>3, Observed
  <2>6. RequestFormed(w)' /\ RequestProven(w)'
    BY <1>1, <2>2, <2>3, <2>4, <2>5 DEF RequestFormed, RequestProven, TokenKinds, ClientKinds
  <2> QED
    BY <1>2, <2>3, <2>6, RequestStep
<1> QED
    BY <1>3, <1>4

\* The token's row is new, and names the client of its request.
LEMMA CommitAccessTokenStep ==
    ASSUME AccessInv, Observe, NEW w \in Workers, CommitAccessToken(w)
    PROVE  AccessInv'
<1>1. PICK t \in Tokens :
         /\ row[t].state = "none"
         /\ row' = [row EXCEPT ![t] =
                      [state |-> "live", app |-> req[w].app,
                       owner |-> IF req[w].kind = "grant" THEN "user" ELSE "client"]]
    BY DEF CommitAccessToken
<1>2. req[w].pc = "commit" /\ Go(w, "yes") /\ UNCHANGED <<limiterVars, active, valid>>
    BY DEF CommitAccessToken, Answer
<1>3. RequestFormed(w) /\ RequestProven(w) /\ TypeOK
    BY DEF AccessInv
<1>4. RowsKept
  <2> DEFINE owner == IF req[w].kind = "grant" THEN "user" ELSE "client"
             new == [state |-> "live", app |-> req[w].app, owner |-> owner]
  <2>1. req[w].app \in Apps /\ req[w].app # None
    BY <1>2, <1>3 DEF RequestFormed, TokenKinds
  <2>2. row' = [row EXCEPT ![t] = new] /\ owner \in {"user", "client"}
    BY <1>1
  <2> HIDE DEF owner
  <2>3. new \in TokenRow /\ new.state = "live" /\ new.app = req[w].app
    BY <2>1, <2>2 DEF TokenRow
  <2> HIDE DEF new
  <2> QED
    BY <1>1, <1>3, <2>1, <2>2, <2>3 DEF RowsKept, TypeOK
<1>5. SurroundingsOK
    BY <1>2, <1>4 DEF AccessInv, SurroundingsOK, TypeOK, LimiterTypeOK, AdmissionsCounted, limiterVars
<1>6. /\ req' \in [Workers -> RequestState] /\ req'[w].pc = "yes"
      /\ req'[w].kind = req[w].kind /\ req'[w].app = req[w].app /\ req'[w].tok = req[w].tok
      /\ \A v \in Workers \ {w} : req'[v] = req[v]
    BY <1>2, <1>3, GoState
<1>7. seen[w] \subseteq seen'[w]
    BY <1>6, Observed
<1>8. RequestFormed(w)' /\ RequestProven(w)'
    BY <1>2, <1>3, <1>6, <1>7 DEF RequestFormed, RequestProven, TokenKinds, ClientKinds
<1> QED
    BY <1>5, <1>6, <1>8, RequestStep

-----------------------------------------------------------------------------
(* UserInfo, introspection and revocation *)

\* A request about a token that was issued.
LEMMA NewRequestStep ==
    ASSUME AccessInv, Observe, Unchanged, NEW w \in Workers, NEW r \in RequestState,
           req' = [req EXCEPT ![w] = r],
           r.tok \in Tokens, row[r.tok].state # "none",
           \/ r.kind = "userinfo" /\ r.pc = "row"
           \/ r.kind \in ClientKinds /\ r.pc = "client" /\ r.app \in Apps
    PROVE  AccessInv'
<1>1. /\ req' \in [Workers -> RequestState] /\ req'[w] = r
      /\ \A v \in Workers \ {w} : req'[v] = req[v]
    BY RequestChanged DEF AccessInv
<1>2. RequestFormed(w)' /\ RequestProven(w)'
    BY <1>1 DEF RequestFormed, RequestProven, TokenKinds, ClientKinds, Unchanged
<1> QED
    BY <1>1, <1>2, SurroundingsUnchanged, RequestStep

\* UserInfo takes a bearer token.
LEMMA UserInfoStep ==
    ASSUME AccessInv, Observe, NEW w \in Workers, NEW t \in Tokens, UserInfo(w, t)
    PROVE  AccessInv'
<1> DEFINE r == [NoRequest EXCEPT !.kind = "userinfo", !.pc = "row", !.tok = t]
<1>1. req' = [req EXCEPT ![w] = r] /\ row[t].state # "none" /\ Unchanged
    BY DEF UserInfo
<1>2. r \in RequestState /\ r.kind = "userinfo" /\ r.pc = "row" /\ r.tok = t
    BY DEF NoRequest, RequestState
<1> HIDE DEF r
<1> QED
    BY <1>1, <1>2, NewRequestStep

\* Introspection and revocation take a token and a client.
LEMMA ClientRequestStep ==
    ASSUME AccessInv, Observe, NEW w \in Workers, NEW t \in Tokens,
           NEW kind \in ClientKinds, NEW a \in Apps, ClientRequest(w, kind, a, t)
    PROVE  AccessInv'
<1> DEFINE r == [NoRequest EXCEPT !.kind = kind, !.pc = "client", !.app = a, !.tok = t]
<1>1. req' = [req EXCEPT ![w] = r] /\ row[t].state # "none" /\ Unchanged
    BY DEF ClientRequest
<1>2. r \in RequestState /\ r.kind = kind /\ r.pc = "client" /\ r.tok = t /\ r.app = a
    BY DEF NoRequest, RequestState
<1> HIDE DEF r
<1> QED
    BY <1>1, <1>2, NewRequestStep

\* The token was live when UserInfo read it.
LEMMA UserInfoReadsTokenStep ==
    ASSUME AccessInv, Observe, NEW w \in Workers, UserInfoReadsToken(w)
    PROVE  AccessInv'
<1>1. req[w].pc = "row" /\ req[w].kind = "userinfo" /\ Unchanged
    BY DEF UserInfoReadsToken
<1>2. SurroundingsOK
    BY <1>1, SurroundingsUnchanged
<1>3. CASE Refuse(w)
    BY <1>2, <1>3, RefuseStep
<1>4. CASE Live(req[w].tok) /\ Go(w, "user")
  <2>1. RequestFormed(w)
    BY DEF AccessInv
  <2>2. /\ req' \in [Workers -> RequestState] /\ req'[w].pc = "user"
        /\ req'[w].kind = req[w].kind /\ req'[w].app = req[w].app /\ req'[w].tok = req[w].tok
        /\ \A v \in Workers \ {w} : req'[v] = req[v]
    BY <1>4, GoState DEF AccessInv
  <2>3. "token" \in seen'[w]
    <3>1. Live(req[w].tok)' /\ req'[w].tok = req[w].tok
      BY <1>1, <1>4, <2>2 DEF Unchanged, Live
    <3>2. "token" \in FactsNow(w)'
      BY <3>1 DEF FactsNow, Facts, Live
    <3> QED
      BY <2>2, <3>2, Observed
  <2>4. RequestFormed(w)' /\ RequestProven(w)'
    BY <1>1, <2>1, <2>2, <2>3 DEF RequestFormed, RequestProven, TokenKinds, ClientKinds, Unchanged
  <2> QED
    BY <1>2, <2>2, <2>4, RequestStep
<1> QED
    BY <1>3, <1>4 DEF UserInfoReadsToken

\* The user is active when UserInfo reads it, later than the token.
LEMMA UserInfoReadsUserStep ==
    ASSUME AccessInv, Observe, NEW w \in Workers, UserInfoReadsUser(w)
    PROVE  AccessInv'
<1>1. req[w].pc = "user" /\ req[w].kind = "userinfo" /\ Unchanged
    BY DEF UserInfoReadsUser
<1>2. SurroundingsOK
    BY <1>1, SurroundingsUnchanged
<1>3. CASE Refuse(w)
    BY <1>2, <1>3, RefuseStep
<1>4. CASE active /\ Go(w, "yes")
  <2>1. RequestFormed(w) /\ RequestProven(w)
    BY DEF AccessInv
  <2>2. /\ req' \in [Workers -> RequestState] /\ req'[w].pc = "yes"
        /\ req'[w].kind = req[w].kind /\ req'[w].app = req[w].app /\ req'[w].tok = req[w].tok
        /\ \A v \in Workers \ {w} : req'[v] = req[v]
    BY <1>4, GoState DEF AccessInv
  <2>3. "user" \in seen'[w] /\ seen[w] \subseteq seen'[w]
    <3>1. active' /\ req'[w].kind = "userinfo"
      BY <1>1, <1>4, <2>2 DEF Unchanged
    <3>2. "user" \in FactsNow(w)'
      BY <3>1 DEF FactsNow, Facts
    <3> QED
      BY <2>2, <3>2, Observed
  <2>4. RequestFormed(w)' /\ RequestProven(w)'
    BY <1>1, <2>1, <2>2, <2>3 DEF RequestFormed, RequestProven, TokenKinds, ClientKinds, Unchanged
  <2> QED
    BY <1>2, <2>2, <2>4, RequestStep
<1> QED
    BY <1>3, <1>4 DEF UserInfoReadsUser, Answer

\* A token is reported as active to its own client, while it is live.
LEMMA IntrospectTokenStep ==
    ASSUME AccessInv, Observe, NEW w \in Workers, IntrospectToken(w)
    PROVE  AccessInv'
<1>1. req[w].pc = "row" /\ req[w].kind = "introspect" /\ Unchanged
    BY DEF IntrospectToken
<1>2. SurroundingsOK
    BY <1>1, SurroundingsUnchanged
<1>3. CASE Refuse(w)
    BY <1>2, <1>3, RefuseStep
<1>4. CASE OwnToken(w) /\ Live(req[w].tok) /\ Go(w, "yes")
  <2>1. RequestFormed(w) /\ RequestProven(w)
    BY DEF AccessInv
  <2>2. /\ req' \in [Workers -> RequestState] /\ req'[w].pc = "yes"
        /\ req'[w].kind = req[w].kind /\ req'[w].app = req[w].app /\ req'[w].tok = req[w].tok
        /\ \A v \in Workers \ {w} : req'[v] = req[v]
    BY <1>4, GoState DEF AccessInv
  <2>3. "token" \in seen'[w] /\ seen[w] \subseteq seen'[w]
    <3>1. Live(req[w].tok)' /\ req'[w].tok = req[w].tok
      BY <1>1, <1>4, <2>2 DEF Unchanged, Live
    <3>2. "token" \in FactsNow(w)'
      BY <3>1 DEF FactsNow, Facts, Live
    <3> QED
      BY <2>2, <3>2, Observed
  <2>4. OwnToken(w)'
    BY <1>1, <1>4, <2>2 DEF OwnToken, Unchanged
  <2>5. RequestFormed(w)' /\ RequestProven(w)'
    BY <1>1, <2>1, <2>2, <2>3, <2>4 DEF RequestFormed, RequestProven, TokenKinds, ClientKinds, Unchanged
  <2> QED
    BY <1>2, <2>2, <2>5, RequestStep
<1> QED
    BY <1>3, <1>4 DEF IntrospectToken, Introspectable, Answer

\* Dead rows stay rows of their client.
LEMMA TokenDies ==
    ASSUME AccessInv, NEW t \in Tokens, row[t].state # "none",
           row' = [row EXCEPT ![t].state = "dead"]
    PROVE  RowsKept
<1> DEFINE dead == [row[t] EXCEPT !.state = "dead"]
<1>1. row' = [row EXCEPT ![t] = dead] /\ row[t] \in TokenRow /\ row \in [Tokens -> TokenRow]
    BY DEF AccessInv, TypeOK
<1>2. dead \in TokenRow /\ dead.state = "dead" /\ dead.app = row[t].app
    BY <1>1 DEF TokenRow
<1> HIDE DEF dead
<1>3. /\ row' \in [Tokens -> TokenRow] /\ row'[t] = dead
      /\ \A q \in Tokens \ {t} : row'[q] = row[q]
    BY <1>1, <1>2
<1> QED
    BY <1>2, <1>3 DEF RowsKept, AccessInv, TypeOK

\* A revocation kills a token or finds none to kill.
LEMMA RevokeTokenStep ==
    ASSUME AccessInv, Observe, NEW w \in Workers, RevokeToken(w)
    PROVE  AccessInv'
<1>1. /\ req[w].pc = "row" /\ req[w].kind = "revoke"
      /\ UNCHANGED <<limiterVars, active, valid>>
      /\ (row' = row \/ row' = [row EXCEPT ![req[w].tok].state = "dead"])
    BY DEF RevokeToken
<1>2. RequestFormed(w) /\ RequestProven(w)
    BY DEF AccessInv
<1>3. req[w].tok \in Tokens /\ row[req[w].tok].state # "none"
    BY <1>1, <1>2 DEF RequestFormed, ClientKinds
<1>4. RowsKept
  <2>1. CASE row' = row
    BY <2>1 DEF RowsKept, AccessInv, TypeOK
  <2>2. CASE row' = [row EXCEPT ![req[w].tok].state = "dead"]
    BY <1>3, <2>2, TokenDies
  <2> QED
    BY <1>1, <2>1, <2>2
<1>5. SurroundingsOK
    BY <1>1, <1>4 DEF AccessInv, SurroundingsOK, TypeOK, LimiterTypeOK, AdmissionsCounted, limiterVars
<1>6. CASE Refuse(w)
    BY <1>5, <1>6, RefuseStep
<1>7. CASE Go(w, "yes")
  <2>1. /\ req' \in [Workers -> RequestState] /\ req'[w].pc = "yes"
        /\ req'[w].kind = req[w].kind /\ req'[w].app = req[w].app /\ req'[w].tok = req[w].tok
        /\ \A v \in Workers \ {w} : req'[v] = req[v]
    BY <1>7, GoState DEF AccessInv
  <2>2. seen[w] \subseteq seen'[w]
    BY <2>1, Observed
  <2>3. RequestFormed(w)'
    BY <1>1, <1>2, <1>3, <1>4, <2>1 DEF RequestFormed, RowsKept, TokenKinds, ClientKinds
  <2>4. RequestProven(w)'
    BY <1>1, <1>2, <2>1, <2>2 DEF RequestProven, TokenKinds, ClientKinds
  <2> QED
    BY <1>5, <2>1, <2>3, <2>4, RequestStep
<1> QED
    BY <1>6, <1>7 DEF RevokeToken, Answer

-----------------------------------------------------------------------------
(* What goes on around them *)

\* A response or a failure ends the request.
LEMMA FinishStep ==
    ASSUME AccessInv, Observe, NEW w \in Workers, Finish(w)
    PROVE  AccessInv'
<1>1. /\ Refuse(w) /\ UNCHANGED <<active, valid, row>>
      /\ ExpireLost \/ UNCHANGED limiterVars
    BY DEF Finish, Refuse
<1>2. LimiterTypeOK' /\ AdmissionsCounted'
    BY <1>1 DEF ExpireLost, limiterVars, AccessInv, TypeOK, LimiterTypeOK, AdmissionsCounted
<1>3. SurroundingsOK
    BY <1>1, <1>2 DEF SurroundingsOK, AccessInv, TypeOK, RowsKept
<1> QED
    BY <1>1, <1>3, RefuseStep

\* Administration and the expiry of a token leave every request where it is.
LEMMA SurroundingsStep ==
    ASSUME AccessInv, Observe, SurroundingsOK, UNCHANGED req
    PROVE  AccessInv'
<1>1. TypeOK'
    BY Observed DEF AccessInv, TypeOK, SurroundingsOK, RowsKept
<1>2. \A v \in Workers : RequestFormed(v)' /\ RequestProven(v)'
    BY OthersKept DEF SurroundingsOK
<1> QED
    BY <1>1, <1>2 DEF AccessInv, SurroundingsOK

\* A token's lifetime ends.
LEMMA ExpireTokenStep ==
    ASSUME AccessInv, Observe, NEW t \in Tokens, ExpireToken(t)
    PROVE  AccessInv'
<1>1. RowsKept
    BY TokenDies DEF ExpireToken, Live
<1>2. SurroundingsOK
    BY <1>1 DEF ExpireToken, AccessInv, SurroundingsOK, TypeOK, LimiterTypeOK, AdmissionsCounted,
                limiterVars
<1> QED
    BY <1>2, SurroundingsStep DEF ExpireToken

\* Users and clients change between any two statements of a request.
LEMMA AdministrationStep ==
    ASSUME AccessInv, Observe, Administration
    PROVE  AccessInv'
<1>1. /\ UNCHANGED <<limiterVars, row, req>>
      /\ active' \in BOOLEAN /\ valid' \subseteq Apps
    BY DEF Administration, UpdateUser, UpdateApplication, RotateClientSecret, AccessInv, TypeOK
<1>2. RowsKept
    BY <1>1 DEF RowsKept, AccessInv, TypeOK
<1>3. SurroundingsOK
    BY <1>1, <1>2 DEF AccessInv, SurroundingsOK, TypeOK, LimiterTypeOK, AdmissionsCounted, limiterVars
<1> QED
    BY <1>1, <1>3, SurroundingsStep

-----------------------------------------------------------------------------
(* The theorems *)

\* In the beginning there is no counter, no token and no request.
LEMMA AccessInit == Init => AccessInv
<1> SUFFICES ASSUME Init PROVE AccessInv
    OBVIOUS
<1>1. LimiterTypeOK /\ AdmissionsCounted
  <2>1. 0 \in 0..MaxCount /\ 0 <= 0 /\ 0 <= Limit
    BY LimiterConstants
  <2> QED
    BY <2>1 DEF Init, LimiterInit, LimiterTypeOK, AdmissionsCounted
<1>2. NoRow \in TokenRow /\ NoRow.state = "none" /\ NoRow.app = None
    BY DEF NoRow, TokenRow
<1>3. /\ NoRequest \in RequestState
      /\ NoRequest.pc = "idle" /\ NoRequest.kind = "none"
    BY DEF NoRequest, RequestState
<1>4. TypeOK
    BY <1>1, <1>2, <1>3 DEF Init, TypeOK
<1>5. ASSUME NEW w \in Workers PROVE RequestFormed(w) /\ RequestProven(w)
  <2>1. req[w] = NoRequest
    BY DEF Init
  <2> QED
    BY <1>3, <2>1 DEF RequestFormed, RequestProven, TokenKinds, ClientKinds
<1> QED
    BY <1>1, <1>4, <1>5 DEF AccessInv

\* Every step keeps the invariant.
LEMMA AccessStep == AccessInv /\ [Next]_accessVars => AccessInv'
<1> SUFFICES ASSUME AccessInv, [Next]_accessVars PROVE AccessInv'
    OBVIOUS
<1>1. ASSUME NEW w \in Workers, Grant(w), Observe PROVE AccessInv'
    BY <1>1, TokenEndpointStep, SetExpiryStep, SignIDTokenStep, CommitAccessTokenStep DEF Grant
<1>2. ASSUME NEW w \in Workers, Use(w), Observe PROVE AccessInv'
    BY <1>2, UserInfoStep, ClientRequestStep, UserInfoReadsTokenStep, UserInfoReadsUserStep,
       IntrospectTokenStep, RevokeTokenStep DEF Use
<1>3. CASE UNCHANGED accessVars
    BY <1>3 DEF accessVars, limiterVars, AccessInv, TypeOK, LimiterTypeOK, AdmissionsCounted,
                RequestFormed, RequestProven, OwnToken
<1> QED
    BY <1>1, <1>2, <1>3, AuthenticateOAuthClientStep, FinishStep, ExpireTokenStep,
       AdministrationStep, WindowEndsStep DEF Next

\* Requests for, with and about tokens keep AccessInv, however they interleave
\* with each other and with administration.
THEOREM AccessInvariant == Spec => []AccessInv
<1> QED
    BY AccessInit, AccessStep, PTL DEF Spec

\* The limiter admits at most Limit requests per counter, for any limit.
THEOREM AtMostLimit == Spec => []AdmissionsBounded
<1>1. AccessInv => AdmissionsBounded
    BY DEF AccessInv, AdmissionsCounted, AdmissionsBounded
<1> QED
    BY <1>1, AccessInvariant, PTL

\* Tokens are issued to a client, and for a user, that were valid at some
\* moment of their request.
THEOREM GrantsJustified == Spec => []TokensJustified
<1>1. AccessInv => TokensJustified
    BY DEF AccessInv, RequestProven, TokensJustified, Answered, TokenKinds
<1> QED
    BY <1>1, AccessInvariant, PTL

\* Claims and introspection results rest on what held during their request.
THEOREM UsesJustified == Spec => []AnswersJustified
<1>1. AccessInv => AnswersJustified
    BY DEF AccessInv, RequestProven, AnswersJustified, Answered, ClientKinds
<1> QED
    BY <1>1, AccessInvariant, PTL

\* A token that a request kills was revoked by its own client.
THEOREM RevokedByOwner == Spec => RevocationConfined
<1>1. ASSUME AccessInv, [Next]_accessVars
      PROVE  [DeathsConfined]_accessVars
  <2> SUFFICES ASSUME NEW t \in Tokens, Live(t), ~Live(t)', req' # req
               PROVE  RevokedByOwnClient(t)
    BY DEF DeathsConfined
  <2>1. row' # row
    BY DEF Live
  <2>2. ASSUME NEW w \in Workers, CommitAccessToken(w) PROVE FALSE
    <3>1. PICK q \in Tokens : row[q].state = "none" /\ \E r : row' = [row EXCEPT ![q] = r]
      BY <2>2 DEF CommitAccessToken
    <3>2. row'[t] = row[t]
      BY <1>1, <3>1 DEF Live, AccessInv, TypeOK
    <3> QED
      BY <3>2 DEF Live
  <2>3. PICK w \in Workers : RevokeToken(w)
    BY <1>1, <2>1, <2>2 DEF Next, accessVars, Grant, Use, TokenEndpoint, SetExpiry, SignIDToken,
       UserInfo, ClientRequest, UserInfoReadsToken, UserInfoReadsUser, IntrospectToken,
       AuthenticateOAuthClient, Finish, ExpireToken, Administration, UpdateUser,
       UpdateApplication, RotateClientSecret, WindowEnds, Unchanged
  <2>4. /\ req[w].pc = "row" /\ req[w].kind = "revoke" /\ OwnToken(w)
        /\ row' = [row EXCEPT ![req[w].tok].state = "dead"]
    BY <2>1, <2>3 DEF RevokeToken
  <2>5. req[w].tok = t
    BY <1>1, <2>4 DEF Live, AccessInv, TypeOK
  <2>6. "client" \in seen[w]
    BY <1>1, <2>4 DEF AccessInv, RequestProven, ClientKinds
  <2> QED
    BY <2>4, <2>5, <2>6 DEF OwnToken, RevokedByOwnClient
<1> QED
    BY <1>1, AccessInvariant, PTL DEF Spec, RevocationConfined
=============================================================================
