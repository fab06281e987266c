---------------------------- MODULE AccessTokens ----------------------------
(***************************************************************************)
(* Access tokens between the endpoints that issue, use and revoke them     *)
(* (backend/internal/httpapi/oauth.go) while administrators deactivate     *)
(* users, disable clients and rotate client secrets.                       *)
(*                                                                         *)
(* Each handler makes several reads, every one a statement that sees what  *)
(* is committed at that moment, and answers from what it read before.      *)
(* What TokenGrants says about codes and refresh families is left out: a   *)
(* grant here is any code or refresh exchange that its row allows, or a    *)
(* client_credentials grant.  JWT signatures stand for themselves; the     *)
(* expiry in the JWT is the one in the row.  There is one user.            *)
(***************************************************************************)
EXTENDS RateLimiter

CONSTANTS Workers,   \* requests in progress at the same time
          Tokens,    \* access tokens (JTIs)
          Apps,      \* confidential OAuth clients
          None

ASSUME AccessConstants == None \notin Workers \cup Tokens \cup Apps

VARIABLES
    active,    \* the user's activation
    valid,     \* clients that are enabled and hold their current secret
    row,       \* rows of oauth_access_tokens
    req,       \* requests in progress
    seen       \* history: what was true at some moment of a request

accessVars == <<limiterVars, active, valid, row, req, seen>>

NoRow == [state |-> "none", app |-> None, owner |-> "client"]
NoRequest == [kind |-> "none", pc |-> "idle", app |-> None, tok |-> None]

TokenKinds == {"grant", "credentials"}
ClientKinds == {"introspect", "revoke"}

\* Facts a request's answer may rest on.
Facts == {"client", "user", "token"}

\* The columns of an access token's row and the state of a request.
TokenRow == [state : {"none", "live", "dead"}, app : Apps \cup {None},
             owner : {"user", "client"}]
RequestState == [kind : TokenKinds \cup ClientKinds \cup {"userinfo", "none"},
                 pc : {"idle", "expire", "client", "user", "row", "commit", "yes"},
                 app : Apps \cup {None}, tok : Tokens \cup {None}]

TypeOK ==
    /\ LimiterTypeOK
    /\ active \in BOOLEAN
    /\ valid \subseteq Apps
    /\ row \in [Tokens -> TokenRow]
    /\ \A t \in Tokens : row[t].state = "none" <=> row[t].app = None
    /\ req \in [Workers -> RequestState]
    /\ seen \in [Workers -> SUBSET Facts]

Init ==
    /\ LimiterInit
    /\ active = TRUE
    /\ valid = Apps
    /\ row = [t \in Tokens |-> NoRow]
    /\ req = [w \in Workers |-> NoRequest]
    /\ seen = [w \in Workers |-> {}]

-----------------------------------------------------------------------------
Live(t) == t \in Tokens /\ row[t].state = "live"

\* The facts a request depends on that hold now.
FactsNow(w) == {f \in Facts :
    \/ f = "client" /\ req[w].app \in valid
    \/ f = "user" /\ active /\ req[w].kind \in {"grant", "userinfo"}
    \/ f = "token" /\ Live(req[w].tok)}

\* Every step is observed by the requests in progress.
Observe ==
    seen' = [w \in Workers |->
               IF req'[w].pc = "idle" THEN {} ELSE seen[w] \cup FactsNow(w)']

Go(w, pc) == req' = [req EXCEPT ![w].pc = pc]
Answer(w) == Go(w, "yes")
Refuse(w) == req' = [req EXCEPT ![w] = NoRequest]

Unchanged == UNCHANGED <<limiterVars, active, valid, row>>

-----------------------------------------------------------------------------
(* The token endpoint *)

\* tokenEndpoint: the limiter counts the request before anything else, and
\* answers 429 beyond the limit.
TokenEndpoint(w, kind, a) ==
    /\ req[w].pc = "idle"
    /\ \E n \in 1..MaxCount :
          /\ Incr(n)
          /\ IF n <= Limit
             THEN req' = [req EXCEPT ![w] =
                            [kind |-> kind, app |-> a, tok |-> None,
                             pc |-> IF SetsExpiry(n) THEN "expire" ELSE "client"]]
             ELSE Refuse(w)
    /\ UNCHANGED <<active, valid, row>>

SetExpiry(w) ==
    /\ req[w].pc = "expire"
    /\ Expire \/ ExpireLost
    /\ Go(w, "client")
    /\ UNCHANGED <<active, valid, row>>

\* Where each kind of request goes on once its client is authenticated.
AfterClient(w) == CASE req[w].kind = "grant" -> "user"
                    [] req[w].kind = "credentials" -> "commit"
                    [] OTHER -> "row"

\* authenticateOAuthClient: one read of the client; what follows relies on it.
AuthenticateOAuthClient(w) ==
    /\ req[w].pc = "client"
    /\ IF req[w].app \in valid THEN Go(w, AfterClient(w)) ELSE Refuse(w)
    /\ Unchanged

\* signIDToken without the user's activation.
SignIDTokenUnchecked(w) ==
    /\ req[w].pc = "user" /\ req[w].kind = "grant"
    /\ Go(w, "commit")
    /\ Unchanged

\* signIDToken reads the user, on another connection than the transaction's.
SignIDToken(w) ==
    /\ req[w].pc = "user" /\ req[w].kind = "grant"
    /\ IF active THEN Go(w, "commit") ELSE Refuse(w)
    /\ Unchanged

\* The access token is stored without its application_id.
CommitForgetsClient(w) ==
    /\ req[w].pc = "commit"
    /\ \E t \in Tokens :
          /\ row[t].state = "none"
          /\ row' = [row EXCEPT ![t].state = "live"]
    /\ Answer(w)
    /\ UNCHANGED <<limiterVars, active, valid>>

\* The access token inserted in the transaction becomes visible.
CommitAccessToken(w) ==
    /\ req[w].pc = "commit"
    /\ \E t \in Tokens :
          /\ row[t].state = "none"
          /\ row' = [row EXCEPT ![t] =
                       [state |-> "live", app |-> req[w].app,
                        owner |-> IF req[w].kind = "grant" THEN "user" ELSE "client"]]
    /\ Answer(w)
    /\ UNCHANGED <<limiterVars, active, valid>>

-----------------------------------------------------------------------------
(* UserInfo, introspection and revocation *)

\* userinfo parses the bearer token, which anybody may hold who got it.
UserInfo(w, t) ==
    /\ req[w].pc = "idle"
    /\ row[t].state # "none"
    /\ req' = [req EXCEPT ![w] = [NoRequest EXCEPT !.kind = "userinfo", !.pc = "row", !.tok = t]]
    /\ Unchanged

UserInfoReadsToken(w) ==
    /\ req[w].pc = "row" /\ req[w].kind = "userinfo"
    /\ IF Live(req[w].tok) /\ row[req[w].tok].owner = "user" THEN Go(w, "user") ELSE Refuse(w)
    /\ Unchanged

\* A later statement reads the user; the claims are answered if it is active.
UserInfoReadsUser(w) ==
    /\ req[w].pc = "user" /\ req[w].kind = "userinfo"
    /\ IF active THEN Answer(w) ELSE Refuse(w)
    /\ Unchanged

\* introspectToken and revokeToken authenticate the client first.
ClientRequest(w, kind, a, t) ==
    /\ req[w].pc = "idle"
    /\ row[t].state # "none"
    /\ req' = [req EXCEPT ![w] = [NoRequest EXCEPT !.kind = kind, !.pc = "client",
                                                   !.app = a, !.tok = t]]
    /\ Unchanged

AnyApplication(w) == TRUE
OwnToken(w) == row[req[w].tok].app = req[w].app

SignatureOnly(t) == row[t].state # "none"
Introspectable(t) == Live(t)

\* introspectToken reports a token of its own application that is not revoked
\* and has not expired; the user's activation does not matter.
IntrospectToken(w) ==
    /\ req[w].pc = "row" /\ req[w].kind = "introspect"
    /\ IF OwnToken(w) /\ Introspectable(req[w].tok) THEN Answer(w) ELSE Refuse(w)
    /\ Unchanged

\* revokeToken answers 200 whether its UPDATE found a row or failed.
RevokeToken(w) ==
    /\ req[w].pc = "row" /\ req[w].kind = "revoke"
    /\ \/ /\ row' = IF OwnToken(w) THEN [row EXCEPT ![req[w].tok].state = "dead"] ELSE row
          /\ Answer(w)
       \/ UNCHANGED row /\ Refuse(w)
    /\ UNCHANGED <<limiterVars, active, valid>>

-----------------------------------------------------------------------------
(* What goes on around them *)

\* The response is written, or the request fails or is given up before: the
\* transaction, if it has one, rolls back.
Finish(w) ==
    /\ req[w].pc # "idle"
    /\ req' = [req EXCEPT ![w] = NoRequest]
    /\ IF req[w].pc = "expire" THEN ExpireLost ELSE UNCHANGED limiterVars
    /\ UNCHANGED <<active, valid, row>>

\* updateUser, updateApplication and rotateClientSecret, one after the other.
UpdateUser ==
    /\ active' = ~active
    /\ UNCHANGED <<limiterVars, valid, row, req>>

\* The application is disabled, or enabled again.
UpdateApplication(a) ==
    /\ valid' = IF a \in valid THEN valid \ {a} ELSE valid \cup {a}
    /\ UNCHANGED <<limiterVars, active, row, req>>

\* The new secret is shown to an administrator; the client gets it later.
RotateClientSecret(a) ==
    /\ valid' = valid \ {a}
    /\ UNCHANGED <<limiterVars, active, row, req>>

ExpireToken(t) ==
    /\ Live(t)
    /\ row' = [row EXCEPT ![t].state = "dead"]
    /\ UNCHANGED <<limiterVars, active, valid, req>>

WindowEnds ==
    /\ CounterExpires
    /\ UNCHANGED <<active, valid, row, req>>

Grant(w) ==
    \/ \E kind \in TokenKinds, a \in Apps : TokenEndpoint(w, kind, a)
    \/ SetExpiry(w) \/ SignIDToken(w) \/ CommitAccessToken(w)

Use(w) ==
    \/ \E t \in Tokens : \/ UserInfo(w, t)
                         \/ \E kind \in ClientKinds, a \in Apps : ClientRequest(w, kind, a, t)
    \/ UserInfoReadsToken(w) \/ UserInfoReadsUser(w)
    \/ IntrospectToken(w) \/ RevokeToken(w)

Administration ==
    \/ UpdateUser
    \/ \E a \in Apps : UpdateApplication(a) \/ RotateClientSecret(a)

Next ==
    /\ \/ \E w \in Workers : Grant(w) \/ Use(w) \/ AuthenticateOAuthClient(w) \/ Finish(w)
       \/ \E t \in Tokens : ExpireToken(t)
       \/ Administration
       \/ WindowEnds
    /\ Observe

\* Redis expires the keys it was told to, and a handler goes on.
Fairness ==
    /\ WF_accessVars(WindowEnds /\ Observe)
    /\ \A w \in Workers : WF_accessVars(SetExpiry(w) /\ Observe)

Spec == Init /\ [][Next]_accessVars /\ Fairness

-----------------------------------------------------------------------------
(* Properties *)

Answered(w, kind) == req[w].kind = kind /\ req[w].pc = "yes"

\* No tokens for a user who was inactive, or to a client that was disabled or
\* had lost its secret, throughout the request: deactivation lets at most the
\* grants in progress through, which read the user before they commit.
TokensJustified ==
    \A w \in Workers :
        /\ Answered(w, "grant") => {"client", "user"} \subseteq seen[w]
        /\ Answered(w, "credentials") => "client" \in seen[w]

\* UserInfo answers with claims only if the token was neither revoked nor
\* expired, and the user active, while the request was in progress, whatever
\* changed between its statements; introspection reports a token as active only
\* if it was, and only to the client it was issued to.
AnswersJustified ==
    \A w \in Workers :
        /\ Answered(w, "userinfo") => {"token", "user"} \subseteq seen[w]
        /\ Answered(w, "introspect") => {"client", "token"} \subseteq seen[w] /\ OwnToken(w)

\* An access token dies by expiry or by a revocation of its own client, which
\* was authenticated at some moment of that request.
RevokedByOwnClient(t) ==
    \E w \in Workers : /\ req[w].kind = "revoke" /\ req[w].tok = t
                       /\ req[w].app = row[t].app /\ "client" \in seen[w]
DeathsConfined == \A t \in Tokens : Live(t) /\ ~Live(t)' /\ req' # req => RevokedByOwnClient(t)
RevocationConfined == [][DeathsConfined]_accessVars

-----------------------------------------------------------------------------
(* The inductive invariant behind the safety properties *)

\* The statements of each kind of request, and the client or token it is about.
RequestFormed(w) ==
    LET r == req[w] IN
    /\ r.pc \in {"expire", "commit"} => r.kind \in TokenKinds
    /\ r.pc = "client" => r.kind \in TokenKinds \cup ClientKinds
    /\ r.pc = "user" => r.kind \in {"grant", "userinfo"}
    /\ r.pc = "row" => r.kind \in ClientKinds \cup {"userinfo"}
    /\ r.pc # "idle" /\ r.kind # "userinfo" => r.app \in Apps
    /\ r.pc # "idle" /\ r.kind \in ClientKinds \cup {"userinfo"} =>
          r.tok \in Tokens /\ row[r.tok].state # "none"

\* What a request that has come this far has found to be true.
RequestProven(w) ==
    LET r == req[w] IN
    /\ r.kind \in TokenKinds /\ r.pc \in {"user", "commit", "yes"} => "client" \in seen[w]
    /\ r.kind \in ClientKinds /\ r.pc \in {"row", "yes"} => "client" \in seen[w]
    /\ r.kind = "grant" /\ r.pc \in {"commit", "yes"} => "user" \in seen[w]
    /\ r.kind = "userinfo" /\ r.pc \in {"user", "yes"} => "token" \in seen[w]
    /\ r.kind = "userinfo" /\ r.pc = "yes" => "user" \in seen[w]
    /\ r.kind = "introspect" /\ r.pc = "yes" => "token" \in seen[w] /\ OwnToken(w)

\* Every admission was a number of the counter, and no number is above Limit.
AdmissionsCounted == admitted <= count /\ admitted <= Limit

AccessInv ==
    /\ TypeOK
    /\ AdmissionsCounted
    /\ \A w \in Workers : RequestFormed(w) /\ RequestProven(w)
=============================================================================
