-------------------------- MODULE AuthorizeConsent --------------------------
(***************************************************************************)
(* The authorization endpoint of one OAuth client: the MFA gate, reuse of  *)
(* an earlier consent, the consent screen and the authorization codes      *)
(* (authorize and authorizeConsent in backend/internal/httpapi/oauth.go).  *)
(*                                                                         *)
(* Statements outside a transaction are steps of their own.  The consent   *)
(* form is handled in one transaction that locks the authorization request *)
(* (lock and read are one step) and reads the stored consent without a     *)
(* lock.  A request that is refused simply ends: invalid parameters, no    *)
(* session, a forced password change, prompt=none.  Redirect URI, state,   *)
(* nonce and PKCE challenge are copied from row to row and are left out.   *)
(***************************************************************************)
EXTENDS Naturals, FiniteSets

CONSTANTS Workers,    \* requests in progress at the same time
          Users,
          Sessions,   \* browser sessions
          Scopes,     \* scopes the client may ask for
          OpenID,     \* the scope every request has to name
          Forms,      \* tokens of consent screens
          Codes,      \* authorization codes
          None

ASSUME ConsentConstants ==
    /\ OpenID \in Scopes
    /\ None \notin Workers \cup Users \cup Sessions \cup Forms \cup Codes

VARIABLES
    required,   \* effective MFA policy of the client
    session,    \* rows of sessions
    consent,    \* consent[u]: row of oauth_consents, {} if there is none
    form,       \* rows of oauth_authorization_requests
    formLock,   \* the transaction that holds such a row
    code,       \* rows of authorization_codes
    req,        \* requests in progress
    approved    \* history: what each user has approved on a consent screen

vars == <<required, session, consent, form, formLock, code, req, approved>>

NoSession == [st |-> "none", user |-> None, mfa |-> FALSE]
NoForm == [st |-> "none", user |-> None, scope |-> {}]
NoCode == [user |-> None, scope |-> {}, form |-> None]
NoRequest == [pc |-> "idle", user |-> None, mfa |-> FALSE, scope |-> {},
              form |-> None, granted |-> {}]

\* The rows of the tables and the state of a request.
SessionRow == [st : {"none", "live", "revoked"}, user : Users \cup {None}, mfa : BOOLEAN]
FormRow == [st : {"none", "open", "consumed", "expired"}, user : Users \cup {None},
            scope : SUBSET Scopes]
CodeRow == [user : Users \cup {None}, scope : SUBSET Scopes, form : Forms \cup {None}]
RequestState == [pc : {"idle", "policy", "lookup", "store", "ask", "submitted", "deny", "commit"},
                 user : Users \cup {None}, mfa : BOOLEAN, scope : SUBSET Scopes,
                 form : Forms \cup {None}, granted : SUBSET Scopes]

TypeOK ==
    /\ required \in BOOLEAN
    /\ session \in [Sessions -> SessionRow]
    /\ consent \in [Users -> SUBSET Scopes]
    /\ form \in [Forms -> FormRow]
    /\ formLock \in [Forms -> Workers \cup {None}]
    /\ code \in [Codes -> CodeRow]
    /\ req \in [Workers -> RequestState]
    /\ approved \in [Users -> SUBSET Scopes]
    /\ \A f \in Forms : form[f].st # "none" => form[f].user # None /\ OpenID \in form[f].scope
    /\ \A c \in Codes : code[c] # NoCode => code[c].user # None /\ OpenID \in code[c].scope

Init ==
    /\ required \in BOOLEAN
    /\ session = [s \in Sessions |-> NoSession]
    /\ consent = [u \in Users |-> {}]
    /\ form = [f \in Forms |-> NoForm]
    /\ formLock = [f \in Forms |-> None]
    /\ code = [c \in Codes |-> NoCode]
    /\ req = [w \in Workers |-> NoRequest]
    /\ approved = [u \in Users |-> {}]

-----------------------------------------------------------------------------
(* Helpers *)

End(w) == req' = [req EXCEPT ![w] = NoRequest]
Goto(w, pc) == req' = [req EXCEPT ![w].pc = pc]

Unused(c) == code[c] = NoCode

AnyGranted(granted, scopes) == granted \cap scopes # {}
ContainsAll(granted, scopes) == scopes \subseteq granted

-----------------------------------------------------------------------------
(* Sessions and policy, changed elsewhere *)

CreateSession(s, u) ==
    /\ session[s].st = "none"
    /\ session' = [session EXCEPT ![s] = [st |-> "live", user |-> u, mfa |-> FALSE]]
    /\ UNCHANGED <<required, consent, form, formLock, code, req, approved>>

VerifySession(s) ==
    /\ session[s].st = "live" /\ ~session[s].mfa
    /\ session' = [session EXCEPT ![s].mfa = TRUE]
    /\ UNCHANGED <<required, consent, form, formLock, code, req, approved>>

RevokeSession(s) ==
    /\ session[s].st = "live"
    /\ session' = [session EXCEPT ![s].st = "revoked"]
    /\ UNCHANGED <<required, consent, form, formLock, code, req, approved>>

SetPolicy ==
    /\ required' = ~required
    /\ UNCHANGED <<session, consent, form, formLock, code, req, approved>>

-----------------------------------------------------------------------------
(* GET /oauth2/authorize *)

\* validateAuthorizationRequest: the client may ask for any of its scopes, but
\* has to ask for openid.
AnyScopes(S) == S # {}
ValidScopes(S) == OpenID \in S

\* A valid request for scopes S, and the principal of session s.
Authorize(w, s, S) ==
    /\ req[w].pc = "idle"
    /\ session[s].st = "live"
    /\ ValidScopes(S)
    /\ req' = [req EXCEPT ![w] = [NoRequest EXCEPT !.pc = "policy", !.scope = S,
                                    !.user = session[s].user, !.mfa = session[s].mfa]]
    /\ UNCHANGED <<required, session, consent, form, formLock, code, approved>>

\* The effective policy decides whether the session has to be MFA-verified.
CheckPolicy(w) ==
    /\ req[w].pc = "policy"
    /\ IF required /\ ~req[w].mfa THEN End(w) ELSE Goto(w, "lookup")
    /\ UNCHANGED <<required, session, consent, form, formLock, code, approved>>

\* A stored consent that covers the request makes the screen unnecessary.
LookupConsent(w) ==
    /\ req[w].pc = "lookup"
    /\ Goto(w, IF ContainsAll(consent[req[w].user], req[w].scope) THEN "store" ELSE "ask")
    /\ UNCHANGED <<required, session, consent, form, formLock, code, approved>>

StoreAuthorizationCode(w, c) ==
    /\ req[w].pc = "store"
    /\ Unused(c)
    /\ code' = [code EXCEPT ![c] = [user |-> req[w].user, scope |-> req[w].scope,
                                    form |-> None]]
    /\ End(w)
    /\ UNCHANGED <<required, session, consent, form, formLock, approved>>

\* The request is stored and its token put into the consent screen.
ShowConsentScreen(w, f) ==
    /\ req[w].pc = "ask"
    /\ form[f].st = "none"
    /\ form' = [form EXCEPT ![f] = [st |-> "open", user |-> req[w].user,
                                    scope |-> req[w].scope]]
    /\ End(w)
    /\ UNCHANGED <<required, session, consent, formLock, code, approved>>

ExpireForm(f) ==
    /\ form[f].st = "open"
    /\ form' = [form EXCEPT ![f].st = "expired"]
    /\ UNCHANGED <<required, session, consent, formLock, code, req, approved>>

-----------------------------------------------------------------------------
(* POST /oauth2/authorize/consent *)

\* The principal of session s submits form f.  Neither the policy nor the MFA
\* state of the session is looked at.
SubmitConsent(w, s, f) ==
    /\ req[w].pc = "idle"
    /\ session[s].st = "live"
    /\ form[f].st # "none"
    /\ req' = [req EXCEPT ![w] = [NoRequest EXCEPT !.pc = "submitted", !.form = f,
                                    !.user = session[s].user]]
    /\ UNCHANGED <<required, session, consent, form, formLock, code, approved>>

AnyUsersForm(w, f) == form[f].st = "open"
UsedFormAccepted(w, f) == form[f].st # "expired" /\ form[f].user = req[w].user
Acceptable(w, f) == form[f].st = "open" /\ form[f].user = req[w].user

\* SELECT ... FOR UPDATE, the checks, and on approval the consent stored so far.
LockForm(w) ==
    /\ req[w].pc = "submitted"
    /\ LET f == req[w].form IN
          /\ formLock[f] = None
          /\ IF Acceptable(w, f)
             THEN /\ formLock' = [formLock EXCEPT ![f] = w]
                  /\ \/ Goto(w, "deny")
                     \/ req' = [req EXCEPT ![w].pc = "commit", ![w].scope = form[f].scope,
                                           ![w].granted = consent[req[w].user]]
             ELSE End(w) /\ UNCHANGED formLock
    /\ UNCHANGED <<required, session, consent, form, code, approved>>

\* The user refused: the form is consumed, no code is issued.
DenyConsent(w) ==
    /\ req[w].pc = "deny"
    /\ form' = [form EXCEPT ![req[w].form].st = "consumed"]
    /\ formLock' = [formLock EXCEPT ![req[w].form] = None]
    /\ End(w)
    /\ UNCHANGED <<required, session, consent, code, approved>>

Overwritten(granted, scopes) == scopes
MergeScopes(granted, scopes) == granted \cup scopes

\* The user agreed: merged consent, code and consumed form are committed
\* together.
CommitConsent(w, c) ==
    /\ req[w].pc = "commit"
    /\ Unused(c)
    /\ LET u == req[w].user IN
          /\ consent' = [consent EXCEPT ![u] = MergeScopes(req[w].granted, req[w].scope)]
          /\ approved' = [approved EXCEPT ![u] = @ \cup req[w].scope]
          /\ code' = [code EXCEPT ![c] = [user |-> u, scope |-> req[w].scope,
                                          form |-> req[w].form]]
    /\ form' = [form EXCEPT ![req[w].form].st = "consumed"]
    /\ formLock' = [formLock EXCEPT ![req[w].form] = None]
    /\ End(w)
    /\ UNCHANGED <<required, session>>

\* A request fails or is cancelled; an open transaction rolls back.
FailRequest(w) ==
    /\ req[w].pc # "idle"
    /\ formLock' = [f \in Forms |-> IF formLock[f] = w THEN None ELSE formLock[f]]
    /\ End(w)
    /\ UNCHANGED <<required, session, consent, form, code, approved>>

-----------------------------------------------------------------------------
Request(w) ==
    \/ \E s \in Sessions, S \in SUBSET Scopes : Authorize(w, s, S)
    \/ CheckPolicy(w) \/ LookupConsent(w)
    \/ \E c \in Codes : StoreAuthorizationCode(w, c) \/ CommitConsent(w, c)
    \/ \E f \in Forms : ShowConsentScreen(w, f)
    \/ \E s \in Sessions, f \in Forms : SubmitConsent(w, s, f)
    \/ LockForm(w) \/ DenyConsent(w)
    \/ FailRequest(w)

Environment ==
    \/ \E s \in Sessions, u \in Users : CreateSession(s, u)
    \/ \E s \in Sessions : VerifySession(s) \/ RevokeSession(s)
    \/ \E f \in Forms : ExpireForm(f)
    \/ SetPolicy

Next == (\E w \in Workers : Request(w)) \/ Environment

Spec == Init /\ [][Next]_vars

-----------------------------------------------------------------------------
(* Properties *)

\* A code never carries a scope its user has not agreed to on a consent screen,
\* however consents are reused, merged and overwritten.
CodesApproved == \A c \in Codes : ~Unused(c) => code[c].scope \subseteq approved[code[c].user]

\* A consent screen that is submitted twice, even at the same time, yields one
\* code at most, and the one of the user it was shown to.
OneCodePerForm ==
    \A c, d \in Codes : code[c].form # None =>
        /\ form[code[c].form].st = "consumed"
        /\ code[c].user = form[code[c].form].user
        /\ code[d].form = code[c].form => c = d

\* What a user has granted to the client is forgotten only where two approvals
\* of that user overlap: a commit drops nothing that was stored when its
\* transaction read the consent.
GrantsLostByOverlapOnly ==
    [][\A u \in Users :
          \/ consent[u] \subseteq consent'[u]
          \/ \E w \in Workers : /\ req[w].pc = "commit" /\ req[w].user = u
                                /\ req[w].granted # consent[u]]_vars

-----------------------------------------------------------------------------
(* The inductive invariant behind the safety properties *)

\* A request acts for the user of a session, and an authorization asks for openid.
RequestsHaveUsers ==
    /\ \A s \in Sessions : session[s].st # "none" => session[s].user \in Users
    /\ \A w \in Workers :
          /\ req[w].pc # "idle" => req[w].user \in Users
          /\ req[w].pc \in {"policy", "lookup", "store", "ask"} => OpenID \in req[w].scope

\* Stored consents, and what a request has read of them, were approved.
ConsentsApproved ==
    /\ \A u \in Users : consent[u] \subseteq approved[u]
    /\ \A w \in Workers :
          /\ req[w].pc = "store" => req[w].scope \subseteq approved[req[w].user]
          /\ req[w].pc = "commit" => req[w].granted \subseteq approved[req[w].user]

\* A form that is being answered is held by its user's request and was not
\* consumed before, although it may have expired since.
AnsweredFormsHeld ==
    \A w \in Workers :
        /\ req[w].pc = "submitted" => req[w].form \in Forms
        /\ req[w].pc \in {"deny", "commit"} =>
              /\ req[w].form \in Forms
              /\ formLock[req[w].form] = w
              /\ form[req[w].form].st \in {"open", "expired"}
              /\ form[req[w].form].user = req[w].user
              /\ req[w].pc = "commit" => form[req[w].form].scope = req[w].scope

ConsentInv ==
    /\ TypeOK
    /\ RequestsHaveUsers
    /\ ConsentsApproved
    /\ AnsweredFormsHeld
    /\ CodesApproved
    /\ OneCodePerForm
=============================================================================
