----------------------- MODULE AuthorizeConsentProofs -----------------------
(***************************************************************************)
(* Theorems about AuthorizeConsent for any number of requests, users,      *)
(* sessions, scopes, forms and codes: codes carry approved scopes only, a  *)
(* consent screen yields one code, and consents are lost only where two    *)
(* approvals overlap.                                                      *)
(***************************************************************************)
EXTENDS AuthorizeConsent, TLAPS

USE ConsentConstants

\* What a step of one request does to the requests.
LEMMA RequestChanged ==
    ASSUME TypeOK, NEW w \in Workers, NEW r \in RequestState,
           req' = [req EXCEPT ![w] = r]
    PROVE  /\ req' \in [Workers -> RequestState]
           /\ req'[w] = r
           /\ \A v \in Workers \ {w} : req'[v] = req[v]
BY DEF TypeOK

\* A request that ends leaves no trace.
LEMMA EndState ==
    ASSUME TypeOK, NEW w \in Workers, End(w)
    PROVE  /\ req' \in [Workers -> RequestState]
           /\ req'[w].pc = "idle"
           /\ \A v \in Workers \ {w} : req'[v] = req[v]
<1>1. NoRequest \in RequestState /\ NoRequest.pc = "idle"
    BY DEF NoRequest, RequestState
<1> QED
    BY <1>1, RequestChanged DEF End

\* A request that goes on keeps what it has read.
LEMMA GotoState ==
    ASSUME TypeOK, NEW w \in Workers, NEW pc \in {"lookup", "store", "ask", "deny"},
           Goto(w, pc)
    PROVE  /\ req' \in [Workers -> RequestState]
           /\ req'[w].pc = pc
           /\ req'[w].user = req[w].user
           /\ req'[w].scope = req[w].scope
           /\ req'[w].form = req[w].form
           /\ \A v \in Workers \ {w} : req'[v] = req[v]
<1> DEFINE r == [req[w] EXCEPT !.pc = pc]
<1>1. req' = [req EXCEPT ![w] = r] /\ req[w] \in RequestState
    BY DEF Goto, TypeOK
<1>2. r \in RequestState
    BY <1>1 DEF RequestState
<1>3. r.pc = pc /\ r.user = req[w].user /\ r.scope = req[w].scope /\ r.form = req[w].form
    BY <1>1 DEF RequestState
<1> HIDE DEF r
<1> QED
    BY <1>1, <1>2, <1>3, RequestChanged

\* A request that only reads: w goes on to a statement that writes no form and
\* commits nothing, or ends.
LEMMA ReadingStep ==
    ASSUME ConsentInv, NEW w \in Workers,
           UNCHANGED <<session, consent, form, code, approved>>,
           required' \in BOOLEAN,
           formLock' \in [Forms -> Workers \cup {None}],
           \A v \in Workers \ {w}, f \in Forms : formLock[f] = v => formLock'[f] = v,
           req' \in [Workers -> RequestState],
           \A v \in Workers \ {w} : req'[v] = req[v],
           req'[w].pc \in {"idle", "policy", "lookup", "store", "ask", "submitted"},
           req'[w].pc # "idle" => req'[w].user \in Users,
           req'[w].pc \in {"policy", "lookup", "store", "ask"} => OpenID \in req'[w].scope,
           req'[w].pc = "store" => req'[w].scope \subseteq approved[req'[w].user],
           req'[w].pc = "submitted" => req'[w].form \in Forms
    PROVE  ConsentInv'
<1> USE DEF ConsentInv
<1>1. TypeOK'
    BY DEF TypeOK
<1>2. RequestsHaveUsers'
    BY DEF RequestsHaveUsers
<1>3. ConsentsApproved'
    BY DEF ConsentsApproved
<1>4. AnsweredFormsHeld'
  <2>1. ASSUME NEW v \in Workers, v # w
        PROVE  /\ req'[v] = req[v]
               /\ \A f \in Forms : formLock[f] = v => formLock'[f] = v
    BY <2>1
  <2> QED
    BY <2>1 DEF AnsweredFormsHeld
<1>5. CodesApproved' /\ OneCodePerForm'
    BY DEF CodesApproved, OneCodePerForm, Unused
<1> QED
    BY <1>1, <1>2, <1>3, <1>4, <1>5

-----------------------------------------------------------------------------
(* GET /oauth2/authorize *)

\* The authorization endpoint notes the user and assurance of a live session.
LEMMA AuthorizeStep ==
    ASSUME ConsentInv, NEW w \in Workers, NEW s \in Sessions, NEW S \in SUBSET Scopes,
           Authorize(w, s, S)
    PROVE  ConsentInv'
<1> USE DEF ConsentInv
<1> DEFINE r == [NoRequest EXCEPT !.pc = "policy", !.scope = S,
                                  !.user = session[s].user, !.mfa = session[s].mfa]
<1>1. req' = [req EXCEPT ![w] = r] /\ OpenID \in S
    BY DEF Authorize, ValidScopes
<1>2. session[s].user \in Users /\ session[s].mfa \in BOOLEAN
    BY DEF Authorize, RequestsHaveUsers, TypeOK, SessionRow
<1>3. NoRequest \in RequestState
    BY DEF NoRequest, RequestState
<1>4. r \in RequestState
    BY <1>2, <1>3 DEF RequestState
<1>5. r.pc = "policy" /\ r.user = session[s].user /\ r.scope = S
    BY <1>3 DEF RequestState
<1>6. /\ req' \in [Workers -> RequestState] /\ req'[w] = r
      /\ \A v \in Workers \ {w} : req'[v] = req[v]
  <2> HIDE DEF r
  <2> QED
    BY <1>1, <1>4, RequestChanged
<1>7. UNCHANGED <<required, session, consent, form, formLock, code, approved>>
    BY DEF Authorize
<1> HIDE DEF r
<1> QED
    BY <1>1, <1>2, <1>5, <1>6, <1>7, ReadingStep DEF TypeOK

\* The policy check ends the request or lets it go on.
LEMMA CheckPolicyStep ==
    ASSUME ConsentInv, NEW w \in Workers, CheckPolicy(w)
    PROVE  ConsentInv'
<1> USE DEF ConsentInv
<1>1. /\ req[w].pc = "policy" /\ (End(w) \/ Goto(w, "lookup"))
      /\ UNCHANGED <<required, session, consent, form, formLock, code, approved>>
    BY DEF CheckPolicy
<1>2. req[w].user \in Users /\ OpenID \in req[w].scope
    BY <1>1 DEF RequestsHaveUsers
<1>3. CASE End(w)
    BY <1>1, <1>3, EndState, ReadingStep DEF TypeOK
<1>4. CASE Goto(w, "lookup")
    BY <1>1, <1>2, <1>4, GotoState, ReadingStep DEF TypeOK
<1> QED
    BY <1>1, <1>3, <1>4

\* A stored consent that covers the request was approved.
LEMMA LookupConsentStep ==
    ASSUME ConsentInv, NEW w \in Workers, LookupConsent(w)
    PROVE  ConsentInv'
<1> USE DEF ConsentInv
<1>1. /\ req[w].pc = "lookup"
      /\ UNCHANGED <<required, session, consent, form, formLock, code, approved>>
    BY DEF LookupConsent
<1>2. req[w].user \in Users /\ OpenID \in req[w].scope
    BY <1>1 DEF RequestsHaveUsers
<1>3. CASE ContainsAll(consent[req[w].user], req[w].scope)
  <2>1. Goto(w, "store") /\ req[w].scope \subseteq approved[req[w].user]
    BY <1>2, <1>3 DEF LookupConsent, ContainsAll, ConsentsApproved
  <2> QED
    BY <1>1, <1>2, <2>1, GotoState, ReadingStep DEF TypeOK
<1>4. CASE ~ContainsAll(consent[req[w].user], req[w].scope)
  <2>1. Goto(w, "ask")
    BY <1>4 DEF LookupConsent
  <2> QED
    BY <1>1, <1>2, <2>1, GotoState, ReadingStep DEF TypeOK
<1> QED
    BY <1>3, <1>4

\* A submission notes the form and the user of the session that makes it.
LEMMA SubmitConsentStep ==
    ASSUME ConsentInv, NEW w \in Workers, NEW s \in Sessions, NEW f \in Forms,
           SubmitConsent(w, s, f)
    PROVE  ConsentInv'
<1> USE DEF ConsentInv
<1> DEFINE r == [NoRequest EXCEPT !.pc = "submitted", !.form = f, !.user = session[s].user]
<1>1. req' = [req EXCEPT ![w] = r]
    BY DEF SubmitConsent
<1>2. session[s].user \in Users
    BY DEF SubmitConsent, RequestsHaveUsers
<1>3. NoRequest \in RequestState
    BY DEF NoRequest, RequestState
<1>4. r \in RequestState
    BY <1>2, <1>3 DEF RequestState
<1>5. r.pc = "submitted" /\ r.user = session[s].user /\ r.form = f
    BY <1>3 DEF RequestState
<1>6. /\ req' \in [Workers -> RequestState] /\ req'[w] = r
      /\ \A v \in Workers \ {w} : req'[v] = req[v]
  <2> HIDE DEF r
  <2> QED
    BY <1>1, <1>4, RequestChanged
<1>7. UNCHANGED <<required, session, consent, form, formLock, code, approved>>
    BY DEF SubmitConsent
<1> HIDE DEF r
<1> QED
    BY <1>2, <1>5, <1>6, <1>7, ReadingStep DEF TypeOK

\* A rollback gives back the locks of its own transaction only.
LEMMA FailRequestStep ==
    ASSUME ConsentInv, NEW w \in Workers, FailRequest(w)
    PROVE  ConsentInv'
<1> USE DEF ConsentInv
<1>1. /\ End(w)
      /\ formLock' = [f \in Forms |-> IF formLock[f] = w THEN None ELSE formLock[f]]
      /\ UNCHANGED <<required, session, consent, form, code, approved>>
    BY DEF FailRequest
<1>2. /\ formLock' \in [Forms -> Workers \cup {None}]
      /\ \A v \in Workers \ {w}, f \in Forms : formLock[f] = v => formLock'[f] = v
    BY <1>1 DEF TypeOK
<1> QED
    BY <1>1, <1>2, EndState, ReadingStep DEF TypeOK

\* The code for a stored consent carries what that consent covers.
LEMMA StoreCodeStep ==
    ASSUME ConsentInv, NEW w \in Workers, NEW c \in Codes, StoreAuthorizationCode(w, c)
    PROVE  ConsentInv'
<1> USE DEF ConsentInv
<1> DEFINE new == [user |-> req[w].user, scope |-> req[w].scope, form |-> None]
<1>1. /\ req[w].pc = "store" /\ End(w)
      /\ UNCHANGED <<required, session, consent, form, formLock, approved>>
      /\ code' = [code EXCEPT ![c] = new]
    BY DEF StoreAuthorizationCode
<1>2. /\ req[w].user \in Users /\ OpenID \in req[w].scope
      /\ req[w].scope \subseteq approved[req[w].user]
    BY <1>1 DEF RequestsHaveUsers, ConsentsApproved
<1>3. new \in CodeRow
    BY <1>2 DEF CodeRow, TypeOK, RequestState
<1>4. /\ code' \in [Codes -> CodeRow]
      /\ code'[c].user = req[w].user /\ code'[c].scope = req[w].scope /\ code'[c].form = None
      /\ \A d \in Codes \ {c} : code'[d] = code[d]
    BY <1>1, <1>3 DEF TypeOK
<1>5. /\ req' \in [Workers -> RequestState] /\ req'[w].pc = "idle"
      /\ \A v \in Workers \ {w} : req'[v] = req[v]
    BY <1>1, EndState
<1>6. TypeOK'
    BY <1>1, <1>2, <1>4, <1>5 DEF TypeOK
<1>7. RequestsHaveUsers' /\ ConsentsApproved' /\ AnsweredFormsHeld'
    BY <1>1, <1>5 DEF RequestsHaveUsers, ConsentsApproved, AnsweredFormsHeld
<1>8. CodesApproved'
    BY <1>1, <1>2, <1>4 DEF CodesApproved, Unused
<1>9. OneCodePerForm'
    BY <1>1, <1>4 DEF OneCodePerForm
<1> QED
    BY <1>6, <1>7, <1>8, <1>9

\* A form that is shown is a new row, so no code and no request names it.
LEMMA ShowConsentScreenStep ==
    ASSUME ConsentInv, NEW w \in Workers, NEW f \in Forms, ShowConsentScreen(w, f)
    PROVE  ConsentInv'
<1> USE DEF ConsentInv
<1> DEFINE new == [st |-> "open", user |-> req[w].user, scope |-> req[w].scope]
<1>1. /\ req[w].pc = "ask" /\ End(w) /\ form[f].st = "none"
      /\ UNCHANGED <<required, session, consent, formLock, code, approved>>
      /\ form' = [form EXCEPT ![f] = new]
    BY DEF ShowConsentScreen
<1>2. req[w].user \in Users /\ OpenID \in req[w].scope
    BY <1>1 DEF RequestsHaveUsers
<1>3. new \in FormRow
    BY <1>2 DEF FormRow, TypeOK, RequestState
<1>4. /\ form' \in [Forms -> FormRow]
      /\ form'[f].user = req[w].user /\ form'[f].scope = req[w].scope
      /\ \A g \in Forms \ {f} : form'[g] = form[g]
    BY <1>1, <1>3 DEF TypeOK
<1>5. /\ req' \in [Workers -> RequestState] /\ req'[w].pc = "idle"
      /\ \A v \in Workers \ {w} : req'[v] = req[v]
    BY <1>1, EndState
<1>6. TypeOK'
    BY <1>1, <1>2, <1>4, <1>5 DEF TypeOK
<1>7. RequestsHaveUsers' /\ ConsentsApproved'
    BY <1>1, <1>5 DEF RequestsHaveUsers, ConsentsApproved
<1>8. AnsweredFormsHeld'
    BY <1>1, <1>4, <1>5 DEF AnsweredFormsHeld
<1>9. CodesApproved'
    BY <1>1 DEF CodesApproved, Unused
<1>10. OneCodePerForm'
    BY <1>1, <1>4 DEF OneCodePerForm, TypeOK, CodeRow
<1> QED
    BY <1>6, <1>7, <1>8, <1>9, <1>10

-----------------------------------------------------------------------------
(* POST /oauth2/authorize/consent *)

\* The row lock makes w the only request that answers the form.
LEMMA LockFormStep ==
    ASSUME ConsentInv, NEW w \in Workers, LockForm(w)
    PROVE  ConsentInv'
<1> USE DEF ConsentInv
<1> DEFINE f == req[w].form
<1>1. /\ req[w].pc = "submitted" /\ f \in Forms /\ formLock[f] = None
      /\ req[w].user \in Users
      /\ UNCHANGED <<required, session, consent, form, code, approved>>
    BY DEF LockForm, AnsweredFormsHeld, RequestsHaveUsers
<1>2. CASE ~Acceptable(w, f)
  <2>1. End(w) /\ UNCHANGED formLock
    BY <1>2 DEF LockForm
  <2> QED
    BY <1>1, <2>1, EndState, ReadingStep DEF TypeOK
<1>3. CASE Acceptable(w, f)
  <2>1. /\ formLock' = [formLock EXCEPT ![f] = w]
        /\ form[f].st = "open" /\ form[f].user = req[w].user
    BY <1>3 DEF LockForm, Acceptable
  <2>2. /\ formLock' \in [Forms -> Workers \cup {None}] /\ formLock'[f] = w
        /\ \A v \in Workers, g \in Forms : formLock[g] = v => formLock'[g] = v
    BY <1>1, <2>1 DEF TypeOK
  <2>3. /\ req' \in [Workers -> RequestState]
        /\ req'[w].pc \in {"deny", "commit"}
        /\ req'[w].user = req[w].user /\ req'[w].form = f
        /\ req'[w].pc = "commit" => /\ req'[w].scope = form[f].scope
                                    /\ req'[w].granted = consent[req[w].user]
        /\ \A v \in Workers \ {w} : req'[v] = req[v]
    <3>1. CASE Goto(w, "deny")
      BY <3>1, GotoState
    <3>2. CASE req' = [req EXCEPT ![w].pc = "commit", ![w].scope = form[f].scope,
                                  ![w].granted = consent[req[w].user]]
      <4> DEFINE r == [req[w] EXCEPT !.pc = "commit", !.scope = form[f].scope,
                                     !.granted = consent[req[w].user]]
      <4>1. req' = [req EXCEPT ![w] = r] /\ req[w] \in RequestState
        BY <3>2 DEF TypeOK
      <4>2. form[f].scope \in SUBSET Scopes /\ consent[req[w].user] \in SUBSET Scopes
        BY <1>1 DEF TypeOK, FormRow
      <4>3. r \in RequestState
        BY <4>1, <4>2 DEF RequestState
      <4>4. /\ r.pc = "commit" /\ r.user = req[w].user /\ r.form = f
            /\ r.scope = form[f].scope /\ r.granted = consent[req[w].user]
        BY <4>1 DEF RequestState
      <4>5. /\ req' \in [Workers -> RequestState] /\ req'[w] = r
            /\ \A v \in Workers \ {w} : req'[v] = req[v]
        <5> HIDE DEF r
        <5> QED
          BY <4>1, <4>3, RequestChanged
      <4> HIDE DEF r
      <4> QED
        BY <4>4, <4>5
    <3> QED
      BY <1>3, <3>1, <3>2 DEF LockForm
  <2> HIDE DEF f
  <2>4. TypeOK'
    BY <1>1, <2>2, <2>3 DEF TypeOK
  <2>5. RequestsHaveUsers'
    BY <1>1, <2>3 DEF RequestsHaveUsers
  <2>6. ConsentsApproved'
    BY <1>1, <2>3 DEF ConsentsApproved
  <2>7. AnsweredFormsHeld'
    BY <1>1, <2>1, <2>2, <2>3 DEF AnsweredFormsHeld
  <2>8. CodesApproved' /\ OneCodePerForm'
    BY <1>1 DEF CodesApproved, OneCodePerForm, Unused
  <2> QED
    BY <2>4, <2>5, <2>6, <2>7, <2>8
<1> QED
    BY <1>2, <1>3

\* What the end of an answer does to its form, which no other request holds.
AnswerEnds(w) ==
    /\ form' \in [Forms -> FormRow]
    /\ form'[req[w].form].st = "consumed"
    /\ \A f \in Forms : /\ form'[f].user = form[f].user
                        /\ f # req[w].form => form'[f] = form[f]
                        /\ form'[f].st # "none" =>
                              form'[f].user # None /\ OpenID \in form'[f].scope
    /\ formLock' \in [Forms -> Workers \cup {None}]
    /\ req' \in [Workers -> RequestState]
    /\ req'[w].pc = "idle"
    /\ \A v \in Workers \ {w} : req'[v] = req[v]

\* Answering a form ends the one request that holds it.
LEMMA AnswerFacts ==
    ASSUME ConsentInv, NEW w \in Workers, req[w].pc \in {"deny", "commit"},
           form' = [form EXCEPT ![req[w].form].st = "consumed"],
           formLock' = [formLock EXCEPT ![req[w].form] = None],
           session' = session, End(w)
    PROVE  AnswerEnds(w) /\ AnsweredFormsHeld' /\ RequestsHaveUsers'
<1> USE DEF ConsentInv
<1>1. /\ req[w].form \in Forms /\ formLock[req[w].form] = w
      /\ form[req[w].form].st \in {"open", "expired"}
    BY DEF AnsweredFormsHeld
<1>2. /\ form' \in [Forms -> FormRow]
      /\ form'[req[w].form].st = "consumed"
      /\ \A f \in Forms : /\ form'[f].user = form[f].user
                          /\ form'[f].scope = form[f].scope
                          /\ f # req[w].form => form'[f] = form[f]
    BY <1>1 DEF TypeOK, FormRow
<1>3. /\ formLock' \in [Forms -> Workers \cup {None}]
      /\ \A f \in Forms : f # req[w].form => formLock'[f] = formLock[f]
    BY <1>1 DEF TypeOK
<1>4. /\ req' \in [Workers -> RequestState]
      /\ req'[w].pc = "idle"
      /\ \A v \in Workers \ {w} : req'[v] = req[v]
    BY EndState
<1>5. AnsweredFormsHeld'
  <2>1. \A v \in Workers \ {w} : req[v].pc \in {"deny", "commit"} => req[v].form # req[w].form
    BY <1>1 DEF AnsweredFormsHeld
  <2> QED
    BY <1>2, <1>3, <1>4, <2>1 DEF AnsweredFormsHeld
<1>6. RequestsHaveUsers'
    BY <1>4 DEF RequestsHaveUsers
<1>7. \A f \in Forms : form'[f].st # "none" => form'[f].user # None /\ OpenID \in form'[f].scope
    BY <1>1, <1>2 DEF TypeOK
<1> QED
    BY <1>2, <1>3, <1>4, <1>5, <1>6, <1>7 DEF AnswerEnds

\* A denial consumes the form and grants nothing.
LEMMA DenyConsentStep ==
    ASSUME ConsentInv, NEW w \in Workers, DenyConsent(w)
    PROVE  ConsentInv'
<1> USE DEF ConsentInv
<1>1. /\ req[w].pc = "deny" /\ End(w)
      /\ form' = [form EXCEPT ![req[w].form].st = "consumed"]
      /\ formLock' = [formLock EXCEPT ![req[w].form] = None]
      /\ UNCHANGED <<required, session, consent, code, approved>>
    BY DEF DenyConsent
<1>2. AnswerEnds(w) /\ AnsweredFormsHeld' /\ RequestsHaveUsers'
    BY <1>1, AnswerFacts
<1>3. TypeOK'
    BY <1>1, <1>2 DEF TypeOK, AnswerEnds
<1>4. ConsentsApproved' /\ CodesApproved'
    BY <1>1, <1>2 DEF ConsentsApproved, CodesApproved, Unused, AnswerEnds
<1>5. OneCodePerForm'
  <2>1. \A d \in Codes : code[d].form \in Forms \cup {None}
    BY DEF TypeOK, CodeRow
  <2>2. \A f \in Forms : form[f].st = "consumed" => form'[f].st = "consumed"
    BY <1>2 DEF AnswerEnds
  <2>3. \A f \in Forms : form'[f].user = form[f].user
    BY <1>2 DEF AnswerEnds
  <2> QED
    BY <1>1, <2>1, <2>2, <2>3 DEF OneCodePerForm
<1> QED
    BY <1>2, <1>3, <1>4, <1>5

\* The form was not consumed, so no code names it, and now this one does.
LEMMA CommitConsentStep ==
    ASSUME ConsentInv, NEW w \in Workers, NEW c \in Codes, CommitConsent(w, c)
    PROVE  ConsentInv'
<1> USE DEF ConsentInv
<1> DEFINE u == req[w].user
           f == req[w].form
           new == [user |-> u, scope |-> req[w].scope, form |-> f]
<1>1. /\ req[w].pc = "commit" /\ End(w)
      /\ form' = [form EXCEPT ![req[w].form].st = "consumed"]
      /\ formLock' = [formLock EXCEPT ![req[w].form] = None]
      /\ UNCHANGED <<required, session>>
      /\ consent' = [consent EXCEPT ![u] = req[w].granted \cup req[w].scope]
      /\ approved' = [approved EXCEPT ![u] = approved[u] \cup req[w].scope]
      /\ code' = [code EXCEPT ![c] = new]
    BY DEF CommitConsent, MergeScopes
<1>2. /\ u \in Users /\ f \in Forms /\ form[f].st \in {"open", "expired"}
      /\ form[f].user = u /\ form[f].scope = req[w].scope
      /\ req[w].granted \subseteq approved[u]
    BY <1>1 DEF RequestsHaveUsers, AnsweredFormsHeld, ConsentsApproved
<1>3. /\ req[w].scope \in SUBSET Scopes /\ req[w].granted \in SUBSET Scopes
      /\ OpenID \in req[w].scope
    BY <1>2 DEF TypeOK, RequestState
<1>4. new \in CodeRow
    BY <1>2, <1>3 DEF CodeRow
<1>5. /\ code' \in [Codes -> CodeRow]
      /\ code'[c].user = u /\ code'[c].scope = req[w].scope /\ code'[c].form = f
      /\ \A d \in Codes \ {c} : code'[d] = code[d]
    BY <1>1, <1>4 DEF TypeOK
<1>6. /\ approved' \in [Users -> SUBSET Scopes] /\ consent' \in [Users -> SUBSET Scopes]
      /\ req[w].scope \subseteq approved'[u] /\ consent'[u] \subseteq approved'[u]
      /\ \A x \in Users : approved[x] \subseteq approved'[x]
      /\ \A x \in Users \ {u} : consent'[x] = consent[x]
    BY <1>1, <1>2, <1>3 DEF TypeOK
<1> HIDE DEF new
<1>7. AnswerEnds(w) /\ RequestsHaveUsers' /\ AnsweredFormsHeld'
    BY <1>1, AnswerFacts
<1>8. TypeOK'
  <2>1. \A d \in Codes : code'[d] # NoCode => code'[d].user # None /\ OpenID \in code'[d].scope
    BY <1>2, <1>3, <1>5 DEF TypeOK
  <2> QED
    BY <1>1, <1>5, <1>6, <1>7, <2>1 DEF TypeOK, AnswerEnds
<1>9. ConsentsApproved'
  <2>1. \A x \in Users : consent'[x] \subseteq approved'[x]
    BY <1>6 DEF ConsentsApproved
  <2>2. ASSUME NEW v \in Workers
        PROVE  /\ req'[v].pc = "store" => req'[v].scope \subseteq approved'[req'[v].user]
               /\ req'[v].pc = "commit" => req'[v].granted \subseteq approved'[req'[v].user]
    <3>1. CASE v = w
      BY <1>7, <3>1 DEF AnswerEnds
    <3>2. CASE v # w
      <4>1. req'[v] = req[v]
        BY <1>7, <3>2 DEF AnswerEnds
      <4>2. req[v].pc # "idle" => approved[req[v].user] \subseteq approved'[req[v].user]
        BY <1>6 DEF RequestsHaveUsers
      <4> QED
        BY <4>1, <4>2 DEF ConsentsApproved
    <3> QED
      BY <3>1, <3>2
  <2> QED
    BY <2>1, <2>2 DEF ConsentsApproved
<1>10. CodesApproved'
  <2>1. \A d \in Codes \ {c} : ~Unused(d) => code[d].user \in Users
    BY DEF TypeOK, Unused, CodeRow
  <2> QED
    BY <1>2, <1>5, <1>6, <2>1 DEF CodesApproved, Unused
<1>11. OneCodePerForm'
  <2>1. \A d \in Codes : code[d].form # f
    BY <1>2 DEF OneCodePerForm
  <2>2. \A d \in Codes : code[d].form \in Forms \cup {None}
    BY DEF TypeOK, CodeRow
  <2>3. \A g \in Forms : form[g].st = "consumed" => form'[g].st = "consumed"
    BY <1>7 DEF AnswerEnds
  <2>4. form'[f].st = "consumed" /\ \A g \in Forms : form'[g].user = form[g].user
    BY <1>7 DEF AnswerEnds
  <2>5. \A d \in Codes \ {c} : code'[d].form # None =>
            form'[code'[d].form].st = "consumed" /\ code'[d].user = form'[code'[d].form].user
    BY <1>5, <2>2, <2>3, <2>4 DEF OneCodePerForm
  <2>6. \A d, e \in Codes : code'[d].form # None /\ code'[e].form = code'[d].form => d = e
    BY <1>5, <2>1 DEF OneCodePerForm
  <2> QED
    BY <1>2, <1>5, <2>4, <2>5, <2>6 DEF OneCodePerForm
<1> QED
    BY <1>7, <1>8, <1>9, <1>10, <1>11

-----------------------------------------------------------------------------
(* Sessions, policy and the clock *)

\* Logins, revocations, policy changes and expiry grant nothing.
LEMMA EnvironmentStep ==
    ASSUME ConsentInv, Environment
    PROVE  ConsentInv'
<1> USE DEF ConsentInv
<1>1. CASE \E f \in Forms : ExpireForm(f)
  <2>1. /\ UNCHANGED <<required, session, consent, formLock, code, req, approved>>
        /\ form' \in [Forms -> FormRow]
        /\ \A f \in Forms : /\ form'[f].user = form[f].user /\ form'[f].scope = form[f].scope
                            /\ \/ form'[f].st = form[f].st
                               \/ form[f].st = "open" /\ form'[f].st = "expired"
    BY <1>1 DEF ExpireForm, TypeOK, FormRow
  <2>2. TypeOK'
    BY <2>1 DEF TypeOK
  <2>3. RequestsHaveUsers' /\ ConsentsApproved' /\ CodesApproved'
    BY <2>1 DEF RequestsHaveUsers, ConsentsApproved, CodesApproved, Unused
  <2>4. AnsweredFormsHeld'
    BY <2>1 DEF AnsweredFormsHeld
  <2>5. OneCodePerForm'
    BY <2>1 DEF OneCodePerForm, TypeOK, CodeRow
  <2> QED
    BY <2>2, <2>3, <2>4, <2>5
<1>2. CASE SetPolicy \/ (\E s \in Sessions :
              \/ VerifySession(s) \/ RevokeSession(s) \/ \E u \in Users : CreateSession(s, u))
  <2>1. /\ UNCHANGED <<consent, form, formLock, code, req, approved>>
        /\ required' \in BOOLEAN
        /\ session' \in [Sessions -> SessionRow]
        /\ \A s \in Sessions : session'[s].st # "none" => session'[s].user \in Users
    <3>1. CASE SetPolicy
      BY <3>1 DEF SetPolicy, TypeOK, RequestsHaveUsers
    <3>2. ASSUME NEW s \in Sessions, VerifySession(s)
          PROVE  <2>1
      <4> DEFINE q == [session[s] EXCEPT !.mfa = TRUE]
      <4>1. /\ UNCHANGED <<required, consent, form, formLock, code, req, approved>>
            /\ session' = [session EXCEPT ![s] = q] /\ session[s].st # "none"
        BY <3>2 DEF VerifySession
      <4>2. session \in [Sessions -> SessionRow] /\ required \in BOOLEAN
        BY DEF TypeOK
      <4>3. q \in SessionRow /\ q.user = session[s].user
        BY <4>2 DEF SessionRow
      <4> HIDE DEF q
      <4> QED
        BY <4>1, <4>2, <4>3 DEF RequestsHaveUsers
    <3>4. ASSUME NEW s \in Sessions, RevokeSession(s)
          PROVE  <2>1
      <4> DEFINE q == [session[s] EXCEPT !.st = "revoked"]
      <4>1. /\ UNCHANGED <<required, consent, form, formLock, code, req, approved>>
            /\ session' = [session EXCEPT ![s] = q] /\ session[s].st # "none"
        BY <3>4 DEF RevokeSession
      <4>2. session \in [Sessions -> SessionRow] /\ required \in BOOLEAN
        BY DEF TypeOK
      <4>3. q \in SessionRow /\ q.user = session[s].user
        BY <4>2 DEF SessionRow
      <4> HIDE DEF q
      <4> QED
        BY <4>1, <4>2, <4>3 DEF RequestsHaveUsers
    <3>3. ASSUME NEW s \in Sessions, NEW u \in Users, CreateSession(s, u)
          PROVE  <2>1
      BY <3>3 DEF CreateSession, TypeOK, RequestsHaveUsers, SessionRow
    <3> QED
      BY <1>2, <3>1, <3>2, <3>3, <3>4
  <2>2. TypeOK'
    BY <2>1 DEF TypeOK
  <2>3. RequestsHaveUsers' /\ ConsentsApproved' /\ CodesApproved' /\ AnsweredFormsHeld'
    BY <2>1 DEF RequestsHaveUsers, ConsentsApproved, CodesApproved, Unused, AnsweredFormsHeld
  <2>4. OneCodePerForm'
    BY <2>1 DEF OneCodePerForm
  <2> QED
    BY <2>2, <2>3, <2>4
<1> QED
    BY <1>1, <1>2 DEF Environment

-----------------------------------------------------------------------------
(* The theorems *)

\* Before any request the invariant holds.
LEMMA ConsentInit == Init => ConsentInv
<1> SUFFICES ASSUME Init PROVE ConsentInv
    OBVIOUS
<1>1. TypeOK
    BY DEF Init, TypeOK, NoSession, NoForm, NoCode, NoRequest, SessionRow, FormRow, CodeRow,
           RequestState
<1>2. RequestsHaveUsers /\ ConsentsApproved /\ AnsweredFormsHeld
    BY DEF Init, RequestsHaveUsers, ConsentsApproved, AnsweredFormsHeld, NoSession, NoRequest
<1>3. CodesApproved /\ OneCodePerForm
    BY DEF Init, CodesApproved, OneCodePerForm, Unused, NoCode
<1> QED
    BY <1>1, <1>2, <1>3 DEF ConsentInv

\* ConsentInv is inductive.
LEMMA ConsentStep == ConsentInv /\ [Next]_vars => ConsentInv'
<1> SUFFICES ASSUME ConsentInv, [Next]_vars PROVE ConsentInv'
    OBVIOUS
<1>1. ASSUME NEW w \in Workers, Request(w) PROVE ConsentInv'
    BY <1>1, AuthorizeStep, CheckPolicyStep, LookupConsentStep, StoreCodeStep,
       CommitConsentStep, ShowConsentScreenStep, SubmitConsentStep, LockFormStep,
       DenyConsentStep, FailRequestStep DEF Request
<1>2. CASE UNCHANGED vars
    BY <1>2 DEF vars, ConsentInv, TypeOK, RequestsHaveUsers, ConsentsApproved,
                AnsweredFormsHeld, CodesApproved, OneCodePerForm, Unused
<1> QED
    BY <1>1, <1>2, EnvironmentStep DEF Next

\* Authorizations, submissions and what happens around them keep ConsentInv,
\* however the requests interleave.
THEOREM ConsentInvariant == Spec => []ConsentInv
<1> QED
    BY ConsentInit, ConsentStep, PTL DEF Spec

\* A code carries approved scopes only, for any scopes and requests.
THEOREM ApprovedOnly == Spec => []CodesApproved
<1>1. ConsentInv => CodesApproved
    BY DEF ConsentInv
<1> QED
    BY <1>1, ConsentInvariant, PTL

\* A consent screen yields one code, for however many concurrent submissions.
THEOREM SingleCode == Spec => []OneCodePerForm
<1>1. ConsentInv => OneCodePerForm
    BY DEF ConsentInv
<1> QED
    BY <1>1, ConsentInvariant, PTL

\* Granted scopes are forgotten only where two approvals of the user overlap.
THEOREM ConsentsKept == Spec => GrantsLostByOverlapOnly
<1>1. ASSUME ConsentInv, [Next]_vars
      PROVE  [\A u \in Users :
                \/ consent[u] \subseteq consent'[u]
                \/ \E w \in Workers : /\ req[w].pc = "commit" /\ req[w].user = u
                                      /\ req[w].granted # consent[u]]_vars
  <2> SUFFICES ASSUME NEW u \in Users, ~(consent[u] \subseteq consent'[u])
               PROVE  \E w \in Workers : /\ req[w].pc = "commit" /\ req[w].user = u
                                         /\ req[w].granted # consent[u]
    OBVIOUS
  <2>1. PICK w \in Workers, c \in Codes : CommitConsent(w, c)
    BY <1>1 DEF Next, vars, Request, Environment, Authorize, CheckPolicy, LookupConsent,
                StoreAuthorizationCode, ShowConsentScreen, SubmitConsent, LockForm,
                DenyConsent, FailRequest, CreateSession, VerifySession, RevokeSession,
                ExpireForm, SetPolicy
  <2>2. /\ req[w].pc = "commit"
        /\ consent' = [consent EXCEPT ![req[w].user] = req[w].granted \cup req[w].scope]
    BY <2>1 DEF CommitConsent, MergeScopes
  <2>3. req[w].user = u /\ consent'[u] = req[w].granted \cup req[w].scope
    BY <1>1, <2>2 DEF ConsentInv, TypeOK
  <2> QED
    BY <2>2, <2>3
<1> QED
    BY <1>1, ConsentInvariant, PTL DEF Spec, GrantsLostByOverlapOnly
=============================================================================
