------------------------------ MODULE SamlSso ------------------------------
(***************************************************************************)
(* SAML web browser SSO for one service provider: authentication requests, *)
(* their completion by a logged-in user and the callback that answers them *)
(* (backend/internal/samlidp/storage.go, continueSAML in                   *)
(* backend/internal/httpapi/saml_admin.go).                                *)
(*                                                                         *)
(* The SAML library parses and validates requests, calls the storage and   *)
(* builds the signed response; it is modelled by the storage calls it      *)
(* makes.  Each of the two transactions locks the request row: lock and    *)
(* read are one step, the commit another.  ACS URL, binding, relay state   *)
(* and attributes are copied from row to row and are left out.             *)
(***************************************************************************)
EXTENDS Naturals, FiniteSets

CONSTANTS Workers,   \* browser requests in progress at the same time
          Users,
          Messages,  \* IDs of AuthnRequests the service provider sends
          Rows,      \* request keys of saml_authn_requests
          None

ASSUME SsoConstants == None \notin Workers \cup Users \cup Messages \cup Rows

VARIABLES enabled,   \* the application is enabled
          assigned,  \* users assigned to it, directly or through a group
          active,    \* active users
          row,       \* rows of saml_authn_requests
          expired,   \* rows whose expires_at has passed
          lock,      \* the transaction that holds a row
          req,       \* browser requests in progress
          cleared,   \* history: <<row, user>> with a successful assignment check
          answers    \* history: the number of responses sent for each row

vars == <<enabled, assigned, active, row, expired, lock, req, cleared, answers>>

NoRow == [st |-> "none", msg |-> None, user |-> None]
NoRequest == [pc |-> "idle", row |-> None, user |-> None]

\* The columns of a stored request and the state of a browser request.
Columns == [st : {"none", "open", "completed", "consumed"}, msg : Messages \cup {None},
            user : Users \cup {None}]
RequestState == [pc : {"idle", "finalize", "check", "complete", "callback", "consume", "userinfo"},
                 row : Rows \cup {None}, user : Users \cup {None}]

TypeOK ==
    /\ enabled \in BOOLEAN
    /\ assigned \subseteq Users
    /\ active \subseteq Users
    /\ row \in [Rows -> Columns]
    /\ expired \subseteq Rows
    /\ lock \in [Rows -> Workers \cup {None}]
    /\ req \in [Workers -> RequestState]
    /\ cleared \subseteq Rows \X Users
    /\ answers \in [Rows -> Nat]

Init ==
    /\ enabled = TRUE
    /\ assigned \in SUBSET Users
    /\ active = Users
    /\ row = [r \in Rows |-> NoRow]
    /\ expired = {}
    /\ lock = [r \in Rows |-> None]
    /\ req = [w \in Workers |-> NoRequest]
    /\ cleared = {}
    /\ answers = [r \in Rows |-> 0]

-----------------------------------------------------------------------------
End(w) == req' = [req EXCEPT ![w] = NoRequest]
Goto(w, pc) == req' = [req EXCEPT ![w].pc = pc]
Released(w) == [r \in Rows |-> IF lock[r] = w THEN None ELSE lock[r]]

AnyMessage(m) == TRUE
NewMessage(m) == \A r \in Rows : row[r].msg # m

\* CreateAuthRequest for a request GetEntityByID knows: the request ID is unique,
\* so a replayed AuthnRequest is not stored again.
CreateAuthRequest(m, r) ==
    /\ enabled
    /\ row[r] = NoRow
    /\ NewMessage(m)
    /\ row' = [row EXCEPT ![r] = [st |-> "open", msg |-> m, user |-> None]]
    /\ UNCHANGED <<enabled, assigned, active, expired, lock, req, cleared, answers>>

\* Five minutes have passed.
ExpireRequest(r) ==
    /\ row[r].st \in {"open", "completed"} /\ r \notin expired
    /\ expired' = expired \cup {r}
    /\ UNCHANGED <<enabled, assigned, active, row, lock, req, cleared, answers>>

\* continueSAML: the principal of a session of user u names request r.  The
\* transaction begins here, and its now() is what expires_at is compared with.
ContinueSAML(w, u, r) ==
    /\ req[w].pc = "idle"
    /\ u \in active
    /\ row[r] # NoRow /\ r \notin expired
    /\ req' = [req EXCEPT ![w] = [pc |-> "finalize", row |-> r, user |-> u]]
    /\ UNCHANGED <<enabled, assigned, active, row, expired, lock, cleared, answers>>

CompletedAccepted(r) == row[r].st \in {"open", "completed"}
Finalizable(r) == row[r].st = "open"

\* FinalizeAuthRequest: lock a request that is open ...
FinalizeLock(w) ==
    /\ req[w].pc = "finalize"
    /\ lock[req[w].row] = None
    /\ IF Finalizable(req[w].row)
       THEN lock' = [lock EXCEPT ![req[w].row] = w] /\ Goto(w, "check")
       ELSE End(w) /\ UNCHANGED lock
    /\ UNCHANGED <<enabled, assigned, active, row, expired, cleared, answers>>

Anybody(u) == enabled
Allowed(u) == enabled /\ u \in assigned

\* ... check the application and the assignment ...
FinalizeCheck(w) ==
    /\ req[w].pc = "check"
    /\ IF Allowed(req[w].user)
       THEN Goto(w, "complete") /\ UNCHANGED lock
       ELSE End(w) /\ lock' = Released(w)
    /\ cleared' = IF enabled /\ req[w].user \in assigned
                  THEN cleared \cup {<<req[w].row, req[w].user>>} ELSE cleared
    /\ UNCHANGED <<enabled, assigned, active, row, expired, answers>>

\* ... and record the user.
FinalizeCommit(w) ==
    /\ req[w].pc = "complete"
    /\ row' = [row EXCEPT ![req[w].row].st = "completed", ![req[w].row].user = req[w].user]
    /\ lock' = Released(w)
    /\ End(w)
    /\ UNCHANGED <<enabled, assigned, active, expired, cleared, answers>>

\* The browser follows the callback URL, any number of times.
Callback(w, r) ==
    /\ req[w].pc = "idle"
    /\ row[r] # NoRow /\ r \notin expired
    /\ req' = [req EXCEPT ![w] = [pc |-> "callback", row |-> r, user |-> None]]
    /\ UNCHANGED <<enabled, assigned, active, row, expired, lock, cleared, answers>>

ConsumedAccepted(r) == row[r].st \in {"completed", "consumed"}
UncompletedAccepted(r) == row[r].st \in {"open", "completed"}
Answerable(r) == row[r].st = "completed"

\* AuthRequestByID: lock a completed request that was not consumed ...
CallbackLock(w) ==
    /\ req[w].pc = "callback"
    /\ lock[req[w].row] = None
    /\ IF Answerable(req[w].row)
       THEN /\ lock' = [lock EXCEPT ![req[w].row] = w]
            /\ req' = [req EXCEPT ![w].pc = "consume", ![w].user = row[req[w].row].user]
       ELSE End(w) /\ UNCHANGED lock
    /\ UNCHANGED <<enabled, assigned, active, row, expired, cleared, answers>>

\* ... and consume it before anything is sent.
CallbackCommit(w) ==
    /\ req[w].pc = "consume"
    /\ row' = [row EXCEPT ![req[w].row].st = "consumed"]
    /\ lock' = Released(w)
    /\ Goto(w, "userinfo")
    /\ UNCHANGED <<enabled, assigned, active, expired, cleared, answers>>

\* The library loads the attributes of the user and answers, unless
\* SetUserinfoWithUserID finds the user inactive.
Answer(w) ==
    /\ req[w].pc = "userinfo"
    /\ req[w].user \in active
    /\ answers' = [answers EXCEPT ![req[w].row] = @ + 1]
    /\ End(w)
    /\ UNCHANGED <<enabled, assigned, active, row, expired, lock, cleared>>

\* A request fails or is refused at any point; its transaction rolls back.
FailRequest(w) ==
    /\ req[w].pc # "idle"
    /\ lock' = Released(w)
    /\ End(w)
    /\ UNCHANGED <<enabled, assigned, active, row, expired, cleared, answers>>

\* updateApplication and updateSAMLApplication enable and disable.
UpdateApplication ==
    /\ enabled' = ~enabled
    /\ UNCHANGED <<assigned, active, row, expired, lock, req, cleared, answers>>

\* assignApplicationUser and removeApplicationUser; a user who is assigned through
\* a group too stays assigned.
ChangeAssignment(u) ==
    /\ assigned' \in {assigned, assigned \cup {u}, assigned \ {u}}
    /\ UNCHANGED <<enabled, active, row, expired, lock, req, cleared, answers>>

\* assignApplicationGroup, or a new member of an assigned group: the users us gain
\* the application together.
GainAssignment(us) ==
    /\ assigned' = assigned \cup us
    /\ UNCHANGED <<enabled, active, row, expired, lock, req, cleared, answers>>

\* removeApplicationGroup, deleteGroup and removeGroupMember: one DELETE, and the
\* users us who had the application through that group only lose it.
LoseAssignment(us) ==
    /\ assigned' = assigned \ us
    /\ UNCHANGED <<enabled, active, row, expired, lock, req, cleared, answers>>

\* updateUser activates and deactivates accounts.
UpdateUser(u) ==
    /\ active' \in {active \cup {u}, active \ {u}}
    /\ UNCHANGED <<enabled, assigned, row, expired, lock, req, cleared, answers>>

Request(w) ==
    \/ \E r \in Rows : Callback(w, r) \/ \E u \in Users : ContinueSAML(w, u, r)
    \/ FinalizeLock(w) \/ FinalizeCheck(w) \/ FinalizeCommit(w)
    \/ CallbackLock(w) \/ CallbackCommit(w) \/ Answer(w)
    \/ FailRequest(w)

Next ==
    \/ \E w \in Workers : Request(w)
    \/ \E r \in Rows : ExpireRequest(r) \/ \E m \in Messages : CreateAuthRequest(m, r)
    \/ UpdateApplication
    \/ \E u \in Users : ChangeAssignment(u) \/ UpdateUser(u)
    \/ \E us \in SUBSET Users : GainAssignment(us) \/ LoseAssignment(us)

Spec == Init /\ [][Next]_vars

-----------------------------------------------------------------------------
(* Properties *)

\* docs/saml.md, Security invariants: replays are refused.  Neither a replayed
\* AuthnRequest nor a callback that is followed twice, even at the same time,
\* yields a second response to a request.
OneAnswerPerMessage ==
    \A q, r \in Rows : answers[q] > 0 /\ answers[r] > 0 /\ row[q].msg = row[r].msg
                          => q = r /\ answers[r] = 1

\* A request is completed once: the user it was completed for stays, whoever
\* else continues it at the same time.
SubjectFixed ==
    [][\A r \in Rows : row[r].user # None => row'[r].user = row[r].user]_vars

\* Every response names the user who completed the request, and for that very
\* request FinalizeAuthRequest has found this user assigned to the enabled
\* application.
SubjectCleared ==
    \A w \in Workers : req[w].pc = "userinfo" =>
        /\ req[w].user = row[req[w].row].user
        /\ <<req[w].row, req[w].user>> \in cleared

-----------------------------------------------------------------------------
(* The inductive invariant behind the safety properties *)

\* A row stands for one message, and for the user who completed it, who was
\* found to be assigned.
RowsConsistent ==
    \A r \in Rows :
        /\ row[r].st = "none" => row[r] = NoRow
        /\ row[r].st = "open" => row[r].user = None
        /\ row[r].st # "none" => /\ row[r].msg # None
                                 /\ \A q \in Rows : row[q].msg = row[r].msg => q = r
        /\ row[r].st \in {"completed", "consumed"} => <<r, row[r].user>> \in cleared

\* A transaction holds the row it has read, which therefore is as it was.
ReadRow(w) ==
    /\ req[w].pc # "idle" => req[w].row \in Rows
    /\ req[w].pc \in {"finalize", "check", "complete"} => req[w].user \in Users
    /\ req[w].pc \in {"check", "complete"} =>
          lock[req[w].row] = w /\ row[req[w].row].st = "open"
    /\ req[w].pc = "complete" => <<req[w].row, req[w].user>> \in cleared
    /\ req[w].pc = "consume" =>
          /\ lock[req[w].row] = w /\ row[req[w].row].st = "completed"
          /\ req[w].user = row[req[w].row].user

ReadRowsHeld == \A w \in Workers : ReadRow(w)

\* A row is consumed by one callback, before that callback answers it.
ConsumedOnce ==
    /\ \A w \in Workers : req[w].pc = "userinfo" =>
          /\ row[req[w].row].st = "consumed"
          /\ req[w].user = row[req[w].row].user
          /\ answers[req[w].row] = 0
          /\ \A v \in Workers \ {w} : req[v].pc = "userinfo" => req[v].row # req[w].row
    /\ \A r \in Rows : answers[r] > 0 => row[r].st = "consumed" /\ answers[r] = 1

SsoInv ==
    /\ TypeOK
    /\ RowsConsistent
    /\ ReadRowsHeld
    /\ ConsumedOnce
=============================================================================
