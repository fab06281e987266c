------------------------------ MODULE Accounts ------------------------------
(***************************************************************************)
(* One local account: password, lockout counter, activation and browser    *)
(* sessions (login, logout and session lookup in                           *)
(* backend/internal/httpapi/server.go, administration and password change  *)
(* in stage1.go, self-service in portal.go).                               *)
(*                                                                         *)
(* Every statement outside a transaction is a step of its own; the two     *)
(* transactions of the component (reset and change of a password) lock     *)
(* their rows in the same order and are one step each.  Passwords stand    *)
(* for themselves: hashing, cookies, CSRF tokens and auditing are left     *)
(* out.  The password policy and the MFA gates (module MfaFactors) only    *)
(* refuse requests, which FailRequest covers.                              *)
(***************************************************************************)
EXTENDS Naturals, FiniteSets

CONSTANTS Workers,     \* requests in progress at the same time
          Sessions,    \* session rows
          Passwords,   \* passwords that can be set or tried
          Threshold,   \* lockout_threshold of the security policy
          MaxFails,    \* bound on failed_logins
          MaxUncounted,\* bound on wrong passwords whose count failed
          MaxCutoffs,  \* bound on password resets and deactivations
          None

ASSUME AccountConstants ==
    /\ Threshold \in Nat \ {0}
    /\ MaxFails \in Nat /\ MaxUncounted \in Nat /\ MaxCutoffs \in Nat
    /\ None \notin Workers \cup Sessions \cup Passwords
    /\ IsFiniteSet(Workers)

VARIABLES
    user,       \* row of users and password_credentials
    session,    \* rows of sessions
    req,        \* requests in progress
    guesses,    \* history: wrong passwords answered since the counter was last
                \*          cleared or the lock last ran out
    uncounted,  \* history: those of them whose UPDATE of the counter failed
    cutoffs,    \* history: number of password resets and deactivations
    spared      \* history: sessions a cut-off could not reach

vars == <<user, session, req, guesses, uncounted, cutoffs, spared>>

NoRequest == [pc |-> "idle", pw |-> None, new |-> None, s |-> None, epoch |-> 0,
              guess |-> FALSE]

\* The rows of the account and of a session, and the state of a request.
UserRow == [active : BOOLEAN, pw : Passwords, mustChange : BOOLEAN,
            fails : 0..MaxFails, locked : BOOLEAN]
SessionRow == [st : {"none", "live", "revoked", "expired"}, epoch : 0..MaxCutoffs]
RequestState == [pc : {"idle", "failed", "insert", "clear", "revoke", "check", "change"},
                 pw : Passwords \cup {None}, new : Passwords \cup {None},
                 s : Sessions \cup {None}, epoch : 0..MaxCutoffs, guess : BOOLEAN]

TypeOK ==
    /\ user \in UserRow
    /\ session \in [Sessions -> SessionRow]
    /\ req \in [Workers -> RequestState]
    /\ guesses \in Nat
    /\ uncounted \in 0..MaxUncounted
    /\ cutoffs \in 0..MaxCutoffs
    /\ spared \subseteq Sessions

\* createUser: an active account whose password must be changed.
Init ==
    /\ \E p \in Passwords : user = [active |-> TRUE, pw |-> p, mustChange |-> TRUE,
                                    fails |-> 0, locked |-> FALSE]
    /\ session = [s \in Sessions |-> [st |-> "none", epoch |-> 0]]
    /\ req = [w \in Workers |-> NoRequest]
    /\ guesses = 0
    /\ uncounted = 0
    /\ cutoffs = 0
    /\ spared = {}

-----------------------------------------------------------------------------
(* Helpers *)

End(w) == req' = [req EXCEPT ![w] = NoRequest]

\* The condition of withPrincipalRaw and sessionPrincipal.
Usable(s) == session[s].st = "live" /\ user.active

\* UPDATE sessions SET revoked_at = now() WHERE ... AND revoked_at IS NULL.
RevokedAll == [s \in Sessions |-> IF session[s].st = "none" THEN session[s]
                                  ELSE [session[s] EXCEPT !.st = "revoked"]]

\* The columns a failed login writes.  The increment and the lock are one UPDATE
\* on the current row, so concurrent failures all count.
LockedLate == [user EXCEPT !.fails = @ + 1,
                           !.locked = @ \/ user.fails + 1 > Threshold]
FailureCounted == [user EXCEPT !.fails = @ + 1,
                               !.locked = @ \/ user.fails + 1 >= Threshold]

Decremented == [user EXCEPT !.fails = @ - 1, !.locked = FALSE]
Cleared == [user EXCEPT !.fails = 0, !.locked = FALSE]

CountAnew == guesses' = 0 /\ uncounted' = 0

-----------------------------------------------------------------------------
(* Login *)

\* The account is read once; the password is compared with the hash only if the
\* account is active and not locked.
Login(w, p) ==
    /\ req[w].pc = "idle"
    /\ LET open == user.active /\ ~user.locked IN
          req' = [req EXCEPT ![w] =
                    [NoRequest EXCEPT !.pw = p, !.epoch = cutoffs,
                       !.pc = IF open /\ p = user.pw THEN "insert" ELSE "failed",
                       !.guess = open /\ p # user.pw]]
    /\ UNCHANGED <<user, session, guesses, uncounted, cutoffs, spared>>

\* A refused attempt is counted, also one on a locked or inactive account.
RecordFailure(w) ==
    /\ req[w].pc = "failed"
    /\ user.fails < MaxFails
    /\ user' = FailureCounted
    /\ guesses' = IF req[w].guess THEN guesses + 1 ELSE guesses
    /\ End(w)
    /\ UNCHANGED <<session, uncounted, cutoffs, spared>>

\* The error of that UPDATE is ignored: the attempt is refused all the same, with
\* the counter and the lock as they were.  A request that ends before its UPDATE,
\* answered or not, is taken for one of these.
AnswerUncounted(w) ==
    /\ req[w].pc = "failed"
    /\ IF req[w].guess
       THEN /\ uncounted < MaxUncounted
            /\ guesses' = guesses + 1 /\ uncounted' = uncounted + 1
       ELSE UNCHANGED <<guesses, uncounted>>
    /\ End(w)
    /\ UNCHANGED <<user, session, cutoffs, spared>>

InsertSession(w, s) ==
    /\ req[w].pc = "insert"
    /\ session[s].st = "none"
    /\ session' = [session EXCEPT ![s] = [st |-> "live", epoch |-> req[w].epoch]]
    /\ spared' = IF req[w].epoch # cutoffs THEN spared \cup {s} ELSE spared
    /\ req' = [req EXCEPT ![w].pc = "clear"]
    /\ UNCHANGED <<user, guesses, uncounted, cutoffs>>

\* The counter and the lock are cleared, whatever happened meanwhile.
ClearFailures(w) ==
    /\ req[w].pc = "clear"
    /\ user' = Cleared
    /\ CountAnew
    /\ End(w)
    /\ UNCHANGED <<session, cutoffs, spared>>

\* locked_until passes; failed_logins stays as it is.
LockExpires ==
    /\ user.locked
    /\ user' = [user EXCEPT !.locked = FALSE]
    /\ CountAnew
    /\ UNCHANGED <<session, req, cutoffs, spared>>

-----------------------------------------------------------------------------
(* Sessions *)

\* logout, oauthLogout, revokeSession and revokeMySession.
RevokeSession(s) ==
    /\ session[s].st \in {"live", "expired"}
    /\ session' = [session EXCEPT ![s].st = "revoked"]
    /\ UNCHANGED <<user, req, guesses, uncounted, cutoffs, spared>>

\* revokeUserSessions and, for this user, revokeAllSessions.
RevokeUserSessions ==
    /\ session' = RevokedAll
    /\ UNCHANGED <<user, req, guesses, uncounted, cutoffs, spared>>

ExpireSession(s) ==
    /\ session[s].st = "live"
    /\ session' = [session EXCEPT ![s].st = "expired"]
    /\ UNCHANGED <<user, req, guesses, uncounted, cutoffs, spared>>

-----------------------------------------------------------------------------
(* Administration *)

UnlockUser ==
    /\ user' = Cleared
    /\ CountAnew
    /\ UNCHANGED <<session, req, cutoffs, spared>>

\* updateUser with active = false: the row is updated ...
DeactivateUser(w) ==
    /\ req[w].pc = "idle"
    /\ cutoffs < MaxCutoffs
    /\ user' = [user EXCEPT !.active = FALSE]
    /\ req' = [req EXCEPT ![w].pc = "revoke"]
    /\ cutoffs' = cutoffs + 1
    /\ UNCHANGED <<session, guesses, uncounted, spared>>

\* ... and the sessions are revoked by a statement whose failure is ignored.
RevokeAfterDeactivation(w) ==
    /\ req[w].pc = "revoke"
    /\ session' = RevokedAll
    /\ End(w)
    /\ UNCHANGED <<user, guesses, uncounted, cutoffs, spared>>

ActivateUser ==
    /\ user' = [user EXCEPT !.active = TRUE]
    /\ UNCHANGED <<session, req, guesses, uncounted, cutoffs, spared>>

SessionsKept == session
SessionsAfterReset == RevokedAll

\* resetUserPassword: password, forced change, lock and sessions in one
\* transaction.
ResetUserPassword(p) ==
    /\ cutoffs < MaxCutoffs
    /\ user' = [Cleared EXCEPT !.pw = p, !.mustChange = TRUE]
    /\ session' = SessionsAfterReset
    /\ CountAnew
    /\ cutoffs' = cutoffs + 1
    /\ UNCHANGED <<req, spared>>

-----------------------------------------------------------------------------
(* Changing the own password *)

Authenticate(w, s) ==
    /\ req[w].pc = "idle"
    /\ Usable(s)
    /\ req' = [req EXCEPT ![w].pc = "check", ![w].s = s]
    /\ UNCHANGED <<user, session, guesses, uncounted, cutoffs, spared>>

\* The current password is not verified.
ChangeUnverified(w, p, n) ==
    /\ req[w].pc = "check"
    /\ IF n # p
       THEN req' = [req EXCEPT ![w].pc = "change", ![w].pw = p, ![w].new = n,
                               ![w].epoch = cutoffs]
       ELSE End(w)
    /\ UNCHANGED <<user, session, guesses, uncounted, cutoffs, spared>>

\* changeOwnPassword: the current password is read and verified and the new one
\* checked against it, outside any transaction ...
ChangeOwnPassword(w, p, n) ==
    /\ req[w].pc = "check"
    /\ IF p = user.pw /\ n # p
       THEN req' = [req EXCEPT ![w].pc = "change", ![w].pw = p, ![w].new = n,
                               ![w].epoch = cutoffs]
       ELSE End(w)
    /\ UNCHANGED <<user, session, guesses, uncounted, cutoffs, spared>>

\* ... then a transaction overwrites the password and ends the forced change.
CommitPassword(w) ==
    /\ req[w].pc = "change"
    /\ user' = [user EXCEPT !.pw = req[w].new, !.mustChange = FALSE]
    /\ End(w)
    /\ UNCHANGED <<session, guesses, uncounted, cutoffs, spared>>

\* A request fails or is cancelled between two of its statements, or one of the
\* statements whose error is ignored fails.  (For a refused login that is
\* AnswerUncounted.)
FailRequest(w) ==
    /\ req[w].pc \notin {"idle", "failed"}
    /\ spared' = IF req[w].pc = "revoke"
                 THEN spared \cup {s \in Sessions : session[s].st = "live"}
                 ELSE spared
    /\ End(w)
    /\ UNCHANGED <<user, session, guesses, uncounted, cutoffs>>

-----------------------------------------------------------------------------
Request(w) ==
    \/ \E p \in Passwords : Login(w, p)
    \/ RecordFailure(w) \/ AnswerUncounted(w)
    \/ \E s \in Sessions : InsertSession(w, s) \/ Authenticate(w, s)
    \/ ClearFailures(w)
    \/ DeactivateUser(w) \/ RevokeAfterDeactivation(w)
    \/ \E p, n \in Passwords : ChangeOwnPassword(w, p, n)
    \/ CommitPassword(w)
    \/ FailRequest(w)

Environment ==
    \/ \E s \in Sessions : RevokeSession(s) \/ ExpireSession(s)
    \/ RevokeUserSessions
    \/ LockExpires \/ UnlockUser \/ ActivateUser
    \/ \E p \in Passwords : ResetUserPassword(p)

Next == (\E w \in Workers : Request(w)) \/ Environment

Spec == Init /\ [][Next]_vars

-----------------------------------------------------------------------------
(* Properties *)

\* Lockout under concurrency: however many logins race, no more wrong passwords
\* than the threshold, plus one for each further request in progress, are
\* answered before the account locks.  The exception is a refusal whose UPDATE of
\* the counter failed, an error login ignores: each of these admits one more.
GuessesBounded == guesses <= Threshold - 1 + Cardinality(Workers) + uncounted

\* A password reset or a deactivation ends the sessions opened before it, also
\* after the account is active again.  Only a login in progress at that moment
\* or a revocation that failed half-way spares a session.
CutoffEndsSessions ==
    \A s \in Sessions : Usable(s) =>
        \/ session[s].epoch = cutoffs
        \/ s \in spared
        \/ \E w \in Workers : req[w].pc = "revoke"

\* A forced change of password ends only with a request that proved the very
\* password it replaces.  One that had proved an older password before an
\* administrator reset it is the exception: its commit overwrites the reset and
\* ends the change the reset demanded.  (Deactivations count among the cut-offs.)
ForcedChangeProven ==
    [][user.mustChange /\ ~user'.mustChange =>
          \E w \in Workers : /\ req[w].pc = "change"
                             /\ req[w].pw = user.pw \/ req[w].epoch < cutoffs]_vars

-----------------------------------------------------------------------------
(* The inductive invariant behind the safety properties *)

\* Requests that compared a wrong password and have not answered yet.
Guessing == {w \in Workers : req[w].pc = "failed" /\ req[w].guess}

\* An account that is not locked has counted fewer guesses than the threshold.
\* Once it is locked no request starts to guess, so a guess answered then is one
\* that was in progress before.
GuessesInProgress ==
    /\ guesses <= user.fails + uncounted
    /\ ~user.locked => guesses < Threshold + uncounted
    /\ guesses + Cardinality(Guessing) <= Threshold - 1 + Cardinality(Workers) + uncounted

\* CutoffEndsSessions without regard to the account's activation, which may
\* come back.
OldSessionsEnded ==
    \A s \in Sessions : session[s].st = "live" =>
        \/ session[s].epoch = cutoffs
        \/ s \in spared
        \/ \E w \in Workers : req[w].pc = "revoke"

\* While a change of password is demanded, no other change has been committed
\* since the last reset, so a password proved since then is the current one.
ChangesProven ==
    \A w \in Workers :
        /\ req[w].epoch <= cutoffs
        /\ req[w].pc = "change" =>
              /\ req[w].new \in Passwords
              /\ user.mustChange => req[w].pw = user.pw \/ req[w].epoch < cutoffs

AccountsInv ==
    /\ TypeOK
    /\ GuessesInProgress
    /\ OldSessionsEnded
    /\ ChangesProven
=============================================================================
