--------------------------- MODULE AccountsProofs ---------------------------
(***************************************************************************)
(* Theorems about Accounts for any number of requests, sessions, passwords *)
(* and any lockout threshold: the three properties of the account follow   *)
(* from AccountsInv, whose conjuncts are kept one at a time.               *)
(***************************************************************************)
EXTENDS Accounts, FiniteSetTheorems, TLAPS

USE AccountConstants

\* What a step of one request does to the requests.
LEMMA RequestChanged ==
    ASSUME TypeOK, NEW w \in Workers, NEW r \in RequestState,
           req' = [req EXCEPT ![w] = r]
    PROVE  /\ req' \in [Workers -> RequestState]
           /\ req'[w] = r
           /\ \A v \in Workers \ {w} : req'[v] = req[v]
BY DEF TypeOK

\* The end of a request leaves the other requests alone.
LEMMA EndType ==
    ASSUME TypeOK, NEW w \in Workers, End(w)
    PROVE  /\ req' \in [Workers -> RequestState]
           /\ req'[w] = NoRequest
           /\ \A v \in Workers \ {w} : req'[v] = req[v]
<1>1. NoRequest \in RequestState
    BY DEF NoRequest, RequestState
<1> QED
    BY <1>1, RequestChanged DEF End

\* What a login has learnt when it ends: it guesses only at an unlocked, active
\* account, and notes how many cutoffs there were.
LEMMA LoginState ==
    ASSUME TypeOK, NEW w \in Workers, NEW p \in Passwords, Login(w, p)
    PROVE  /\ req' \in [Workers -> RequestState]
           /\ \A v \in Workers \ {w} : req'[v] = req[v]
           /\ req'[w].pc \in {"insert", "failed"}
           /\ req'[w].epoch = cutoffs
           /\ req'[w].guess => user.active /\ ~user.locked
<1> DEFINE open == user.active /\ ~user.locked
           step == IF open /\ p = user.pw THEN "insert" ELSE "failed"
           wrong == open /\ p # user.pw
           r == [NoRequest EXCEPT !.pw = p, !.epoch = cutoffs, !.pc = step, !.guess = wrong]
<1>1. req' = [req EXCEPT ![w] = r]
    BY Zenon DEF Login
<1>2. step \in {"insert", "failed"} /\ wrong \in BOOLEAN /\ (wrong => user.active /\ ~user.locked)
    OBVIOUS
<1>3. cutoffs \in 0..MaxCutoffs
    BY DEF TypeOK
<1> HIDE DEF step, wrong
<1>4. NoRequest \in RequestState
    BY DEF NoRequest, RequestState
<1>5. r \in RequestState /\ r.pc = step /\ r.epoch = cutoffs /\ r.guess = wrong
    BY <1>2, <1>3, <1>4 DEF RequestState
<1> HIDE DEF r
<1> QED
    BY <1>1, <1>2, <1>5, RequestChanged


\* How a handler goes on to its next statement.
LEMMA GotoState ==
    ASSUME TypeOK, NEW w \in Workers,
           NEW pc \in {"clear", "revoke", "check", "change"},
           req' = [req EXCEPT ![w].pc = pc]
    PROVE  /\ req' \in [Workers -> RequestState]
           /\ \A v \in Workers \ {w} : req'[v] = req[v]
           /\ req'[w].pc = pc
           /\ req'[w].epoch = req[w].epoch
<1> DEFINE r == [req[w] EXCEPT !.pc = pc]
<1>1. req' = [req EXCEPT ![w] = r] /\ req[w] \in RequestState
    BY DEF TypeOK
<1>2. r \in RequestState /\ r.pc = pc /\ r.epoch = req[w].epoch
    BY <1>1 DEF RequestState
<1> HIDE DEF r
<1> QED
    BY <1>1, <1>2, RequestChanged

-----------------------------------------------------------------------------
(* The lockout *)

\* Requests in progress are finitely many.
LEMMA Guessers ==
    /\ Cardinality(Workers) \in Nat
    /\ IsFiniteSet(Guessing) /\ Cardinality(Guessing) \in Nat
    /\ Cardinality(Guessing) <= Cardinality(Workers)
BY FS_CardinalityType, FS_Subset DEF Guessing

\* The guesses in progress stay finitely many.
LEMMA GuessersNext ==
    /\ IsFiniteSet(Guessing') /\ Cardinality(Guessing') \in Nat
    /\ Cardinality(Guessing') <= Cardinality(Workers)
<1>1. Guessing' \in SUBSET Workers
    BY DEF Guessing
<1> QED
    BY <1>1, FS_CardinalityType, FS_Subset

\* A step that neither counts nor clears and lets no request start to guess.
LEMMA NoNewGuess ==
    ASSUME TypeOK, GuessesInProgress, guesses' = guesses, uncounted' = uncounted,
           user'.fails = user.fails, user'.locked = user.locked,
           Guessing' \subseteq Guessing
    PROVE  GuessesInProgress'
<1>1. Cardinality(Guessing') <= Cardinality(Guessing)
    BY Guessers, FS_Subset
<1> QED
    BY <1>1, Guessers, GuessersNext DEF GuessesInProgress, TypeOK

\* A step that clears the count.
LEMMA CountCleared ==
    ASSUME TypeOK, CountAnew, user'.fails \in Nat
    PROVE  GuessesInProgress'
BY Guessers, GuessersNext DEF GuessesInProgress, CountAnew

\* The request of w is not one that guesses after the step.
LEMMA OthersGuess ==
    ASSUME NEW w \in Workers, \A v \in Workers \ {w} : req'[v] = req[v],
           req'[w].pc # "failed"
    PROVE  Guessing' \subseteq Guessing \ {w}
BY DEF Guessing

\* A login starts to guess only while the account is open, when fewer guesses
\* than the threshold are counted, lost counts aside.
LEMMA LoginGuess ==
    ASSUME AccountsInv, NEW w \in Workers, NEW p \in Passwords, Login(w, p)
    PROVE  GuessesInProgress'
<1> USE DEF AccountsInv
<1>1. guesses' = guesses /\ uncounted' = uncounted /\ user' = user
    BY DEF Login
<1>2. CASE user.locked
  <2>1. req'[w].pc = "insert" \/ ~req'[w].guess
    BY <1>2, LoginState
  <2>2. Guessing' \subseteq Guessing
    BY <2>1, LoginState DEF Guessing
  <2> QED
    BY <1>1, <2>2, NoNewGuess
<1>3. CASE ~user.locked
    BY <1>1, <1>3, Guessers, GuessersNext DEF GuessesInProgress, TypeOK
<1> QED
    BY <1>2, <1>3

\* A counted guess was one in progress; the one that reaches the threshold
\* locks the account.
LEMMA CountedFailure ==
    ASSUME TypeOK
    PROVE  /\ user.fails < MaxFails => FailureCounted \in UserRow
           /\ FailureCounted.fails = user.fails + 1
           /\ ~FailureCounted.locked => ~user.locked /\ user.fails + 1 < Threshold
<1> DEFINE locked == user.locked \/ user.fails + 1 >= Threshold
           counted == [user EXCEPT !.fails = user.fails + 1, !.locked = locked]
<1>1. FailureCounted = counted
    BY Zenon DEF FailureCounted
<1>2. user \in UserRow /\ user.fails \in 0..MaxFails
    BY DEF TypeOK, UserRow
<1>3. locked \in BOOLEAN /\ (~locked => ~user.locked /\ user.fails + 1 < Threshold)
    BY <1>2
<1> HIDE DEF locked
<1>4. counted.fails = user.fails + 1 /\ counted.locked = locked
    BY <1>2 DEF UserRow
<1>5. ASSUME user.fails < MaxFails PROVE counted \in UserRow
  <2>1. user.fails + 1 \in 0..MaxFails
    BY <1>2, <1>5
  <2> QED
    BY <1>2, <1>3, <2>1 DEF UserRow
<1> QED
    BY <1>1, <1>3, <1>4, <1>5

\* A refusal that answers a guess takes it from those in progress.
LEMMA AnsweredGuess ==
    ASSUME TypeOK, NEW w \in Workers, req[w].pc = "failed", End(w),
           guesses' = IF req[w].guess THEN guesses + 1 ELSE guesses
    PROVE  guesses' + Cardinality(Guessing') <= guesses + Cardinality(Guessing)
<1>1. Guessing' \subseteq Guessing \ {w}
    BY EndType, OthersGuess DEF NoRequest
<1>2. Cardinality(Guessing') <= Cardinality(Guessing \ {w})
    BY <1>1, Guessers, FS_RemoveElement, FS_Subset
<1>3. Cardinality(Guessing \ {w}) =
          IF req[w].guess THEN Cardinality(Guessing) - 1 ELSE Cardinality(Guessing)
    BY Guessers, FS_RemoveElement DEF Guessing
<1> QED
    BY <1>2, <1>3, Guessers, GuessersNext DEF TypeOK

\* A recorded failure moves a guess from those in progress to those counted.
LEMMA FailureGuess ==
    ASSUME AccountsInv, NEW w \in Workers, RecordFailure(w)
    PROVE  GuessesInProgress'
<1> USE DEF AccountsInv
<1>1. /\ user \in UserRow
      /\ user' = FailureCounted
      /\ guesses' = IF req[w].guess THEN guesses + 1 ELSE guesses
      /\ uncounted' = uncounted
      /\ req[w].pc = "failed" /\ End(w)
    BY DEF RecordFailure, TypeOK
<1>2. /\ user'.fails = user.fails + 1
      /\ ~user'.locked => ~user.locked /\ user.fails + 1 < Threshold
    BY <1>1, CountedFailure
<1>3. guesses' + Cardinality(Guessing') <= guesses + Cardinality(Guessing)
    BY <1>1, AnsweredGuess
<1>4. /\ user.fails \in Nat /\ guesses \in Nat /\ uncounted \in Nat
      /\ guesses <= user.fails + uncounted
    BY <1>1 DEF UserRow, TypeOK, GuessesInProgress
<1> QED
    BY <1>1, <1>2, <1>3, <1>4, Guessers, GuessersNext DEF GuessesInProgress

\* A refusal that is not counted raises the bound by the guess it answers.
LEMMA UncountedGuess ==
    ASSUME AccountsInv, NEW w \in Workers, AnswerUncounted(w)
    PROVE  GuessesInProgress'
<1> USE DEF AccountsInv
<1>1. /\ user' = user /\ req[w].pc = "failed" /\ End(w)
      /\ guesses' = IF req[w].guess THEN guesses + 1 ELSE guesses
      /\ uncounted' = IF req[w].guess THEN uncounted + 1 ELSE uncounted
    BY DEF AnswerUncounted
<1>2. guesses' + Cardinality(Guessing') <= guesses + Cardinality(Guessing)
    BY <1>1, AnsweredGuess
<1>3. user.fails \in Nat /\ guesses \in Nat /\ uncounted \in Nat
    BY DEF UserRow, TypeOK
<1>4. /\ guesses' \in Nat /\ uncounted' \in Nat
      /\ guesses' - guesses = uncounted' - uncounted /\ uncounted <= uncounted'
    BY <1>1, <1>3
<1> QED
    BY <1>1, <1>2, <1>3, <1>4, Guessers, GuessersNext DEF GuessesInProgress

-----------------------------------------------------------------------------
(* The steps of a request *)

\* The UPDATE of all sessions leaves none live.
LEMMA SessionsRevoked ==
    ASSUME TypeOK
    PROVE  /\ RevokedAll \in [Sessions -> SessionRow]
           /\ \A s \in Sessions : RevokedAll[s].st # "live"
BY DEF RevokedAll, TypeOK, SessionRow

\* Clearing the failures unlocks the account and keeps its password.
LEMMA ClearedUser ==
    ASSUME TypeOK
    PROVE  /\ Cleared \in UserRow
           /\ Cleared.fails = 0 /\ ~Cleared.locked
           /\ Cleared.pw = user.pw /\ Cleared.mustChange = user.mustChange
<1>1. user \in UserRow /\ 0 \in 0..MaxFails
    BY DEF TypeOK
<1>2. Cleared \in UserRow
    BY <1>1 DEF Cleared, UserRow
<1> QED
    BY <1>1, <1>2 DEF Cleared, UserRow

\* Logging in writes nothing but its own request.
LEMMA LoginStep ==
    ASSUME AccountsInv, NEW w \in Workers, NEW p \in Passwords, Login(w, p)
    PROVE  AccountsInv'
<1> USE DEF AccountsInv
<1>1. UNCHANGED <<user, session, guesses, uncounted, cutoffs, spared>> /\ req[w].pc = "idle"
    BY DEF Login
<1>2. TypeOK'
    BY <1>1, LoginState DEF TypeOK
<1>3. OldSessionsEnded'
    BY <1>1, LoginState DEF OldSessionsEnded
<1>4. ChangesProven'
    BY <1>1, LoginState DEF ChangesProven, TypeOK
<1> QED
    BY <1>2, <1>3, <1>4, LoginGuess

\* A failed login counts one failure more, and locks at the threshold.
LEMMA RecordFailureStep ==
    ASSUME AccountsInv, NEW w \in Workers, RecordFailure(w)
    PROVE  AccountsInv'
<1> USE DEF AccountsInv
<1>1. /\ UNCHANGED <<session, uncounted, cutoffs, spared>> /\ user.fails < MaxFails
      /\ req[w].pc = "failed" /\ user' = FailureCounted /\ guesses' \in Nat
    BY DEF RecordFailure, TypeOK
<1>2. /\ req' \in [Workers -> RequestState] /\ req'[w] = NoRequest
      /\ \A v \in Workers \ {w} : req'[v] = req[v]
    BY EndType DEF RecordFailure
<1>3. user' \in UserRow
    BY <1>1, CountedFailure
<1>4. user'.pw = user.pw /\ user'.mustChange = user.mustChange
    BY <1>1 DEF FailureCounted, TypeOK, UserRow
<1>5. TypeOK'
    BY <1>1, <1>2, <1>3 DEF TypeOK
<1>6. OldSessionsEnded'
    BY <1>1, <1>2 DEF OldSessionsEnded
<1>7. ChangesProven'
    BY <1>1, <1>2, <1>4 DEF ChangesProven, NoRequest, TypeOK
<1> QED
    BY <1>5, <1>6, <1>7, FailureGuess

\* A failed login that is not counted changes the history only.
LEMMA AnswerUncountedStep ==
    ASSUME AccountsInv, NEW w \in Workers, AnswerUncounted(w)
    PROVE  AccountsInv'
<1> USE DEF AccountsInv
<1>1. UNCHANGED <<user, session, cutoffs, spared>> /\ req[w].pc = "failed" /\ End(w)
    BY DEF AnswerUncounted
<1>2. /\ req' \in [Workers -> RequestState] /\ req'[w] = NoRequest
      /\ \A v \in Workers \ {w} : req'[v] = req[v]
    BY <1>1, EndType
<1>3. guesses' \in Nat /\ uncounted' \in 0..MaxUncounted
  <2>1. guesses \in Nat /\ uncounted \in 0..MaxUncounted
    BY DEF TypeOK
  <2>2. CASE req[w].guess
    BY <2>1, <2>2 DEF AnswerUncounted
  <2>3. CASE ~req[w].guess
    BY <2>1, <2>3 DEF AnswerUncounted
  <2> QED
    BY <2>2, <2>3
<1>4. TypeOK'
    BY <1>1, <1>2, <1>3 DEF TypeOK
<1>5. OldSessionsEnded'
    BY <1>1, <1>2 DEF OldSessionsEnded
<1>6. ChangesProven'
    BY <1>1, <1>2 DEF ChangesProven, NoRequest, TypeOK
<1> QED
    BY <1>4, <1>5, <1>6, UncountedGuess

\* A new session carries the cutoff count its login read.
LEMMA InsertSessionStep ==
    ASSUME AccountsInv, NEW w \in Workers, NEW s \in Sessions, InsertSession(w, s)
    PROVE  AccountsInv'
<1> USE DEF AccountsInv
<1>1. /\ UNCHANGED <<user, guesses, uncounted, cutoffs>> /\ req[w].pc = "insert"
      /\ req' = [req EXCEPT ![w].pc = "clear"]
      /\ session' = [session EXCEPT ![s] = [st |-> "live", epoch |-> req[w].epoch]]
      /\ spared' = IF req[w].epoch # cutoffs THEN spared \cup {s} ELSE spared
    BY DEF InsertSession
<1>2. /\ req' \in [Workers -> RequestState] /\ req'[w].pc = "clear"
      /\ req'[w].epoch = req[w].epoch
      /\ \A v \in Workers \ {w} : req'[v] = req[v]
    BY <1>1, GotoState
<1>3. [st |-> "live", epoch |-> req[w].epoch] \in SessionRow
    BY DEF SessionRow, TypeOK, RequestState
<1>4. TypeOK'
    BY <1>1, <1>2, <1>3 DEF TypeOK
<1>5. GuessesInProgress'
    BY <1>1, <1>2, OthersGuess, NoNewGuess
<1>6. OldSessionsEnded'
    BY <1>1, <1>2, <1>3 DEF OldSessionsEnded, TypeOK
<1>7. ChangesProven'
    BY <1>1, <1>2 DEF ChangesProven
<1> QED
    BY <1>4, <1>5, <1>6, <1>7

\* The failures are cleared after the session was stored.
LEMMA ClearFailuresStep ==
    ASSUME AccountsInv, NEW w \in Workers, ClearFailures(w)
    PROVE  AccountsInv'
<1> USE DEF AccountsInv
<1>1. /\ UNCHANGED <<session, cutoffs, spared>> /\ req[w].pc = "clear"
      /\ user' = Cleared /\ CountAnew
    BY DEF ClearFailures
<1>2. /\ req' \in [Workers -> RequestState] /\ req'[w] = NoRequest
      /\ \A v \in Workers \ {w} : req'[v] = req[v]
    BY EndType DEF ClearFailures
<1>3. TypeOK'
    BY <1>1, <1>2, ClearedUser DEF TypeOK, CountAnew
<1>4. GuessesInProgress'
    BY <1>1, ClearedUser, CountCleared
<1>5. OldSessionsEnded'
    BY <1>1, <1>2 DEF OldSessionsEnded
<1>6. ChangesProven'
    BY <1>1, <1>2, ClearedUser DEF ChangesProven, NoRequest, TypeOK
<1> QED
    BY <1>3, <1>4, <1>5, <1>6

\* From the deactivation on, its request is there to account for live sessions.
LEMMA DeactivateUserStep ==
    ASSUME AccountsInv, NEW w \in Workers, DeactivateUser(w)
    PROVE  AccountsInv'
<1> USE DEF AccountsInv
<1>1. /\ UNCHANGED <<session, guesses, uncounted, spared>> /\ req[w].pc = "idle"
      /\ cutoffs < MaxCutoffs /\ cutoffs' = cutoffs + 1
      /\ user' = [user EXCEPT !.active = FALSE]
      /\ req' = [req EXCEPT ![w].pc = "revoke"]
    BY DEF DeactivateUser
<1>2. /\ req' \in [Workers -> RequestState] /\ req'[w].pc = "revoke"
      /\ req'[w].epoch = req[w].epoch
      /\ \A v \in Workers \ {w} : req'[v] = req[v]
    BY <1>1, GotoState
<1>3. /\ user' \in UserRow /\ user'.fails = user.fails /\ user'.locked = user.locked
      /\ user'.pw = user.pw /\ user'.mustChange = user.mustChange
    BY <1>1 DEF TypeOK, UserRow
<1>4. TypeOK'
    BY <1>1, <1>2, <1>3 DEF TypeOK
<1>5. GuessesInProgress'
    BY <1>1, <1>2, <1>3, OthersGuess, NoNewGuess
<1>6. OldSessionsEnded'
    BY <1>2 DEF OldSessionsEnded
<1>7. ChangesProven'
    BY <1>1, <1>2, <1>3 DEF ChangesProven, TypeOK, RequestState
<1> QED
    BY <1>4, <1>5, <1>6, <1>7

\* A deactivation that completes leaves no session alive.
LEMMA RevokeAfterDeactivationStep ==
    ASSUME AccountsInv, NEW w \in Workers, RevokeAfterDeactivation(w)
    PROVE  AccountsInv'
<1> USE DEF AccountsInv
<1>1. /\ UNCHANGED <<user, guesses, uncounted, cutoffs, spared>> /\ session' = RevokedAll
    BY DEF RevokeAfterDeactivation
<1>2. /\ req' \in [Workers -> RequestState] /\ req'[w] = NoRequest
      /\ \A v \in Workers \ {w} : req'[v] = req[v]
    BY EndType DEF RevokeAfterDeactivation
<1>3. TypeOK'
    BY <1>1, <1>2, SessionsRevoked DEF TypeOK
<1>4. GuessesInProgress'
    BY <1>1, <1>2, OthersGuess, NoNewGuess DEF NoRequest
<1>5. OldSessionsEnded'
    BY <1>1, SessionsRevoked DEF OldSessionsEnded
<1>6. ChangesProven'
    BY <1>1, <1>2 DEF ChangesProven, NoRequest, TypeOK
<1> QED
    BY <1>3, <1>4, <1>5, <1>6

\* Finding a session proves that it was alive.
LEMMA AuthenticateStep ==
    ASSUME AccountsInv, NEW w \in Workers, NEW s \in Sessions, Authenticate(w, s)
    PROVE  AccountsInv'
<1> USE DEF AccountsInv
<1>1. UNCHANGED <<user, session, guesses, uncounted, cutoffs, spared>> /\ req[w].pc = "idle"
    BY DEF Authenticate
<1>2. /\ req' \in [Workers -> RequestState] /\ req'[w].pc = "check"
      /\ req'[w].epoch = req[w].epoch
      /\ \A v \in Workers \ {w} : req'[v] = req[v]
  <2> DEFINE r == [req[w] EXCEPT !.pc = "check", !.s = s]
  <2>1. req' = [req EXCEPT ![w] = r] /\ req[w] \in RequestState
    BY DEF Authenticate, TypeOK
  <2>2. r \in RequestState /\ r.pc = "check" /\ r.epoch = req[w].epoch
    BY <2>1 DEF RequestState
  <2> HIDE DEF r
  <2> QED
    BY <2>1, <2>2, RequestChanged
<1>3. TypeOK'
    BY <1>1, <1>2 DEF TypeOK
<1>4. GuessesInProgress'
    BY <1>1, <1>2, OthersGuess, NoNewGuess
<1>5. OldSessionsEnded'
    BY <1>1, <1>2 DEF OldSessionsEnded
<1>6. ChangesProven'
    BY <1>1, <1>2 DEF ChangesProven
<1> QED
    BY <1>3, <1>4, <1>5, <1>6

\* A change of password goes on only with the current password proven.
LEMMA ChangeOwnPasswordStep ==
    ASSUME AccountsInv, NEW w \in Workers, NEW p \in Passwords, NEW n \in Passwords,
           ChangeOwnPassword(w, p, n)
    PROVE  AccountsInv'
<1> USE DEF AccountsInv
<1>1. UNCHANGED <<user, session, guesses, uncounted, cutoffs, spared>> /\ req[w].pc = "check"
    BY DEF ChangeOwnPassword
<1>2. /\ req' \in [Workers -> RequestState] /\ req'[w].pc \in {"idle", "change"}
      /\ req'[w].epoch <= cutoffs
      /\ req'[w].pc = "change" => req'[w].pw = user.pw /\ req'[w].new \in Passwords
      /\ \A v \in Workers \ {w} : req'[v] = req[v]
  <2>1. CASE p = user.pw /\ n # p
    <3> DEFINE r == [req[w] EXCEPT !.pc = "change", !.pw = p, !.new = n, !.epoch = cutoffs]
    <3>1. req' = [req EXCEPT ![w] = r] /\ req[w] \in RequestState /\ cutoffs \in 0..MaxCutoffs
        BY <2>1 DEF ChangeOwnPassword, TypeOK
    <3>2. r \in RequestState
        BY <3>1 DEF RequestState
    <3>3. r.pc = "change" /\ r.epoch = cutoffs /\ r.pw = p /\ r.new = n
        BY <3>1 DEF RequestState
    <3>4. p = user.pw /\ cutoffs <= cutoffs
        BY <2>1, <3>1
    <3> HIDE DEF r
    <3>5. /\ req' \in [Workers -> RequestState] /\ req'[w] = r
          /\ \A v \in Workers \ {w} : req'[v] = req[v]
        BY <3>1, <3>2, RequestChanged
    <3> QED
        BY <3>3, <3>4, <3>5
  <2>2. CASE ~(p = user.pw /\ n # p)
    BY <2>2, EndType DEF ChangeOwnPassword, NoRequest, TypeOK
  <2> QED
    BY <2>1, <2>2
<1>3. TypeOK'
    BY <1>1, <1>2 DEF TypeOK
<1>4. GuessesInProgress'
    BY <1>1, <1>2, OthersGuess, NoNewGuess
<1>5. OldSessionsEnded'
    BY <1>1, <1>2 DEF OldSessionsEnded
<1>6. ChangesProven'
    BY <1>1, <1>2 DEF ChangesProven
<1> QED
    BY <1>3, <1>4, <1>5, <1>6

\* A commit ends the forced change, so other changes in progress need not fit
\* its password until the next reset, which makes them old.
LEMMA CommitPasswordStep ==
    ASSUME AccountsInv, NEW w \in Workers, CommitPassword(w)
    PROVE  AccountsInv'
<1> USE DEF AccountsInv
<1>1. /\ UNCHANGED <<session, guesses, uncounted, cutoffs, spared>> /\ req[w].pc = "change"
      /\ user' = [user EXCEPT !.pw = req[w].new, !.mustChange = FALSE]
    BY DEF CommitPassword
<1>2. /\ req' \in [Workers -> RequestState] /\ req'[w] = NoRequest
      /\ \A v \in Workers \ {w} : req'[v] = req[v]
    BY EndType DEF CommitPassword
<1>3. /\ user' \in UserRow /\ user'.fails = user.fails /\ user'.locked = user.locked
      /\ ~user'.mustChange
    BY <1>1 DEF TypeOK, UserRow, ChangesProven
<1>4. TypeOK'
    BY <1>1, <1>2, <1>3 DEF TypeOK
<1>5. GuessesInProgress'
    BY <1>1, <1>2, <1>3, OthersGuess, NoNewGuess DEF NoRequest
<1>6. OldSessionsEnded'
    BY <1>1, <1>2 DEF OldSessionsEnded
<1>7. ChangesProven'
    BY <1>1, <1>2, <1>3 DEF ChangesProven, NoRequest, TypeOK
<1> QED
    BY <1>4, <1>5, <1>6, <1>7

\* A deactivation that fails between its two statements spares the sessions.
LEMMA FailRequestStep ==
    ASSUME AccountsInv, NEW w \in Workers, FailRequest(w)
    PROVE  AccountsInv'
<1> USE DEF AccountsInv
<1>1. /\ UNCHANGED <<user, session, guesses, uncounted, cutoffs>>
      /\ spared' = IF req[w].pc = "revoke"
                   THEN spared \cup {s \in Sessions : session[s].st = "live"} ELSE spared
    BY DEF FailRequest
<1>2. /\ req' \in [Workers -> RequestState] /\ req'[w] = NoRequest
      /\ \A v \in Workers \ {w} : req'[v] = req[v]
    BY EndType DEF FailRequest
<1>3. TypeOK'
    BY <1>1, <1>2 DEF TypeOK
<1>4. GuessesInProgress'
    BY <1>1, <1>2, OthersGuess, NoNewGuess DEF NoRequest
<1>5. OldSessionsEnded'
    BY <1>1, <1>2 DEF OldSessionsEnded
<1>6. ChangesProven'
    BY <1>1, <1>2 DEF ChangesProven, NoRequest, TypeOK
<1> QED
    BY <1>3, <1>4, <1>5, <1>6

-----------------------------------------------------------------------------
(* Sessions, administration and the clock *)

\* Sessions end by sign-out, expiry and revocation, never start again.
LEMMA SessionsStep ==
    ASSUME AccountsInv,
           \/ \E s \in Sessions : RevokeSession(s) \/ ExpireSession(s)
           \/ RevokeUserSessions
    PROVE  AccountsInv'
<1> USE DEF AccountsInv
<1>1. UNCHANGED <<user, req, guesses, uncounted, cutoffs, spared>>
    BY DEF RevokeSession, ExpireSession, RevokeUserSessions
<1>2. /\ session' \in [Sessions -> SessionRow]
      /\ \A s \in Sessions : session'[s].st = "live" =>
            session[s].st = "live" /\ session'[s].epoch = session[s].epoch
  <2>1. CASE RevokeUserSessions
    BY <2>1, SessionsRevoked DEF RevokeUserSessions
  <2>2. ASSUME NEW s \in Sessions, RevokeSession(s) \/ ExpireSession(s)
        PROVE  <1>2
    BY <2>2 DEF RevokeSession, ExpireSession, TypeOK, SessionRow
  <2> QED
    BY <2>1, <2>2
<1>3. TypeOK'
    BY <1>1, <1>2 DEF TypeOK
<1>4. Guessing' = Guessing
    BY <1>1 DEF Guessing
<1>5. GuessesInProgress'
    BY <1>1, <1>4, NoNewGuess
<1>6. OldSessionsEnded' /\ ChangesProven'
    BY <1>1, <1>2 DEF OldSessionsEnded, ChangesProven
<1> QED
    BY <1>3, <1>5, <1>6

\* The end of a lock and unlocking start a new series of guesses.
LEMMA AdministrationStep ==
    ASSUME AccountsInv, LockExpires \/ UnlockUser \/ ActivateUser
    PROVE  AccountsInv'
<1> USE DEF AccountsInv
<1>1. UNCHANGED <<session, req, cutoffs, spared>>
    BY DEF LockExpires, UnlockUser, ActivateUser
<1>2. /\ user' \in UserRow
      /\ user'.pw = user.pw /\ user'.mustChange = user.mustChange
      /\ \/ CountAnew
         \/ /\ guesses' = guesses /\ uncounted' = uncounted
            /\ user'.fails = user.fails /\ user'.locked = user.locked
    BY ClearedUser DEF LockExpires, UnlockUser, ActivateUser, TypeOK, UserRow
<1>3. TypeOK'
    BY <1>1, <1>2 DEF TypeOK, CountAnew
<1>4. user'.fails \in Nat /\ Guessing' = Guessing
    BY <1>1, <1>2 DEF UserRow, Guessing
<1>5. GuessesInProgress'
    BY <1>1, <1>2, <1>4, NoNewGuess, CountCleared
<1>6. OldSessionsEnded' /\ ChangesProven'
    BY <1>1, <1>2 DEF OldSessionsEnded, ChangesProven
<1> QED
    BY <1>3, <1>5, <1>6

\* A reset leaves no session live and makes every change in progress old.
LEMMA ResetStep ==
    ASSUME AccountsInv, NEW p \in Passwords, ResetUserPassword(p)
    PROVE  AccountsInv'
<1> USE DEF AccountsInv
<1>1. /\ UNCHANGED <<req, spared>> /\ session' = RevokedAll /\ CountAnew
      /\ cutoffs < MaxCutoffs /\ cutoffs' = cutoffs + 1
      /\ user' = [Cleared EXCEPT !.pw = p, !.mustChange = TRUE]
    BY DEF ResetUserPassword, SessionsAfterReset
<1>2. user' \in UserRow /\ user'.fails \in Nat
  <2>1. Cleared \in UserRow
    BY ClearedUser
  <2>2. user' \in UserRow
    BY <1>1, <2>1 DEF UserRow
  <2> QED
    BY <2>2 DEF UserRow
<1>3. TypeOK'
    BY <1>1, <1>2, SessionsRevoked DEF TypeOK, CountAnew
<1>4. GuessesInProgress'
    BY <1>1, <1>2, CountCleared
<1>5. OldSessionsEnded'
    BY <1>1, SessionsRevoked DEF OldSessionsEnded
<1>6. ChangesProven'
  <2>1. cutoffs \in Nat /\ \A w \in Workers : req[w].epoch \in Nat
    BY DEF TypeOK, RequestState
  <2>2. \A w \in Workers : req'[w].epoch < cutoffs'
    BY <1>1, <2>1 DEF ChangesProven
  <2>3. \A w \in Workers : req'[w].epoch <= cutoffs'
    BY <1>1, <2>1 DEF ChangesProven
  <2>4. req' = req
    BY <1>1
  <2> QED
    BY <2>2, <2>3, <2>4 DEF ChangesProven
<1> QED
    BY <1>3, <1>4, <1>5, <1>6

-----------------------------------------------------------------------------
(* The theorems *)

\* A fresh account satisfies the invariant.
LEMMA AccountsInit == Init => AccountsInv
<1> SUFFICES ASSUME Init PROVE AccountsInv
    OBVIOUS
<1>1. PICK p \in Passwords : user = [active |-> TRUE, pw |-> p, mustChange |-> TRUE,
                                     fails |-> 0, locked |-> FALSE]
    BY DEF Init
<1>2. user \in UserRow /\ user.fails = 0
    BY <1>1 DEF UserRow
<1>3. TypeOK
    BY <1>2 DEF Init, TypeOK, NoRequest, RequestState, SessionRow
<1>4. GuessesInProgress
    BY <1>2, Guessers DEF Init, GuessesInProgress
<1>5. OldSessionsEnded /\ ChangesProven
    BY DEF Init, OldSessionsEnded, ChangesProven, NoRequest
<1> QED
    BY <1>3, <1>4, <1>5 DEF AccountsInv

\* AccountsInv is inductive.
LEMMA AccountsStep == AccountsInv /\ [Next]_vars => AccountsInv'
<1> SUFFICES ASSUME AccountsInv, [Next]_vars PROVE AccountsInv'
    OBVIOUS
<1>1. ASSUME NEW w \in Workers, Request(w) PROVE AccountsInv'
    BY <1>1, LoginStep, RecordFailureStep, AnswerUncountedStep, InsertSessionStep,
       AuthenticateStep, ClearFailuresStep, DeactivateUserStep, RevokeAfterDeactivationStep,
       ChangeOwnPasswordStep, CommitPasswordStep, FailRequestStep DEF Request
<1>2. CASE Environment
    BY <1>2, SessionsStep, AdministrationStep, ResetStep DEF Environment
<1>3. CASE UNCHANGED vars
    BY <1>3 DEF vars, AccountsInv, TypeOK, GuessesInProgress, Guessing, OldSessionsEnded,
                ChangesProven
<1> QED
    BY <1>1, <1>2, <1>3 DEF Next

\* Logins, failures, resets and changes of password keep AccountsInv, however
\* the requests interleave.
THEOREM AccountsInvariant == Spec => []AccountsInv
<1> QED
    BY AccountsInit, AccountsStep, PTL DEF Spec

\* Lockout bounds the wrong passwords that are answered, for any threshold and
\* any number of concurrent logins.  Each refusal whose count failed, and no other
\* cause, lets one more through.
THEOREM Lockout == Spec => []GuessesBounded
<1>1. AccountsInv => GuessesBounded
    BY Guessers DEF AccountsInv, TypeOK, GuessesInProgress, GuessesBounded
<1> QED
    BY <1>1, AccountsInvariant, PTL

\* A reset or a deactivation ends every session it can reach, also for an
\* account that is activated again.
THEOREM Cutoff == Spec => []CutoffEndsSessions
<1>1. AccountsInv => CutoffEndsSessions
    BY DEF AccountsInv, OldSessionsEnded, CutoffEndsSessions, Usable
<1> QED
    BY <1>1, AccountsInvariant, PTL

\* A forced change of password ends only by proof of the password it replaces,
\* or of one that was current before the reset that demanded it.
THEOREM ForcedChange == Spec => ForcedChangeProven
<1>1. ASSUME AccountsInv, [Next]_vars
      PROVE  [user.mustChange /\ ~user'.mustChange =>
                \E w \in Workers : /\ req[w].pc = "change"
                                   /\ req[w].pw = user.pw \/ req[w].epoch < cutoffs]_vars
  <2> SUFFICES ASSUME user.mustChange, ~user'.mustChange
               PROVE  \E w \in Workers : /\ req[w].pc = "change"
                                         /\ req[w].pw = user.pw \/ req[w].epoch < cutoffs
    OBVIOUS
  <2> USE <1>1 DEF AccountsInv
  <2>1. ASSUME NEW w \in Workers, CommitPassword(w)
        PROVE  \E v \in Workers : /\ req[v].pc = "change"
                                  /\ req[v].pw = user.pw \/ req[v].epoch < cutoffs
    BY <2>1 DEF CommitPassword, ChangesProven
  <2>2. ASSUME NEW w \in Workers, Request(w) PROVE CommitPassword(w)
    BY <2>2, CountedFailure, ClearedUser
       DEF Request, Login, RecordFailure, AnswerUncounted, FailureCounted, InsertSession,
           Authenticate,
           ClearFailures, DeactivateUser, RevokeAfterDeactivation, ChangeOwnPassword,
           FailRequest, TypeOK, UserRow
  <2>3. ~Environment /\ user' # user
    BY ClearedUser
       DEF Environment, RevokeSession, ExpireSession, RevokeUserSessions, LockExpires,
           UnlockUser, ActivateUser, ResetUserPassword, TypeOK, UserRow
  <2> QED
    BY <2>1, <2>2, <2>3 DEF Next, vars
<1> QED
    BY <1>1, AccountsInvariant, PTL DEF Spec, ForcedChangeProven
=============================================================================
