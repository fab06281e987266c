--------------------------- MODULE SamlSsoProofs ---------------------------
(***************************************************************************)
(* Theorems about SamlSso for any number of requests, users, messages and  *)
(* rows: a message gets one response, and every response names the one     *)
(* user who completed the request and was found to be assigned.            *)
(***************************************************************************)
EXTENDS SamlSso, TLAPS

USE SsoConstants

\* What a step of one request does to the requests.
LEMMA RequestChanged ==
    ASSUME TypeOK, NEW w \in Workers, NEW r \in RequestState,
           req' = [req EXCEPT ![w] = r]
    PROVE  /\ req' \in [Workers -> RequestState]
           /\ req'[w] = r
           /\ \A v \in Workers \ {w} : req'[v] = req[v]
BY DEF TypeOK

\* A request that ends leaves no trace.
LEMMA EndState ==
    ASSUME TypeOK, NEW w \in Workers, End(w)
    PROVE  /\ req' \in [Workers -> RequestState]
           /\ req'[w].pc = "idle"
           /\ \A v \in Workers \ {w} : req'[v] = req[v]
<1>1. NoRequest \in RequestState /\ NoRequest.pc = "idle"
    BY DEF NoRequest, RequestState
<1> QED
    BY <1>1, RequestChanged DEF End

\* A request that goes on keeps what it has read.
LEMMA GotoState ==
    ASSUME TypeOK, NEW w \in Workers, NEW pc \in {"check", "complete", "userinfo"},
           Goto(w, pc)
    PROVE  /\ req' \in [Workers -> RequestState]
           /\ req'[w].pc = pc
           /\ req'[w].user = req[w].user
           /\ req'[w].row = req[w].row
           /\ \A v \in Workers \ {w} : req'[v] = req[v]
<1> DEFINE r == [req[w] EXCEPT !.pc = pc]
<1>1. req' = [req EXCEPT ![w] = r] /\ req[w] \in RequestState
    BY DEF Goto, TypeOK
<1>2. r \in RequestState
    BY <1>1 DEF RequestState
<1>3. r.pc = pc /\ r.user = req[w].user /\ r.row = req[w].row
    BY <1>1 DEF RequestState
<1> HIDE DEF r
<1> QED
    BY <1>1, <1>2, <1>3, RequestChanged

\* A transaction that ends gives back its own locks only.
LEMMA ReleasedLocks ==
    ASSUME TypeOK, NEW w \in Workers, lock' = Released(w)
    PROVE  /\ lock' \in [Rows -> Workers \cup {None}]
           /\ \A v \in Workers \ {w}, r \in Rows : lock[r] = v => lock'[r] = v
BY DEF Released, TypeOK

\* A step of request w that writes no row keeps what the other requests have read.
LEMMA ReadingStep ==
    ASSUME SsoInv, NEW w \in Workers,
           UNCHANGED <<enabled, assigned, active, row, expired, answers>>,
           cleared \subseteq cleared', cleared' \subseteq Rows \X Users,
           lock' \in [Rows -> Workers \cup {None}],
           \A v \in Workers \ {w}, r \in Rows : lock[r] = v => lock'[r] = v,
           req' \in [Workers -> RequestState],
           \A v \in Workers \ {w} : req'[v] = req[v],
           req'[w].pc # "userinfo",
           ReadRow(w)'
    PROVE  SsoInv'
<1> USE DEF SsoInv
<1>1. TypeOK'
    BY DEF TypeOK
<1>2. RowsConsistent'
    BY DEF RowsConsistent
<1>3. ReadRowsHeld'
  <2>1. ASSUME NEW v \in Workers, v # w
        PROVE  ReadRow(v)'
    <3>1. req'[v] = req[v] /\ \A r \in Rows : lock[r] = v => lock'[r] = v
      BY <2>1
    <3> QED
      BY <3>1 DEF ReadRowsHeld, ReadRow
  <2> QED
    BY <2>1 DEF ReadRowsHeld
<1>4. ConsumedOnce'
    BY DEF ConsumedOnce
<1> QED
    BY <1>1, <1>2, <1>3, <1>4

-----------------------------------------------------------------------------
(* Completion of a request *)

\* A principal continues a request, which exists.
LEMMA ContinueSAMLStep ==
    ASSUME SsoInv, NEW w \in Workers, NEW u \in Users, NEW r \in Rows, ContinueSAML(w, u, r)
    PROVE  SsoInv'
<1> USE DEF SsoInv
<1> DEFINE new == [pc |-> "finalize", row |-> r, user |-> u]
<1>1. /\ req' = [req EXCEPT ![w] = new]
      /\ UNCHANGED <<enabled, assigned, active, row, expired, lock, cleared, answers>>
    BY DEF ContinueSAML
<1>2. new \in RequestState /\ new.pc = "finalize" /\ new.row = r /\ new.user = u
    BY DEF RequestState
<1> HIDE DEF new
<1>3. /\ req' \in [Workers -> RequestState] /\ req'[w] = new
      /\ \A v \in Workers \ {w} : req'[v] = req[v]
    BY <1>1, <1>2, RequestChanged
<1>4. ReadRow(w)'
    BY <1>2, <1>3 DEF ReadRow
<1> QED
    BY <1>1, <1>2, <1>3, <1>4, ReadingStep DEF TypeOK

\* The lock is free, so it becomes the lock of w and takes nobody else's row.
LEMMA FinalizeLockStep ==
    ASSUME SsoInv, NEW w \in Workers, FinalizeLock(w)
    PROVE  SsoInv'
<1> USE DEF SsoInv
<1> DEFINE r == req[w].row
<1>1. /\ req[w].pc = "finalize" /\ lock[r] = None
      /\ UNCHANGED <<enabled, assigned, active, row, expired, cleared, answers>>
    BY DEF FinalizeLock
<1>2. r \in Rows /\ req[w].user \in Users
    BY <1>1 DEF ReadRowsHeld, ReadRow
<1>3. CASE ~Finalizable(r)
  <2>1. End(w) /\ UNCHANGED lock
    BY <1>3 DEF FinalizeLock
  <2>2. ReadRow(w)'
    BY <2>1, EndState DEF ReadRow
  <2> QED
    BY <1>1, <2>1, <2>2, EndState, ReadingStep DEF TypeOK
<1>4. CASE Finalizable(r)
  <2>1. Goto(w, "check") /\ lock' = [lock EXCEPT ![r] = w] /\ row[r].st = "open"
    BY <1>4 DEF FinalizeLock, Finalizable
  <2>2. /\ lock' \in [Rows -> Workers \cup {None}] /\ lock'[r] = w
        /\ \A v \in Workers \ {w}, q \in Rows : lock[q] = v => lock'[q] = v
    BY <1>1, <1>2, <2>1 DEF TypeOK
  <2>3. /\ req' \in [Workers -> RequestState] /\ req'[w].pc = "check"
        /\ req'[w].user = req[w].user /\ req'[w].row = r
        /\ \A v \in Workers \ {w} : req'[v] = req[v]
    BY <2>1, GotoState
  <2>4. ReadRow(w)'
    BY <1>1, <1>2, <2>1, <2>2, <2>3 DEF ReadRow
  <2> QED
    BY <1>1, <2>2, <2>3, <2>4, ReadingStep DEF TypeOK
<1> QED
    BY <1>3, <1>4

\* A transaction goes on only for a user it has found assigned.
LEMMA FinalizeCheckStep ==
    ASSUME SsoInv, NEW w \in Workers, FinalizeCheck(w)
    PROVE  SsoInv'
<1> USE DEF SsoInv
<1>1. /\ req[w].pc = "check"
      /\ UNCHANGED <<enabled, assigned, active, row, expired, answers>>
    BY DEF FinalizeCheck
<1>2. /\ req[w].row \in Rows /\ req[w].user \in Users
      /\ lock[req[w].row] = w /\ row[req[w].row].st = "open"
    BY <1>1 DEF ReadRowsHeld, ReadRow
<1>3. CASE ~Allowed(req[w].user)
  <2>1. End(w) /\ lock' = Released(w) /\ cleared' = cleared
    BY <1>3 DEF FinalizeCheck, Allowed
  <2>2. ReadRow(w)'
    BY <2>1, EndState DEF ReadRow
  <2> QED
    BY <1>1, <2>1, <2>2, EndState, ReleasedLocks, ReadingStep DEF TypeOK
<1>4. CASE Allowed(req[w].user)
  <2>1. /\ Goto(w, "complete") /\ UNCHANGED lock
        /\ cleared' = cleared \cup {<<req[w].row, req[w].user>>}
    BY <1>4 DEF FinalizeCheck, Allowed
  <2>2. /\ req' \in [Workers -> RequestState] /\ req'[w].pc = "complete"
        /\ req'[w].user = req[w].user /\ req'[w].row = req[w].row
        /\ \A v \in Workers \ {w} : req'[v] = req[v]
    BY <2>1, GotoState
  <2>3. ReadRow(w)'
    BY <1>1, <1>2, <2>1, <2>2 DEF ReadRow
  <2>4. cleared \subseteq cleared' /\ cleared' \subseteq Rows \X Users
    BY <1>2, <2>1 DEF TypeOK
  <2> QED
    BY <1>1, <2>1, <2>2, <2>3, <2>4, ReadingStep DEF TypeOK
<1> QED
    BY <1>3, <1>4

\* A rollback writes nothing and ends the request.
LEMMA FailRequestStep ==
    ASSUME SsoInv, NEW w \in Workers, FailRequest(w)
    PROVE  SsoInv'
<1> USE DEF SsoInv
<1>1. /\ End(w) /\ lock' = Released(w)
      /\ UNCHANGED <<enabled, assigned, active, row, expired, cleared, answers>>
    BY DEF FailRequest
<1>2. ReadRow(w)'
    BY <1>1, EndState DEF ReadRow
<1> QED
    BY <1>1, <1>2, EndState, ReleasedLocks, ReadingStep DEF TypeOK

\* A commit of w writes the row w holds, which no other transaction has read.
LEMMA OthersHoldOtherRows ==
    ASSUME SsoInv, NEW w \in Workers, req[w].pc \in {"complete", "consume"},
           NEW v \in Workers, v # w, req[v].pc \in {"check", "complete", "consume"}
    PROVE  req[v].row # req[w].row
<1>1. ReadRow(v) /\ ReadRow(w)
    BY DEF SsoInv, ReadRowsHeld
<1>2. lock[req[v].row] = v /\ lock[req[w].row] = w
    BY <1>1 DEF ReadRow
<1> QED
    BY <1>2

\* The row is open, so it names no user yet, and w has been found assigned.
LEMMA FinalizeCommitStep ==
    ASSUME SsoInv, NEW w \in Workers, FinalizeCommit(w)
    PROVE  SsoInv'
<1> USE DEF SsoInv
<1> DEFINE r == req[w].row
           u == req[w].user
<1>1. /\ req[w].pc = "complete" /\ End(w) /\ lock' = Released(w)
      /\ row' = [row EXCEPT ![r].st = "completed", ![r].user = u]
      /\ UNCHANGED <<enabled, assigned, active, expired, cleared, answers>>
    BY DEF FinalizeCommit
<1>2. r \in Rows /\ u \in Users /\ row[r].st = "open" /\ <<r, u>> \in cleared
    BY <1>1 DEF ReadRowsHeld, ReadRow
<1> HIDE DEF r, u
<1>3. /\ row' \in [Rows -> Columns]
      /\ row'[r].st = "completed" /\ row'[r].user = u /\ row'[r].msg = row[r].msg
      /\ \A q \in Rows \ {r} : row'[q] = row[q]
    BY <1>1, <1>2, ZenonT(40) DEF TypeOK, Columns
<1>4. /\ req' \in [Workers -> RequestState] /\ req'[w].pc = "idle"
      /\ \A v \in Workers \ {w} : req'[v] = req[v]
    BY <1>1, EndState
<1>5. TypeOK'
    BY <1>1, <1>3, <1>4, ReleasedLocks DEF TypeOK
<1>6. RowsConsistent'
  <2>1. \A q \in Rows : row'[q].msg = row[q].msg
    BY <1>3
  <2>2. row[r].msg # None /\ \A q \in Rows : row[q].msg = row[r].msg => q = r
    BY <1>2 DEF RowsConsistent
  <2> QED
    BY <1>1, <1>2, <1>3, <2>1, <2>2 DEF RowsConsistent
<1>7. ReadRowsHeld'
  <2>1. ASSUME NEW v \in Workers, v # w
        PROVE  ReadRow(v)'
    <3>1. /\ req'[v] = req[v] /\ \A q \in Rows : lock[q] = v => lock'[q] = v
          /\ req[v].pc \in {"check", "complete", "consume"} => req[v].row # r
      BY <1>1, <1>4, <2>1, ReleasedLocks, OthersHoldOtherRows DEF r
    <3> QED
      BY <1>1, <1>3, <3>1 DEF ReadRowsHeld, ReadRow
  <2>2. ReadRow(w)'
    BY <1>4 DEF ReadRow
  <2> QED
    BY <2>1, <2>2 DEF ReadRowsHeld
<1>8. ConsumedOnce'
  <2>1. \A q \in Rows : row[q].st = "consumed" => q # r
    BY <1>2
  <2>2. \A v \in Workers : req'[v].pc = "userinfo" => v # w /\ req[v].row \in Rows
    BY <1>4 DEF ReadRowsHeld, ReadRow
  <2> QED
    BY <1>1, <1>3, <1>4, <2>1, <2>2 DEF ConsumedOnce
<1> QED
    BY <1>5, <1>6, <1>7, <1>8

-----------------------------------------------------------------------------
(* The callback and its response *)

\* A browser follows the callback of a stored request.
LEMMA CallbackStep ==
    ASSUME SsoInv, NEW w \in Workers, NEW r \in Rows, Callback(w, r)
    PROVE  SsoInv'
<1> USE DEF SsoInv
<1> DEFINE new == [pc |-> "callback", row |-> r, user |-> None]
<1>1. /\ req' = [req EXCEPT ![w] = new]
      /\ UNCHANGED <<enabled, assigned, active, row, expired, lock, cleared, answers>>
    BY DEF Callback
<1>2. new \in RequestState /\ new.pc = "callback" /\ new.row = r
    BY DEF RequestState
<1> HIDE DEF new
<1>3. /\ req' \in [Workers -> RequestState] /\ req'[w] = new
      /\ \A v \in Workers \ {w} : req'[v] = req[v]
    BY <1>1, <1>2, RequestChanged
<1>4. ReadRow(w)'
    BY <1>2, <1>3 DEF ReadRow
<1> QED
    BY <1>1, <1>2, <1>3, <1>4, ReadingStep DEF TypeOK

\* The callback reads the user of the row it locks.
LEMMA CallbackLockStep ==
    ASSUME SsoInv, NEW w \in Workers, CallbackLock(w)
    PROVE  SsoInv'
<1> USE DEF SsoInv
<1> DEFINE r == req[w].row
<1>1. /\ req[w].pc = "callback" /\ lock[r] = None
      /\ UNCHANGED <<enabled, assigned, active, row, expired, cleared, answers>>
    BY DEF CallbackLock
<1>2. r \in Rows
    BY <1>1 DEF ReadRowsHeld, ReadRow
<1>3. CASE ~Answerable(r)
  <2>1. End(w) /\ UNCHANGED lock
    BY <1>3 DEF CallbackLock
  <2>2. ReadRow(w)'
    BY <2>1, EndState DEF ReadRow
  <2> QED
    BY <1>1, <2>1, <2>2, EndState, ReadingStep DEF TypeOK
<1>4. CASE Answerable(r)
  <2> DEFINE new == [req[w] EXCEPT !.pc = "consume", !.user = row[r].user]
  <2>1. /\ req' = [req EXCEPT ![w] = new] /\ req[w] \in RequestState
        /\ lock' = [lock EXCEPT ![r] = w] /\ row[r].st = "completed"
    BY <1>4 DEF CallbackLock, Answerable, TypeOK
  <2>2. row[r].user \in Users \cup {None}
    BY <1>2 DEF TypeOK, Columns
  <2>3. new \in RequestState
    BY <2>1, <2>2 DEF RequestState
  <2>4. new.pc = "consume" /\ new.row = r /\ new.user = row[r].user
    BY <2>1 DEF RequestState
  <2> HIDE DEF new
  <2>5. /\ req' \in [Workers -> RequestState] /\ req'[w] = new
        /\ \A v \in Workers \ {w} : req'[v] = req[v]
    BY <2>1, <2>3, RequestChanged
  <2>6. /\ lock' \in [Rows -> Workers \cup {None}] /\ lock'[r] = w
        /\ \A v \in Workers \ {w}, q \in Rows : lock[q] = v => lock'[q] = v
    BY <1>1, <1>2, <2>1 DEF TypeOK
  <2> HIDE DEF r
  <2>7. ReadRow(w)'
    BY <1>1, <1>2, <2>1, <2>4, <2>5, <2>6 DEF ReadRow
  <2> QED
    BY <1>1, <2>4, <2>5, <2>6, <2>7, ReadingStep DEF TypeOK
<1> QED
    BY <1>3, <1>4

\* The row was completed and becomes consumed, so no other callback answers it.
LEMMA CallbackCommitStep ==
    ASSUME SsoInv, NEW w \in Workers, CallbackCommit(w)
    PROVE  SsoInv'
<1> USE DEF SsoInv
<1> DEFINE r == req[w].row
<1>1. /\ req[w].pc = "consume" /\ Goto(w, "userinfo") /\ lock' = Released(w)
      /\ row' = [row EXCEPT ![r].st = "consumed"]
      /\ UNCHANGED <<enabled, assigned, active, expired, cleared, answers>>
    BY DEF CallbackCommit
<1>2. r \in Rows /\ row[r].st = "completed" /\ req[w].user = row[r].user
    BY <1>1 DEF ReadRowsHeld, ReadRow
<1>3. /\ req' \in [Workers -> RequestState] /\ req'[w].pc = "userinfo"
      /\ req'[w].user = req[w].user /\ req'[w].row = r
      /\ \A v \in Workers \ {w} : req'[v] = req[v]
    BY <1>1, GotoState
<1> HIDE DEF r
<1>4. /\ row' \in [Rows -> Columns] /\ row'[r].st = "consumed"
      /\ \A q \in Rows : row'[q].user = row[q].user /\ row'[q].msg = row[q].msg
      /\ \A q \in Rows \ {r} : row'[q] = row[q]
    BY <1>1, <1>2 DEF TypeOK, Columns
<1>5. TypeOK'
    BY <1>1, <1>3, <1>4, ReleasedLocks DEF TypeOK
<1>6. RowsConsistent'
    BY <1>1, <1>2, <1>4 DEF RowsConsistent
<1>7. ReadRowsHeld'
  <2>1. ASSUME NEW v \in Workers, v # w
        PROVE  ReadRow(v)'
    <3>1. /\ req'[v] = req[v] /\ \A q \in Rows : lock[q] = v => lock'[q] = v
          /\ req[v].pc \in {"check", "complete", "consume"} => req[v].row # r
      BY <1>1, <1>3, <2>1, ReleasedLocks, OthersHoldOtherRows DEF r
    <3> QED
      BY <1>1, <1>4, <3>1 DEF ReadRowsHeld, ReadRow
  <2>2. ReadRow(w)'
    BY <1>2, <1>3 DEF ReadRow
  <2> QED
    BY <2>1, <2>2 DEF ReadRowsHeld
<1>8. ConsumedOnce'
  <2>1. \A q \in Rows : row[q].st = "consumed" => q # r
    BY <1>2
  <2>2. answers[r] = 0
    BY <1>2, <2>1 DEF ConsumedOnce, TypeOK
  <2>3. \A v \in Workers \ {w} :
            req'[v].pc = "userinfo" => req'[v] = req[v] /\ req[v].row \in Rows \ {r}
    <3>1. ASSUME NEW v \in Workers, req[v].pc = "userinfo"
          PROVE  req[v].row \in Rows /\ row[req[v].row].st = "consumed"
      BY <3>1 DEF ReadRowsHeld, ReadRow, ConsumedOnce
    <3> QED
      BY <1>3, <2>1, <3>1
  <2> QED
    BY <1>1, <1>2, <1>3, <1>4, <2>1, <2>2, <2>3 DEF ConsumedOnce
<1> QED
    BY <1>5, <1>6, <1>7, <1>8

\* A response is the first to its row.
LEMMA AnswerStep ==
    ASSUME SsoInv, NEW w \in Workers, Answer(w)
    PROVE  SsoInv'
<1> USE DEF SsoInv
<1> DEFINE r == req[w].row
<1>1. /\ req[w].pc = "userinfo" /\ End(w)
      /\ answers' = [answers EXCEPT ![r] = @ + 1]
      /\ UNCHANGED <<enabled, assigned, active, row, expired, lock, cleared>>
    BY DEF Answer
<1>2. r \in Rows
    BY <1>1 DEF ReadRowsHeld, ReadRow
<1>3. /\ row[r].st = "consumed" /\ answers[r] = 0
      /\ \A v \in Workers \ {w} : req[v].pc = "userinfo" => req[v].row # r
    BY <1>1 DEF ConsumedOnce
<1>4. /\ answers' \in [Rows -> Nat] /\ answers'[r] = 1
      /\ \A q \in Rows \ {r} : answers'[q] = answers[q]
    BY <1>1, <1>2, <1>3 DEF TypeOK
<1>5. /\ req' \in [Workers -> RequestState] /\ req'[w].pc = "idle"
      /\ \A v \in Workers \ {w} : req'[v] = req[v]
    BY <1>1, EndState
<1> HIDE DEF r
<1>6. TypeOK'
    BY <1>1, <1>4, <1>5 DEF TypeOK
<1>7. RowsConsistent'
    BY <1>1 DEF RowsConsistent
<1>8. ReadRowsHeld'
    BY <1>1, <1>5 DEF ReadRowsHeld, ReadRow
<1>9. ConsumedOnce'
  <2>1. \A v \in Workers : req'[v].pc = "userinfo" =>
            v # w /\ req'[v] = req[v] /\ req[v].row \in Rows \ {r}
    BY <1>3, <1>5 DEF ReadRowsHeld, ReadRow
  <2> QED
    BY <1>1, <1>3, <1>4, <1>5, <2>1 DEF ConsumedOnce
<1> QED
    BY <1>6, <1>7, <1>8, <1>9

-----------------------------------------------------------------------------
(* New requests, the clock and administration *)

\* A stored request is a new row for a new message, and nobody has read it.
LEMMA CreateAuthRequestStep ==
    ASSUME SsoInv, NEW m \in Messages, NEW r \in Rows, CreateAuthRequest(m, r)
    PROVE  SsoInv'
<1> USE DEF SsoInv
<1> DEFINE new == [st |-> "open", msg |-> m, user |-> None]
<1>1. /\ row[r] = NoRow /\ NewMessage(m)
      /\ row' = [row EXCEPT ![r] = new]
      /\ UNCHANGED <<enabled, assigned, active, expired, lock, req, cleared, answers>>
    BY DEF CreateAuthRequest
<1>2. /\ new \in Columns /\ new.st = "open" /\ new.msg = m /\ new.user = None
      /\ row[r].st = "none" /\ m # None
    BY <1>1 DEF Columns, NoRow
<1> HIDE DEF new
<1>3. /\ row' \in [Rows -> Columns] /\ row'[r] = new
      /\ \A q \in Rows \ {r} : row'[q] = row[q]
    BY <1>1, <1>2 DEF TypeOK
<1>4. TypeOK'
    BY <1>1, <1>3 DEF TypeOK
<1>5. RowsConsistent'
    BY <1>1, <1>2, <1>3 DEF RowsConsistent, NewMessage
<1>6. ReadRowsHeld'
    BY <1>1, <1>2, <1>3 DEF ReadRowsHeld, ReadRow
<1>7. ConsumedOnce'
    BY <1>1, <1>2, <1>3 DEF ConsumedOnce, ReadRowsHeld, ReadRow
<1> QED
    BY <1>4, <1>5, <1>6, <1>7

\* The clock, administrators and account changes touch no row and no request.
LEMMA SurroundingsStep ==
    ASSUME SsoInv, UNCHANGED <<row, lock, req, cleared, answers>>,
           enabled' \in BOOLEAN, assigned' \subseteq Users, active' \subseteq Users,
           expired' \subseteq Rows
    PROVE  SsoInv'
<1> USE DEF SsoInv
<1>1. TypeOK'
    BY DEF TypeOK
<1>2. RowsConsistent' /\ ReadRowsHeld' /\ ConsumedOnce'
    BY DEF RowsConsistent, ReadRowsHeld, ReadRow, ConsumedOnce
<1> QED
    BY <1>1, <1>2

-----------------------------------------------------------------------------
(* The theorems *)

\* In the beginning there is no request.
LEMMA SsoInit == Init => SsoInv
<1> SUFFICES ASSUME Init PROVE SsoInv
    OBVIOUS
<1>1. TypeOK
    BY DEF Init, TypeOK, NoRow, NoRequest, Columns, RequestState
<1>2. RowsConsistent /\ ReadRowsHeld /\ ConsumedOnce
    BY DEF Init, RowsConsistent, ReadRowsHeld, ReadRow, ConsumedOnce, NoRow, NoRequest
<1> QED
    BY <1>1, <1>2 DEF SsoInv

\* Every step keeps the invariant.
LEMMA SsoStep == SsoInv /\ [Next]_vars => SsoInv'
<1> SUFFICES ASSUME SsoInv, [Next]_vars PROVE SsoInv'
    OBVIOUS
<1>1. ASSUME NEW w \in Workers, Request(w) PROVE SsoInv'
    BY <1>1, ContinueSAMLStep, FinalizeLockStep, FinalizeCheckStep, FinalizeCommitStep,
       CallbackStep, CallbackLockStep, CallbackCommitStep, AnswerStep, FailRequestStep
       DEF Request
<1>2. ASSUME NEW r \in Rows, ExpireRequest(r) PROVE SsoInv'
    BY <1>2, SurroundingsStep DEF ExpireRequest, SsoInv, TypeOK
<1>3. CASE UpdateApplication
    BY <1>3, SurroundingsStep DEF UpdateApplication, SsoInv, TypeOK
<1>4. ASSUME NEW u \in Users, ChangeAssignment(u) \/ UpdateUser(u) PROVE SsoInv'
    BY <1>4, SurroundingsStep DEF ChangeAssignment, UpdateUser, SsoInv, TypeOK
<1>5. ASSUME NEW us \in SUBSET Users, GainAssignment(us) \/ LoseAssignment(us)
      PROVE  SsoInv'
    BY <1>5, SurroundingsStep DEF GainAssignment, LoseAssignment, SsoInv, TypeOK
<1>6. CASE UNCHANGED vars
    BY <1>6, SurroundingsStep DEF vars, SsoInv, TypeOK
<1> QED
    BY <1>1, <1>2, <1>3, <1>4, <1>5, <1>6, CreateAuthRequestStep DEF Next

\* Requests, callbacks and administration keep SsoInv, however they interleave.
THEOREM SsoInvariant == Spec => []SsoInv
<1> QED
    BY SsoInit, SsoStep, PTL DEF Spec

\* A message gets one response at most: for any number of rows, workers and
\* replays of the message or of the callback.
THEOREM RepliesOnce == Spec => []OneAnswerPerMessage
<1>1. SsoInv => OneAnswerPerMessage
  <2> SUFFICES ASSUME SsoInv, NEW q \in Rows, NEW r \in Rows,
                      answers[q] > 0, answers[r] > 0, row[q].msg = row[r].msg
               PROVE  q = r /\ answers[r] = 1
    BY DEF OneAnswerPerMessage
  <2>1. row[r].st = "consumed" /\ answers[r] = 1
    BY DEF SsoInv, ConsumedOnce
  <2> QED
    BY <2>1 DEF SsoInv, RowsConsistent
<1> QED
    BY <1>1, SsoInvariant, PTL

\* A response names the user of its row, who was found to be assigned.
THEOREM SubjectsCleared == Spec => []SubjectCleared
<1>1. SsoInv => SubjectCleared
  <2> SUFFICES ASSUME SsoInv, NEW w \in Workers, req[w].pc = "userinfo"
               PROVE  /\ req[w].user = row[req[w].row].user
                      /\ <<req[w].row, req[w].user>> \in cleared
    BY DEF SubjectCleared
  <2>1. req[w].row \in Rows
    BY DEF SsoInv, ReadRowsHeld, ReadRow
  <2>2. row[req[w].row].st = "consumed" /\ req[w].user = row[req[w].row].user
    BY DEF SsoInv, ConsumedOnce
  <2> QED
    BY <2>1, <2>2 DEF SsoInv, RowsConsistent
<1> QED
    BY <1>1, SsoInvariant, PTL

\* Whoever else continues a completed request, its user stays: the only step
\* that writes a user writes it to an open row.
THEOREM SubjectsFixed == Spec => SubjectFixed
<1>1. ASSUME SsoInv, [Next]_vars
      PROVE  [\A r \in Rows : row[r].user # None => row'[r].user = row[r].user]_vars
  <2> SUFFICES ASSUME NEW r \in Rows, row[r].user # None
               PROVE  row'[r].user = row[r].user
    OBVIOUS
  <2>1. ASSUME NEW w \in Workers, FinalizeCommit(w) PROVE row'[r].user = row[r].user
    <3>1. req[w].row \in Rows /\ row[req[w].row].st = "open"
      BY <1>1, <2>1 DEF FinalizeCommit, SsoInv, ReadRowsHeld, ReadRow
    <3>2. r # req[w].row
      BY <1>1, <3>1 DEF SsoInv, RowsConsistent
    <3> QED
      BY <1>1, <2>1, <3>1, <3>2 DEF FinalizeCommit, SsoInv, TypeOK
  <2>2. ASSUME NEW w \in Workers, CallbackCommit(w) PROVE row'[r].user = row[r].user
    <3>1. row' = [row EXCEPT ![req[w].row].st = "consumed"] /\ row[r] \in Columns
      BY <1>1, <2>2 DEF CallbackCommit, SsoInv, TypeOK
    <3> QED
      BY <1>1, <3>1 DEF SsoInv, TypeOK, Columns
  <2>3. ASSUME NEW m \in Messages, NEW q \in Rows, CreateAuthRequest(m, q)
        PROVE  row'[r].user = row[r].user
    <3>1. q # r
      BY <2>3 DEF CreateAuthRequest, NoRow
    <3> QED
      BY <1>1, <2>3, <3>1 DEF CreateAuthRequest, SsoInv, TypeOK
  <2>4. \/ UNCHANGED row
        \/ \E w \in Workers : FinalizeCommit(w) \/ CallbackCommit(w)
        \/ \E m \in Messages, q \in Rows : CreateAuthRequest(m, q)
    BY <1>1 DEF Next, vars, Request, ContinueSAML, FinalizeLock, FinalizeCheck, Callback,
                CallbackLock, Answer, FailRequest, ExpireRequest, UpdateApplication,
                ChangeAssignment, GainAssignment, LoseAssignment, UpdateUser
  <2> QED
    BY <2>1, <2>2, <2>3, <2>4
<1> QED
    BY <1>1, SsoInvariant, PTL DEF Spec, SubjectFixed
=============================================================================
