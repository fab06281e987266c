------------------------- MODULE SigningKeysProofs -------------------------
(***************************************************************************)
(* Theorems about SigningKeys for any number of replicas and keys: the     *)
(* advisory lock makes a rotation's retired rows and its new row one step  *)
(* that no other rotation gets into.                                       *)
(***************************************************************************)
EXTENDS SigningKeys, TLAPS

\* The state of one request.
Request == [pc : {"idle", "lock", "held", "insert", "sign"},
            retire : SUBSET Keys, new : Keys \cup {None}, then : {"idle", "sign"}]

\* A request rests with no traces of an earlier one.
RestIsClean == \A w \in Workers : req[w].pc = "idle" => req[w] = NoRequest

\* The lock is held exactly between its acquisition and the end of the rotation.
LockHeldByRotation ==
    \A w \in Workers : advisory = w <=> req[w].pc \in {"held", "insert"}

\* What a rotation is about to commit still fits the table.
RotationFits ==
    \A w \in Workers : req[w].pc = "insert" =>
        /\ req[w].retire = ActiveKeys
        /\ req[w].new \in Keys

\* A key that was handed out has a row, for ever.
KeysHaveRows ==
    /\ \A w \in Workers : req[w].pc = "sign" => req[w].new \in Keys /\ key[req[w].new] # "none"
    /\ \A k \in signed : key[k] # "none"

\* The table is empty or has an active row.
SomeKeyActive == (\E k \in Keys : key[k] # "none") => ActiveKeys # {}

KeysInv ==
    /\ TypeOK
    /\ RestIsClean
    /\ LockHeldByRotation
    /\ RotationFits
    /\ KeysHaveRows
    /\ SomeKeyActive

-----------------------------------------------------------------------------
\* The empty key store satisfies the invariant.
LEMMA KeysInit == Init => KeysInv
<1> SUFFICES ASSUME Init PROVE KeysInv
    OBVIOUS
<1> USE DEF Init, NoRequest
<1>1. TypeOK
    BY KeyConstants DEF TypeOK
<1>2. RestIsClean /\ LockHeldByRotation /\ RotationFits
    BY KeyConstants DEF RestIsClean, LockHeldByRotation, RotationFits
<1>3. KeysHaveRows /\ SomeKeyActive
    BY DEF KeysHaveRows, SomeKeyActive
<1> QED
    BY <1>1, <1>2, <1>3 DEF KeysInv

\* A rotation's commit: the lock excludes any other rotation in progress.
LEMMA CommitStep ==
    ASSUME KeysInv, NEW w \in Workers, InsertAndCommit(w)
    PROVE  KeysInv' /\ ActiveKeys' # {}
<1> USE DEF KeysInv, TypeOK, Request
<1>1. req[w].pc = "insert" /\ advisory = w /\ req[w].new \in Keys
    BY DEF InsertAndCommit, LockHeldByRotation, RotationFits
<1>2. /\ key' \in [Keys -> {"none", "active", "retired"}]
      /\ key'[req[w].new] = "active"
      /\ \A k \in Keys : key[k] # "none" => key'[k] # "none"
    BY <1>1 DEF InsertAndCommit
<1>3. /\ req' \in [Workers -> Request]
      /\ \A v \in Workers \ {w} : req'[v] = req[v]
      /\ \/ req'[w] = NoRequest
         \/ req'[w].pc = "sign" /\ req'[w].new = req[w].new
  <2>1. CASE req[w].then = "sign"
    <3>1. req' = [req EXCEPT ![w].pc = "sign", ![w].retire = {}, ![w].then = "idle"]
        BY <2>1 DEF InsertAndCommit
    <3>2. req[w] \in Request
        OBVIOUS
    <3>3. req'[w] = [req[w] EXCEPT !.pc = "sign", !.retire = {}, !.then = "idle"]
        BY <3>1
    <3> QED
        BY <3>1, <3>2, <3>3
  <2>2. CASE req[w].then # "sign"
    <3>1. req' = [req EXCEPT ![w] = NoRequest] /\ NoRequest \in Request
        BY <2>2 DEF InsertAndCommit, End, NoRequest
    <3> QED
        BY <3>1
  <2> QED
      BY <2>1, <2>2
<1>4. advisory' = None /\ store' = store /\ old' = old /\ signed' = signed
    BY DEF InsertAndCommit
<1>5. \A v \in Workers \ {w} : req[v].pc \notin {"held", "insert"}
    BY <1>1 DEF LockHeldByRotation
<1>6. TypeOK'
    BY <1>2, <1>3, <1>4
<1>7. RestIsClean'
    BY <1>3 DEF RestIsClean
<1>8. LockHeldByRotation' /\ RotationFits'
    BY <1>3, <1>4, <1>5, KeyConstants DEF LockHeldByRotation, RotationFits, NoRequest
<1>9. KeysHaveRows'
    BY <1>1, <1>2, <1>3, <1>4 DEF KeysHaveRows, NoRequest
<1>10. ActiveKeys' # {}
    BY <1>1, <1>2 DEF ActiveKeys
<1>11. SomeKeyActive'
    BY <1>10 DEF SomeKeyActive
<1> QED
    BY <1>6, <1>7, <1>8, <1>9, <1>10, <1>11

\* Every other step leaves the table alone, and the request of one worker is
\* all that changes besides the lock.
LEMMA QuietStep ==
    ASSUME KeysInv, NEW w \in Workers,
           \/ Active(w) \/ Rotate(w) \/ AcquireLock(w) \/ RetireActive(w)
           \/ Sign(w) \/ Abort(w)
    PROVE  KeysInv' /\ ActiveKeys' = ActiveKeys
<1> USE DEF KeysInv, TypeOK, Request
<1>1. ActiveKeys' = ActiveKeys /\ key' = key /\ store' = store /\ old' = old
    BY DEF ActiveKeys, Active, Rotate, AcquireLock, RetireActive, Sign, Abort
<1>2. ActiveKeys \subseteq Keys
    BY DEF ActiveKeys
<1>3. CASE Active(w)
  <2>1. /\ advisory' = advisory /\ signed' = signed /\ advisory # w
        /\ \A v \in Workers \ {w} : req'[v] = req[v]
        /\ req'[w].pc \in {"sign", "lock"}
        /\ req'[w].pc = "sign" => req'[w].new \in ActiveKeys
        /\ req' \in [Workers -> Request]
    BY <1>2, <1>3 DEF Active, LockHeldByRotation
  <2>2. TypeOK'
    BY <1>1, <2>1
  <2>3. RestIsClean' /\ LockHeldByRotation' /\ RotationFits'
    BY <1>1, <2>1 DEF RestIsClean, LockHeldByRotation, RotationFits
  <2>4. KeysHaveRows' /\ SomeKeyActive'
    BY <1>1, <1>2, <2>1 DEF KeysHaveRows, SomeKeyActive, ActiveKeys
  <2> QED
    BY <1>1, <2>2, <2>3, <2>4
<1>4. CASE Rotate(w)
  <2>1. /\ advisory' = advisory /\ signed' = signed /\ advisory # w
        /\ \A v \in Workers \ {w} : req'[v] = req[v]
        /\ req'[w].pc = "lock"
        /\ req' \in [Workers -> Request]
    BY <1>4 DEF Rotate, LockHeldByRotation
  <2>2. TypeOK'
    BY <1>1, <2>1
  <2>3. RestIsClean' /\ LockHeldByRotation' /\ RotationFits'
    BY <1>1, <2>1 DEF RestIsClean, LockHeldByRotation, RotationFits
  <2>4. KeysHaveRows' /\ SomeKeyActive'
    BY <1>1, <2>1 DEF KeysHaveRows, SomeKeyActive
  <2> QED
    BY <1>1, <2>2, <2>3, <2>4
<1>5. CASE AcquireLock(w)
  <2>1. /\ advisory = None /\ advisory' = w /\ signed' = signed
        /\ \A v \in Workers \ {w} : req'[v] = req[v]
        /\ req'[w].pc = "held"
        /\ req' \in [Workers -> Request]
    BY <1>5 DEF AcquireLock, LockFree
  <2>2. TypeOK'
    BY <1>1, <2>1
  <2>3. RestIsClean' /\ LockHeldByRotation' /\ RotationFits'
    BY <1>1, <2>1, KeyConstants DEF RestIsClean, LockHeldByRotation, RotationFits
  <2>4. KeysHaveRows' /\ SomeKeyActive'
    BY <1>1, <2>1 DEF KeysHaveRows, SomeKeyActive
  <2> QED
    BY <1>1, <2>2, <2>3, <2>4
<1>6. CASE RetireActive(w)
  <2>1. /\ advisory' = advisory /\ signed' = signed /\ advisory = w
        /\ \A v \in Workers \ {w} : req'[v] = req[v]
        /\ req'[w].pc = "insert" /\ req'[w].retire = ActiveKeys /\ req'[w].new \in Keys
        /\ req' \in [Workers -> Request]
    <3>1. PICK k \in Keys : req' = [req EXCEPT ![w].pc = "insert", ![w].retire = ActiveKeys,
                                             ![w].new = k]
        BY <1>6 DEF RetireActive
    <3>2. /\ req[w] \in Request
          /\ req'[w] = [req[w] EXCEPT !.pc = "insert", !.retire = ActiveKeys, !.new = k]
        BY <3>1
    <3>3. /\ req'[w] \in Request /\ req'[w].pc = "insert"
          /\ req'[w].retire = ActiveKeys /\ req'[w].new = k
        BY <1>2, <3>2
    <3>4. advisory' = advisory /\ signed' = signed /\ advisory = w
        BY <1>6 DEF RetireActive, LockHeldByRotation
    <3> QED
        BY <3>1, <3>3, <3>4
  <2>2. TypeOK'
    BY <1>1, <2>1
  <2>3. RestIsClean' /\ LockHeldByRotation' /\ RotationFits'
    BY <1>1, <2>1 DEF RestIsClean, LockHeldByRotation, RotationFits
  <2>4. KeysHaveRows' /\ SomeKeyActive'
    BY <1>1, <2>1 DEF KeysHaveRows, SomeKeyActive
  <2> QED
    BY <1>1, <2>2, <2>3, <2>4
<1>7. CASE Sign(w) \/ Abort(w)
  <2>1. /\ \A v \in Workers \ {w} : req'[v] = req[v]
        /\ req'[w] = NoRequest
        /\ req' \in [Workers -> Request]
    <3>1. req' = [req EXCEPT ![w] = NoRequest]
        BY <1>7 DEF Sign, Abort, End
    <3>2. NoRequest \in Request
        BY DEF NoRequest
    <3> QED
        BY <3>1, <3>2
  <2>2. /\ advisory' = IF advisory = w THEN None ELSE advisory
        /\ signed' = signed \/ (signed' = signed \cup {req[w].new} /\ req[w].pc = "sign")
    BY <1>7 DEF Sign, Abort, LockHeldByRotation
  <2>3. KeysHaveRows' /\ SomeKeyActive' /\ signed' \subseteq Keys
    BY <1>1, <2>1, <2>2 DEF KeysHaveRows, SomeKeyActive, NoRequest
  <2>4. TypeOK'
    BY <1>1, <2>1, <2>2, <2>3
  <2>5. RestIsClean' /\ LockHeldByRotation' /\ RotationFits'
    BY <1>1, <2>1, <2>2, KeyConstants DEF RestIsClean, LockHeldByRotation, RotationFits, NoRequest
  <2> QED
    BY <1>1, <2>3, <2>4, <2>5
<1> QED
    BY <1>3, <1>4, <1>5, <1>6, <1>7

\* A certificate that grows old changes nothing the invariant speaks of.
LEMMA AgeStep ==
    ASSUME KeysInv, NEW k \in Keys, Age(k)
    PROVE  KeysInv' /\ ActiveKeys' = ActiveKeys
BY DEF Age, KeysInv, TypeOK, RestIsClean, LockHeldByRotation, RotationFits, KeysHaveRows,
       SomeKeyActive, ActiveKeys

\* Neither does a stuttering step.
LEMMA StutteringKeys ==
    ASSUME KeysInv, UNCHANGED vars
    PROVE  KeysInv' /\ ActiveKeys' = ActiveKeys
BY DEF vars, KeysInv, TypeOK, RestIsClean, LockHeldByRotation, RotationFits, KeysHaveRows,
       SomeKeyActive, ActiveKeys

\* The invariant is inductive, and no step leaves a key store without its
\* active key.
LEMMA KeysStep ==
    ASSUME KeysInv, [Next]_vars
    PROVE  KeysInv' /\ (ActiveKeys # {} => ActiveKeys' # {})
<1>1. CASE UNCHANGED vars
    BY <1>1, StutteringKeys
<1>2. ASSUME NEW w \in Workers, Active(w) \/ Rotate(w) \/ Step(w) \/ Abort(w)
      PROVE  KeysInv' /\ (ActiveKeys # {} => ActiveKeys' # {})
    BY <1>2, CommitStep, QuietStep DEF Step
<1>3. ASSUME NEW k \in Keys, Age(k)
      PROVE  KeysInv' /\ (ActiveKeys # {} => ActiveKeys' # {})
    BY <1>3, AgeStep
<1> QED
    BY <1>1, <1>2, <1>3 DEF Next

-----------------------------------------------------------------------------
\* Rotations, first uses and renewals under the advisory lock keep KeysInv.
THEOREM KeysInvariant == Spec => []KeysInv
<1>1. KeysInv /\ [Next]_vars => KeysInv'
    BY KeysStep
<1> QED
    BY <1>1, KeysInit, PTL DEF Spec

\* The partial unique index never refuses a rotation's new row.
THEOREM NoCollision == Spec => []RotationsDoNotCollide
<1>1. KeysInv => RotationsDoNotCollide
    BY DEF KeysInv, RotationFits, RotationsDoNotCollide, Conflict
<1> QED
    BY <1>1, KeysInvariant, PTL

\* Every signature can be verified with the keys JWKS publishes.
THEOREM Verifiable == Spec => []SignaturesVerifiable
<1>1. KeysInv => SignaturesVerifiable
    BY DEF KeysInv, KeysHaveRows, SignaturesVerifiable, Published
<1> QED
    BY <1>1, KeysInvariant, PTL

\* Once there is an active key, there always is one.
THEOREM KeyAvailable == Spec => AlwaysAKey
<1>1. KeysInv /\ [Next]_vars => [ActiveKeys # {} => ActiveKeys' # {}]_vars
    BY KeysStep
<1> QED
    BY <1>1, KeysInvariant, PTL DEF Spec, AlwaysAKey
=============================================================================
