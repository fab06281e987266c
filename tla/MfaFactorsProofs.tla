-------------------------- MODULE MfaFactorsProofs --------------------------
(***************************************************************************)
(* Theorems about MfaFactors.  For any number of requests at the same      *)
(* time: a removed TOTP factor does not come back, and no session gains    *)
(* assurance from a request that a reset overtook.  If requests come one   *)
(* at a time: the active secret was proven, one batch of recovery codes is *)
(* valid, and the last factor stays while the policy demands one.          *)
(***************************************************************************)
EXTENDS MfaFactors, FiniteSetTheorems, TLAPS

USE FactorConstants

-----------------------------------------------------------------------------
(* What a step does to the requests *)

\* Requests go on or end, in the session and the era they were admitted in.
RequestsGoOn ==
    /\ req' \in [Workers -> RequestState]
    /\ \A v \in Workers : req'[v].pc # "idle" =>
          req[v].pc # "idle" /\ req'[v].s = req[v].s /\ req'[v].epoch = req[v].epoch

\* A request in progress writes down what it has read.
LEMMA RequestGoesOn ==
    ASSUME TypeOK, NEW w \in Workers, NEW r \in RequestState, req[w].pc # "idle",
           r.s = req[w].s, r.epoch = req[w].epoch, req' = [req EXCEPT ![w] = r]
    PROVE  RequestsGoOn /\ req'[w] = r
BY DEF TypeOK, RequestsGoOn

\* A request that ends leaves no trace.
LEMMA EndState ==
    ASSUME TypeOK, NEW w \in Workers, End(w)
    PROVE  RequestsGoOn /\ req'[w].pc = "idle"
<1>1. NoRequest \in RequestState /\ NoRequest.pc = "idle"
  <2>1. 0 \in 0..MaxResets
    OBVIOUS
  <2> QED
    BY <2>1 DEF NoRequest, RequestState, Pcs
<1>2. req \in [Workers -> RequestState] /\ req' = [req EXCEPT ![w] = NoRequest]
    BY DEF TypeOK, End
<1> HIDE DEF NoRequest
<1>3. req' \in [Workers -> RequestState] /\ req'[w] = NoRequest
      /\ \A v \in Workers \ {w} : req'[v] = req[v]
    BY <1>1, <1>2
<1> QED
    BY <1>1, <1>3 DEF RequestsGoOn

\* A request goes on to its next statement.
LEMMA GotoState ==
    ASSUME TypeOK, NEW w \in Workers, NEW pc \in Pcs, req[w].pc # "idle", Goto(w, pc)
    PROVE  /\ RequestsGoOn
           /\ req'[w].pc = pc /\ req'[w].arg = req[w].arg /\ req'[w].snap = req[w].snap
<1> DEFINE r == [req[w] EXCEPT !.pc = pc]
<1>1. req' = [req EXCEPT ![w] = r] /\ req[w] \in RequestState
    BY DEF Goto, TypeOK
<1>2. r \in RequestState
    BY <1>1 DEF RequestState
<1>3. /\ r.pc = pc /\ r.s = req[w].s /\ r.epoch = req[w].epoch
      /\ r.arg = req[w].arg /\ r.snap = req[w].snap
    BY <1>1 DEF RequestState
<1> HIDE DEF r
<1> QED
    BY <1>1, <1>2, <1>3, RequestGoesOn

\* A request that reads an argument goes on with it.
LEMMA ArgumentRead ==
    ASSUME TypeOK, NEW w \in Workers, NEW pc \in Pcs, NEW a \in Secrets \cup Keys,
           req[w].pc # "idle", req' = [req EXCEPT ![w].pc = pc, ![w].arg = a]
    PROVE  RequestsGoOn /\ req'[w].pc = pc /\ req'[w].arg = a
<1> DEFINE r == [req[w] EXCEPT !.pc = pc, !.arg = a]
<1>1. req' = [req EXCEPT ![w] = r] /\ req[w] \in RequestState
    BY DEF TypeOK
<1>2. r \in RequestState
    BY <1>1 DEF RequestState
<1>3. r.pc = pc /\ r.s = req[w].s /\ r.epoch = req[w].epoch /\ r.arg = a
    BY <1>1 DEF RequestState
<1> HIDE DEF r
<1> QED
    BY <1>1, <1>2, <1>3, RequestGoesOn

\* A request that takes a snapshot of recovery codes goes on with it.
LEMMA SnapshotTaken ==
    ASSUME TypeOK, NEW w \in Workers, NEW pc \in Pcs, NEW S \in SUBSET Batches,
           req[w].pc # "idle", req' = [req EXCEPT ![w].pc = pc, ![w].snap = S]
    PROVE  RequestsGoOn /\ req'[w].pc = pc /\ req'[w].arg = req[w].arg /\ req'[w].snap = S
<1> DEFINE r == [req[w] EXCEPT !.pc = pc, !.snap = S]
<1>1. req' = [req EXCEPT ![w] = r] /\ req[w] \in RequestState
    BY DEF TypeOK
<1>2. r \in RequestState
    BY <1>1 DEF RequestState
<1>3. /\ r.pc = pc /\ r.s = req[w].s /\ r.epoch = req[w].epoch
      /\ r.arg = req[w].arg /\ r.snap = S
    BY <1>1 DEF RequestState
<1> HIDE DEF r
<1> QED
    BY <1>1, <1>2, <1>3, RequestGoesOn

\* What AllowMFAMutation makes of an admitted request.
LEMMA Admitted ==
    ASSUME TypeOK, NEW w \in Workers, req[w].pc # "idle",
           req' = [req EXCEPT ![w].pc = req[w].then, ![w].then = "idle", ![w].mfa = FALSE]
    PROVE  RequestsGoOn /\ req'[w].pc = req[w].then
<1> DEFINE r == [req[w] EXCEPT !.pc = req[w].then, !.then = "idle", !.mfa = FALSE]
<1>1. req' = [req EXCEPT ![w] = r] /\ req[w] \in RequestState
    BY DEF TypeOK
<1>2. req[w].then \in Pcs
    BY <1>1 DEF RequestState, Pcs
<1>3. r \in RequestState
    BY <1>1, <1>2 DEF RequestState
<1>4. r.pc = req[w].then /\ r.s = req[w].s /\ r.epoch = req[w].epoch
    BY <1>1 DEF RequestState
<1> HIDE DEF r
<1> QED
    BY <1>1, <1>3, <1>4, RequestGoesOn

\* What EnsureRecoveryCodes makes of a registration.
LEMMA Ensured ==
    ASSUME TypeOK, NEW w \in Workers, NEW pc \in {"regen", "mark"}, req[w].pc # "idle",
           req' = [req EXCEPT ![w].pc = pc, ![w].then = "mark"]
    PROVE  RequestsGoOn /\ req'[w].pc = pc
<1> DEFINE r == [req[w] EXCEPT !.pc = pc, !.then = "mark"]
<1>1. req' = [req EXCEPT ![w] = r] /\ req[w] \in RequestState /\ pc \in Pcs
    BY DEF TypeOK, Pcs, Changes
<1>2. r \in RequestState
    BY <1>1 DEF RequestState
<1>3. r.pc = pc /\ r.s = req[w].s /\ r.epoch = req[w].epoch
    BY <1>1 DEF RequestState
<1> HIDE DEF r
<1> QED
    BY <1>1, <1>2, <1>3, RequestGoesOn

-----------------------------------------------------------------------------
(* What a step does to the stores *)

\* The stores other than sessions stay well-formed.
StoresOK ==
    /\ required' \in BOOLEAN
    /\ totp' \in TotpRow
    /\ totpLock' \in Workers \cup {None}
    /\ HeldRowExists'
    /\ keys' \subseteq Keys
    /\ handle' \in 0..(resets + 1)
    /\ ceremony' \in [Ceremonies -> CeremonyState]
    /\ recovery' \in [Batches -> {"none", "unused", "used"}]
    /\ proven' \subseteq Secrets
    /\ minted' \subseteq Secrets \cup Batches

\* A step of a request that touches no session keeps the invariant.
LEMMA FactorsKept ==
    ASSUME FactorsInv, StoresOK, RequestsGoOn, UNCHANGED <<session, resets>>
    PROVE  FactorsInv'
<1>1. TypeOK'
  <2>1. CeremonyState' = CeremonyState
    BY DEF CeremonyState
  <2> QED
    BY <2>1 DEF FactorsInv, TypeOK, StoresOK, RequestsGoOn
<1>2. ResetsRevoke'
    BY DEF FactorsInv, ResetsRevoke, RequestsGoOn
<1> QED
    BY <1>1, <1>2 DEF FactorsInv, StoresOK

\* A step that touches no store keeps them well-formed.
LEMMA StoresUnchanged ==
    ASSUME FactorsInv,
           UNCHANGED <<required, totp, totpLock, keys, handle, ceremony, recovery, proven, minted>>
    PROVE  StoresOK
BY DEF FactorsInv, TypeOK, HeldRowExists, StoresOK

\* A step on the TOTP row keeps the stores well-formed if it keeps that row so.
LEMMA TotpWritten ==
    ASSUME FactorsInv, UNCHANGED <<required, keys, handle, ceremony>>,
           totp' \in TotpRow, totpLock' \in Workers \cup {None}, HeldRowExists',
           recovery' \in [Batches -> {"none", "unused", "used"}],
           proven' \subseteq Secrets, minted' \subseteq Secrets \cup Batches
    PROVE  StoresOK
BY DEF FactorsInv, TypeOK, StoresOK

\* Keys, the user handle and ceremonies are written apart from the TOTP row.
LEMMA KeysWritten ==
    ASSUME FactorsInv, UNCHANGED <<required, totp, totpLock, recovery, proven, minted>>,
           keys' \subseteq Keys, handle' \in 0..(resets + 1),
           ceremony' \in [Ceremonies -> CeremonyState]
    PROVE  StoresOK
BY DEF FactorsInv, TypeOK, HeldRowExists, StoresOK

\* A ceremony is stored, or consumed, whatever its token.
LEMMA CeremonyWritten ==
    ASSUME FactorsInv, NEW c, NEW k \in {"none", "register", "login", "used"},
           NEW h \in 0..(resets + 1),
           ceremony' = [ceremony EXCEPT ![c] = [kind |-> k, handle |-> h]]
    PROVE  ceremony' \in [Ceremonies -> CeremonyState]
<1> DEFINE new == [kind |-> k, handle |-> h]
<1>1. new \in CeremonyState
    BY DEF CeremonyState
<1>2. ceremony' = [ceremony EXCEPT ![c] = new]
    OBVIOUS
<1> HIDE DEF new
<1> QED
    BY <1>1, <1>2 DEF FactorsInv, TypeOK

-----------------------------------------------------------------------------
(* Requests and their sessions *)

\* A request is admitted in a session that is not revoked, and in this era.
LEMMA AuthenticateStep ==
    ASSUME FactorsInv, NEW w \in Workers, NEW s \in Sessions, Request(w, s)
    PROVE  FactorsInv' /\ req'[w].pc \in {"admit"} \cup Verifications
<1>0. PICK op \in Ops \cap (Changes \cup Verifications) :
         \E a \in Arguments(op) : Authenticate(w, s, op, a)
    BY DEF Request
<1>1. PICK a \in Arguments(op) : Authenticate(w, s, op, a)
    BY <1>0
<1> DEFINE pc == IF op \in Changes THEN "admit" ELSE op
           then == IF op \in Changes THEN op ELSE "idle"
           mfa == op \in Changes /\ session[s] = "verified"
           r == [NoRequest EXCEPT !.s = s, !.arg = a, !.epoch = resets, !.pc = pc,
                                  !.then = then, !.mfa = mfa]
<1>2. /\ req' = [req EXCEPT ![w] = r] /\ Markable(s)
      /\ UNCHANGED <<required, totp, totpLock, keys, handle, ceremony, recovery, session,
                     proven, minted, resets>>
    BY <1>1 DEF Authenticate
<1>3. pc \in {"admit"} \cup Verifications /\ then \in Changes \cup {"idle"} /\ mfa \in BOOLEAN
    OBVIOUS
<1> HIDE DEF pc, then, mfa
<1>4. a \in Keys \cup Ceremonies \cup Batches \cup {None}
    BY <1>1 DEF Arguments, FactorsInv, TypeOK, Stored
<1>5. r \in RequestState
  <2>1. resets \in 0..MaxResets
    BY DEF FactorsInv, TypeOK
  <2>2. pc \in Pcs
    BY <1>3 DEF Pcs
  <2> QED
    BY <1>3, <1>4, <2>1, <2>2 DEF NoRequest, RequestState
<1>6. r.pc = pc /\ r.s = s /\ r.epoch = resets
    BY DEF NoRequest
<1> HIDE DEF r
<1>7. /\ req' \in [Workers -> RequestState] /\ req'[w] = r
      /\ \A v \in Workers \ {w} : req'[v] = req[v]
    BY <1>2, <1>5 DEF FactorsInv, TypeOK
<1>8. TypeOK'
    BY <1>2, <1>7 DEF FactorsInv, TypeOK, CeremonyState
<1>9. ResetsRevoke' /\ HeldRowExists'
    BY <1>2, <1>6, <1>7 DEF FactorsInv, ResetsRevoke, HeldRowExists, Markable
<1> QED
    BY <1>3, <1>6, <1>7, <1>8, <1>9 DEF FactorsInv

\* Admission touches no factor.
LEMMA AllowMFAMutationStep ==
    ASSUME FactorsInv, NEW w \in Workers, AllowMFAMutation(w)
    PROVE  FactorsInv' /\ req'[w].pc \in {"idle", "mark"} \cup Changes
<1>1. /\ req[w].pc = "admit"
      /\ UNCHANGED <<required, totp, totpLock, keys, handle, ceremony, recovery, session,
                     proven, minted, resets>>
      /\ \/ req' = [req EXCEPT ![w].pc = req[w].then, ![w].then = "idle", ![w].mfa = FALSE]
         \/ End(w)
    BY DEF AllowMFAMutation
<1>2. req[w].then \in {"idle", "mark"} \cup Changes
    BY DEF FactorsInv, TypeOK, RequestState
<1>3. RequestsGoOn /\ req'[w].pc \in {"idle", "mark"} \cup Changes
    BY <1>1, <1>2, Admitted, EndState DEF FactorsInv
<1> QED
    BY <1>1, <1>3, StoresUnchanged, FactorsKept

\* A session that is marked existed and was not revoked.
LEMMA MarkSessionStep ==
    ASSUME FactorsInv, NEW w \in Workers, MarkSession(w)
    PROVE  FactorsInv' /\ req'[w].pc = "idle"
<1>1. /\ End(w)
      /\ UNCHANGED <<required, totp, totpLock, keys, handle, ceremony, recovery, proven,
                     minted, resets>>
      /\ session' = IF Markable(req[w].s) THEN [session EXCEPT ![req[w].s] = "verified"]
                                          ELSE session
    BY DEF MarkSession
<1>2. RequestsGoOn /\ req'[w].pc = "idle"
    BY <1>1, EndState DEF FactorsInv
<1>3. /\ session' \in [Sessions -> {"none", "live", "verified", "revoked"}]
      /\ \A s \in Sessions : /\ session[s] # "none" => session'[s] # "none"
                             /\ session[s] = "revoked" => session'[s] = "revoked"
    BY <1>1 DEF FactorsInv, TypeOK, Markable
<1>4. TypeOK'
    BY <1>1, <1>2, <1>3 DEF FactorsInv, TypeOK, CeremonyState, RequestsGoOn
<1>5. ResetsRevoke' /\ HeldRowExists'
    BY <1>1, <1>2, <1>3 DEF FactorsInv, ResetsRevoke, RequestsGoOn, HeldRowExists
<1> QED
    BY <1>2, <1>4, <1>5 DEF FactorsInv

\* A failure gives back the lock of its own transaction.
LEMMA FailRequestStep ==
    ASSUME FactorsInv, NEW w \in Workers, FailRequest(w)
    PROVE  FactorsInv' /\ req'[w].pc = "idle"
<1>1. /\ End(w) /\ totpLock' = Unlocked(w)
      /\ UNCHANGED <<required, totp, keys, handle, ceremony, recovery, session, proven,
                     minted, resets>>
    BY DEF FailRequest
<1>2. RequestsGoOn /\ req'[w].pc = "idle"
    BY <1>1, EndState DEF FactorsInv
<1>3. StoresOK
    BY <1>1, TotpWritten DEF FactorsInv, TypeOK, HeldRowExists, Unlocked
<1> QED
    BY <1>1, <1>2, <1>3, FactorsKept

-----------------------------------------------------------------------------
(* TOTP *)

\* Statements that read, and decide whether their request goes on.
LEMMA ReadingStep ==
    ASSUME FactorsInv, NEW w \in Workers, NEW pc \in Pcs, req[w].pc # "idle",
           UNCHANGED <<required, totp, totpLock, keys, handle, ceremony, recovery, session,
                       proven, minted, resets>>,
           End(w) \/ Goto(w, pc)
    PROVE  FactorsInv' /\ req'[w].pc \in {"idle", pc}
<1>1. RequestsGoOn /\ req'[w].pc \in {"idle", pc}
    BY EndState, GotoState DEF FactorsInv
<1> QED
    BY <1>1, StoresUnchanged, FactorsKept

\* The upsert waits for the row's lock and writes a new pending secret.
LEMMA UpsertTOTPStep ==
    ASSUME FactorsInv, NEW w \in Workers, UpsertTOTP(w)
    PROVE  FactorsInv' /\ req'[w].pc = "idle"
<1>1. /\ End(w) /\ totpLock = None
      /\ UNCHANGED <<required, totpLock, keys, handle, ceremony, recovery, session, proven,
                     resets>>
    BY DEF UpsertTOTP
<1>2. PICK x \in Secrets \ minted : /\ totp' = [st |-> "pending", secret |-> x]
                                     /\ minted' = minted \cup {x}
    BY DEF UpsertTOTP
<1>3. StoresOK
  <2>1. totp' \in TotpRow /\ HeldRowExists'
    BY <1>1, <1>2 DEF TotpRow, HeldRowExists
  <2>2. /\ totpLock' \in Workers \cup {None} /\ proven' \subseteq Secrets
        /\ recovery' \in [Batches -> {"none", "unused", "used"}]
        /\ minted' \subseteq Secrets \cup Batches
    BY <1>1, <1>2 DEF FactorsInv, TypeOK
  <2> QED
    BY <1>1, <2>1, <2>2, TotpWritten
<1> QED
    BY <1>1, <1>3, EndState, FactorsKept DEF FactorsInv

\* The secret that a confirmation proves is the one in the row.
LEMMA ConfirmTOTPStep ==
    ASSUME FactorsInv, NEW w \in Workers, ConfirmTOTP(w)
    PROVE  /\ FactorsInv'
           /\ \/ req'[w].pc = "idle" /\ proven' = proven
              \/ /\ req'[w].pc = "activate" /\ req'[w].arg = totp.secret
                 /\ proven' = proven \cup {totp.secret}
<1>1. /\ req[w].pc = "confirm"
      /\ UNCHANGED <<required, totp, totpLock, keys, handle, ceremony, recovery, session,
                     minted, resets>>
    BY DEF ConfirmTOTP
<1>2. CASE totp.st = "none"
  <2>1. End(w) /\ UNCHANGED proven
    BY <1>2 DEF ConfirmTOTP
  <2> QED
    BY <1>1, <2>1, EndState, StoresUnchanged, FactorsKept DEF FactorsInv
<1>3. CASE totp.st # "none"
  <2>1. /\ req' = [req EXCEPT ![w].pc = "activate", ![w].arg = totp.secret]
        /\ proven' = proven \cup {totp.secret} /\ totp.secret \in Secrets
    BY <1>3 DEF ConfirmTOTP, FactorsInv, HeldRowExists
  <2>2. RequestsGoOn /\ req'[w].pc = "activate" /\ req'[w].arg = totp.secret
    BY <1>1, <2>1, ArgumentRead DEF FactorsInv, Pcs
  <2>3. StoresOK
    BY <1>1, <2>1, TotpWritten DEF FactorsInv, TypeOK, HeldRowExists
  <2> QED
    BY <1>1, <2>1, <2>2, <2>3, FactorsKept
<1> QED
    BY <1>2, <1>3

\* The activation locks a row only if there is one.
LEMMA ActivateTOTPStep ==
    ASSUME FactorsInv, NEW w \in Workers, ActivateTOTP(w)
    PROVE  /\ FactorsInv'
           /\ req'[w].pc = "activated" /\ req'[w].arg = req[w].arg /\ req'[w].snap = Unused
<1>1. /\ req[w].pc = "activate" /\ totpLock' = IF totp.st = "none" THEN None ELSE w
      /\ req' = [req EXCEPT ![w].pc = "activated", ![w].snap = Unused]
      /\ UNCHANGED <<required, totp, keys, handle, ceremony, recovery, session, proven,
                     minted, resets>>
    BY DEF ActivateTOTP
<1>2. Unused \in SUBSET Batches /\ "activated" \in Pcs
    BY DEF Unused, Pcs
<1>3. /\ RequestsGoOn
      /\ req'[w].pc = "activated" /\ req'[w].arg = req[w].arg /\ req'[w].snap = Unused
  <2>1. TypeOK /\ req[w].pc # "idle"
    BY <1>1 DEF FactorsInv
  <2>2. req' = [req EXCEPT ![w].pc = "activated", ![w].snap = Unused]
    BY <1>1
  <2> HIDE <1>1
  <2> QED
    BY <1>2, <2>1, <2>2, SnapshotTaken, ZenonT(40)
<1>4. StoresOK
    BY <1>1, TotpWritten DEF FactorsInv, TypeOK, HeldRowExists
<1> QED
    BY <1>1, <1>3, <1>4, FactorsKept

\* A confirmation activates the row it holds and creates none; it adds a batch of
\* recovery codes if it has counted none.
LEMMA CommitTOTPStep ==
    ASSUME FactorsInv, NEW w \in Workers, CommitTOTP(w)
    PROVE  /\ FactorsInv' /\ req'[w].pc = "mark"
           /\ totp' \in {totp, [totp EXCEPT !.st = "active"]}
           /\ totp.st = "none" => totp' = totp
           /\ \/ UNCHANGED recovery
              \/ /\ req[w].snap = {}
                 /\ \E b \in Batches : recovery' = [recovery EXCEPT ![b] = "unused"]
<1>1. /\ req[w].pc = "activated" /\ Goto(w, "mark") /\ totpLock' = Unlocked(w)
      /\ totp' = IF totpLock = w THEN [totp EXCEPT !.st = "active"] ELSE totp
      /\ UNCHANGED <<required, keys, handle, ceremony, session, proven, resets>>
    BY DEF CommitTOTP, RowAfterConfirm
<1>2. totpLock = w => totp.st # "none"
    BY DEF FactorsInv, HeldRowExists
<1>3. totp' \in TotpRow /\ HeldRowExists' /\ totpLock' \in Workers \cup {None}
    BY <1>1, <1>2 DEF FactorsInv, TypeOK, HeldRowExists, TotpRow, Unlocked
<1>4. /\ \/ UNCHANGED recovery
         \/ /\ req[w].snap = {}
            /\ \E b \in Batches : recovery' = [recovery EXCEPT ![b] = "unused"]
      /\ recovery' \in [Batches -> {"none", "unused", "used"}]
      /\ minted' \subseteq Secrets \cup Batches
    BY DEF CommitTOTP, FactorsInv, TypeOK
<1>5. StoresOK
    BY <1>1, <1>3, <1>4, TotpWritten DEF FactorsInv, TypeOK
<1>6. RequestsGoOn /\ req'[w].pc = "mark"
    BY <1>1, GotoState DEF FactorsInv, Pcs
<1> QED
    BY <1>1, <1>2, <1>4, <1>5, <1>6, FactorsKept

\* The DELETE waits for the row's lock.
LEMMA DeleteTOTPStep ==
    ASSUME FactorsInv, NEW w \in Workers, DeleteTOTP(w)
    PROVE  FactorsInv' /\ req'[w].pc = "idle"
<1>1. /\ End(w) /\ totpLock = None /\ totp' = NoTotp
      /\ UNCHANGED <<required, totpLock, keys, handle, ceremony, recovery, session, proven,
                     minted, resets>>
    BY DEF DeleteTOTP
<1>2. totp' \in TotpRow /\ HeldRowExists'
    BY <1>1 DEF NoTotp, TotpRow, HeldRowExists
<1>3. StoresOK
    BY <1>1, <1>2, TotpWritten DEF FactorsInv, TypeOK
<1> QED
    BY <1>1, <1>3, EndState, FactorsKept DEF FactorsInv

-----------------------------------------------------------------------------
(* WebAuthn *)

\* A handle is made in this era, and a ceremony is stored with it.
LEMMA BeginRegistrationStep ==
    ASSUME FactorsInv, NEW w \in Workers, NEW c \in Ceremonies, BeginRegistration(w, c)
    PROVE  FactorsInv' /\ req'[w].pc = "idle"
<1>1. /\ End(w) /\ handle' = HandleEnsured
      /\ ceremony' = [ceremony EXCEPT ![c] = [kind |-> "register", handle |-> handle']]
      /\ UNCHANGED <<required, totp, totpLock, keys, recovery, session, proven, minted, resets>>
    BY DEF BeginRegistration
<1>2. handle' \in 0..(resets + 1)
    BY <1>1 DEF FactorsInv, TypeOK, HandleEnsured
<1>3. ceremony' \in [Ceremonies -> CeremonyState]
    BY <1>1, <1>2, CeremonyWritten
<1>4. StoresOK
    BY <1>1, <1>2, <1>3, KeysWritten DEF FactorsInv, TypeOK
<1> QED
    BY <1>1, <1>4, EndState, FactorsKept DEF FactorsInv

\* A login ceremony names the handle it was begun with.
LEMMA BeginLoginStep ==
    ASSUME FactorsInv, NEW w \in Workers, NEW c \in Ceremonies, BeginLogin(w, c)
    PROVE  FactorsInv' /\ req'[w].pc = "idle"
<1>1. /\ End(w)
      /\ \/ ceremony' = [ceremony EXCEPT ![c] = [kind |-> "login", handle |-> handle]]
         \/ ceremony' = ceremony
      /\ UNCHANGED <<required, totp, totpLock, keys, handle, recovery, session, proven,
                     minted, resets>>
    BY DEF BeginLogin
<1>2. handle \in 0..(resets + 1) /\ ceremony \in [Ceremonies -> CeremonyState]
    BY DEF FactorsInv, TypeOK
<1>3. ceremony' \in [Ceremonies -> CeremonyState]
    BY <1>1, <1>2, CeremonyWritten
<1>4. StoresOK
    BY <1>1, <1>2, <1>3, KeysWritten DEF FactorsInv, TypeOK
<1> QED
    BY <1>1, <1>4, EndState, FactorsKept DEF FactorsInv

\* A token that is consumed leaves a ceremony that nothing accepts.
LEMMA ConsumedOK ==
    ASSUME FactorsInv, NEW c, Consumed(c) \/ UNCHANGED ceremony,
           UNCHANGED <<required, totp, totpLock, keys, handle, recovery, proven, minted>>
    PROVE  StoresOK
<1>1. /\ 0 \in 0..(resets + 1) /\ handle \in 0..(resets + 1)
      /\ ceremony \in [Ceremonies -> CeremonyState] /\ keys \subseteq Keys
    BY DEF FactorsInv, TypeOK
<1>2. ceremony' \in [Ceremonies -> CeremonyState]
    BY <1>1, CeremonyWritten DEF Consumed
<1> QED
    BY <1>1, <1>2, KeysWritten

\* The end of a registration takes its ceremony.
LEMMA FinishRegistrationStep ==
    ASSUME FactorsInv, NEW w \in Workers, FinishRegistration(w)
    PROVE  FactorsInv' /\ req'[w].pc \in {"idle", "regstore"}
<1>1. /\ req[w].pc = "regfinish" /\ (End(w) \/ Goto(w, "regstore"))
      /\ Consumed(req[w].arg) \/ UNCHANGED ceremony
      /\ UNCHANGED <<required, totp, totpLock, keys, handle, recovery, session, proven,
                     minted, resets>>
    BY DEF FinishRegistration
<1>2. StoresOK
    BY <1>1, ConsumedOK
<1>3. RequestsGoOn /\ req'[w].pc \in {"idle", "regstore"}
    BY <1>1, EndState, GotoState DEF FactorsInv, Pcs
<1> QED
    BY <1>1, <1>2, <1>3, FactorsKept

\* The end of a login takes its ceremony and names a credential.
LEMMA FinishLoginStep ==
    ASSUME FactorsInv, NEW w \in Workers, FinishLogin(w)
    PROVE  FactorsInv' /\ req'[w].pc \in {"idle", "wverify"}
<1>1. /\ req[w].pc = "wfinish"
      /\ \/ End(w)
         \/ \E k \in keys : req' = [req EXCEPT ![w].pc = "wverify", ![w].arg = k]
      /\ Consumed(req[w].arg) \/ UNCHANGED ceremony
      /\ UNCHANGED <<required, totp, totpLock, keys, handle, recovery, session, proven,
                     minted, resets>>
    BY DEF FinishLogin
<1>2. StoresOK
    BY <1>1, ConsumedOK
<1>3. RequestsGoOn /\ req'[w].pc \in {"idle", "wverify"}
  <2>1. CASE End(w)
    BY <2>1, EndState DEF FactorsInv
  <2>2. ASSUME NEW k \in keys, req' = [req EXCEPT ![w].pc = "wverify", ![w].arg = k]
        PROVE  <1>3
    <3>1. TypeOK /\ req[w].pc # "idle" /\ k \in Secrets \cup Keys /\ "wverify" \in Pcs
      BY <1>1 DEF FactorsInv, TypeOK, Pcs
    <3> HIDE <1>1
    <3>2. RequestsGoOn /\ req'[w].pc = "wverify"
      BY <2>2, <3>1, ArgumentRead, Zenon
    <3> QED
      BY <3>2
  <2> QED
    BY <1>1, <2>1, <2>2
<1> QED
    BY <1>1, <1>2, <1>3, FactorsKept

\* A registered key is stored.
LEMMA StoreCredentialStep ==
    ASSUME FactorsInv, NEW w \in Workers, NEW k \in Keys, StoreCredential(w, k)
    PROVE  FactorsInv' /\ req'[w].pc = "ensure"
<1>1. /\ req[w].pc = "regstore" /\ Goto(w, "ensure") /\ keys' = keys \cup {k}
      /\ UNCHANGED <<required, totp, totpLock, handle, ceremony, recovery, session, proven,
                     minted, resets>>
    BY DEF StoreCredential
<1>2. StoresOK
    BY <1>1, KeysWritten DEF FactorsInv, TypeOK
<1>3. RequestsGoOn /\ req'[w].pc = "ensure"
    BY <1>1, GotoState DEF FactorsInv, Pcs
<1> QED
    BY <1>1, <1>2, <1>3, FactorsKept

\* A key is removed.
LEMMA DeleteCredentialStep ==
    ASSUME FactorsInv, NEW w \in Workers, DeleteCredential(w)
    PROVE  FactorsInv' /\ req'[w].pc = "idle"
<1>1. /\ End(w) /\ keys' = keys \ {req[w].arg}
      /\ UNCHANGED <<required, totp, totpLock, handle, ceremony, recovery, session, proven,
                     minted, resets>>
    BY DEF DeleteCredential
<1>2. StoresOK
    BY <1>1, KeysWritten DEF FactorsInv, TypeOK
<1> QED
    BY <1>1, <1>2, EndState, FactorsKept DEF FactorsInv

-----------------------------------------------------------------------------
(* Recovery codes *)

\* A step on recovery codes keeps the stores well-formed.
LEMMA RecoveryWritten ==
    ASSUME FactorsInv, UNCHANGED <<required, totp, totpLock, keys, handle, ceremony, proven>>,
           recovery' \in [Batches -> {"none", "unused", "used"}],
           minted' \subseteq Secrets \cup Batches
    PROVE  StoresOK
BY DEF FactorsInv, TypeOK, StoresOK, HeldRowExists

\* A registration makes sure of a recovery code.
LEMMA EnsureRecoveryCodesStep ==
    ASSUME FactorsInv, NEW w \in Workers, EnsureRecoveryCodes(w)
    PROVE  FactorsInv' /\ req'[w].pc \in {"regen", "mark"}
<1> DEFINE pc == IF Unused = {} THEN "regen" ELSE "mark"
<1>1. /\ req' = [req EXCEPT ![w].pc = pc, ![w].then = "mark"]
      /\ pc \in {"regen", "mark"} /\ req[w].pc = "ensure"
      /\ UNCHANGED <<required, totp, totpLock, keys, handle, ceremony, recovery, session,
                     proven, minted, resets>>
    BY DEF EnsureRecoveryCodes
<1> HIDE DEF pc
<1>2. RequestsGoOn /\ req'[w].pc = pc
    BY <1>1, Ensured DEF FactorsInv
<1> QED
    BY <1>1, <1>2, StoresUnchanged, FactorsKept

\* The snapshot is what is stored now.
LEMMA DeleteSnapshotStep ==
    ASSUME FactorsInv, NEW w \in Workers, DeleteSnapshot(w)
    PROVE  FactorsInv' /\ req'[w].pc = "regenwait" /\ req'[w].snap = Stored
<1>1. /\ req[w].pc = "regen"
      /\ req' = [req EXCEPT ![w].pc = "regenwait", ![w].snap = Stored]
      /\ UNCHANGED <<required, totp, totpLock, keys, handle, ceremony, recovery, session,
                     proven, minted, resets>>
    BY DEF DeleteSnapshot
<1>2. RequestsGoOn /\ req'[w].pc = "regenwait" /\ req'[w].snap = Stored
  <2>1. TypeOK /\ req[w].pc # "idle" /\ "regenwait" \in Pcs /\ Stored \in SUBSET Batches
    BY <1>1 DEF FactorsInv, Pcs, Stored
  <2>2. req' = [req EXCEPT ![w].pc = "regenwait", ![w].snap = Stored]
    BY <1>1
  <2> HIDE <1>1
  <2> QED
    BY <2>1, <2>2, SnapshotTaken, ZenonT(40)
<1> QED
    BY <1>1, <1>2, StoresUnchanged, FactorsKept

\* The DELETE holds what is in its snapshot.
LEMMA DeleteAcquireStep ==
    ASSUME FactorsInv, NEW w \in Workers, DeleteAcquire(w)
    PROVE  FactorsInv' /\ req'[w].pc = "regenheld" /\ req'[w].snap = req[w].snap
<1>1. /\ req[w].pc = "regenwait" /\ Goto(w, "regenheld")
      /\ UNCHANGED <<required, totp, totpLock, keys, handle, ceremony, recovery, session,
                     proven, minted, resets>>
    BY DEF DeleteAcquire
<1>2. RequestsGoOn /\ req'[w].pc = "regenheld" /\ req'[w].snap = req[w].snap
    BY <1>1, GotoState DEF FactorsInv, Pcs
<1> QED
    BY <1>1, <1>2, StoresUnchanged, FactorsKept

\* The commit replaces the codes of the snapshot by new ones.
LEMMA CommitRecoveryCodesStep ==
    ASSUME FactorsInv, NEW w \in Workers, CommitRecoveryCodes(w)
    PROVE  /\ FactorsInv' /\ req'[w].pc \in {"idle", "mark"}
           /\ \E b \in Batches : recovery' = [CodesDeleted(w) EXCEPT ![b] = "unused"]
<1>1. /\ req[w].pc = "regenheld" /\ (End(w) \/ Goto(w, "mark"))
      /\ UNCHANGED <<required, totp, totpLock, keys, handle, ceremony, session, proven, resets>>
    BY DEF CommitRecoveryCodes
<1>2. PICK b \in Batches \ minted : /\ recovery' = [CodesDeleted(w) EXCEPT ![b] = "unused"]
                                    /\ minted' = minted \cup {b}
    BY DEF CommitRecoveryCodes
<1>3. CodesDeleted(w) \in [Batches -> {"none", "unused", "used"}]
    BY DEF CodesDeleted, FactorsInv, TypeOK
<1>4. StoresOK
    BY <1>1, <1>2, <1>3, RecoveryWritten DEF FactorsInv, TypeOK
<1>5. RequestsGoOn /\ req'[w].pc \in {"idle", "mark"}
    BY <1>1, EndState, GotoState DEF FactorsInv, Pcs
<1> QED
    BY <1>1, <1>2, <1>4, <1>5, FactorsKept

\* A code is spent once.
LEMMA VerifyRecoveryCodeStep ==
    ASSUME FactorsInv, NEW w \in Workers, VerifyRecoveryCode(w)
    PROVE  /\ FactorsInv' /\ req'[w].pc \in {"idle", "mark"}
           /\ \A b \in Batches : recovery'[b] = "unused" => recovery[b] = "unused"
<1>1. /\ req[w].pc = "recover" /\ (End(w) \/ Goto(w, "mark"))
      /\ UNCHANGED <<required, totp, totpLock, keys, handle, ceremony, session, proven,
                     minted, resets>>
      /\ recovery' = recovery \/ recovery' = [recovery EXCEPT ![req[w].arg] = "used"]
    BY DEF VerifyRecoveryCode
<1>2. /\ recovery' \in [Batches -> {"none", "unused", "used"}]
      /\ \A b \in Batches : recovery'[b] = "unused" => recovery[b] = "unused"
    BY <1>1 DEF FactorsInv, TypeOK
<1>3. StoresOK
    BY <1>1, <1>2, RecoveryWritten DEF FactorsInv, TypeOK
<1>4. RequestsGoOn /\ req'[w].pc \in {"idle", "mark"}
    BY <1>1, EndState, GotoState DEF FactorsInv, Pcs
<1> QED
    BY <1>1, <1>2, <1>3, <1>4, FactorsKept

-----------------------------------------------------------------------------
(* Administration, other sessions and the clock *)

\* A reset revokes every session, so every request is of a revoked one.
LEMMA ResetUserStep ==
    ASSUME FactorsInv, ResetUser
    PROVE  FactorsInv'
<1>1. /\ totpLock = None /\ totp' = NoTotp /\ recovery' = [b \in Batches |-> "none"]
      /\ keys' = {} /\ handle' = 0 /\ resets < MaxResets /\ resets' = resets + 1
      /\ session' = [s \in Sessions |-> IF Markable(s) THEN "revoked" ELSE session[s]]
      /\ UNCHANGED <<required, totpLock, ceremony, req, proven, minted>>
    BY DEF ResetUser
<1>2. /\ resets \in 0..MaxResets /\ req \in [Workers -> RequestState]
      /\ session \in [Sessions -> {"none", "live", "verified", "revoked"}]
    BY DEF FactorsInv, TypeOK
<1>3. resets' \in 0..MaxResets /\ handle' \in 0..(resets' + 1)
    BY <1>1, <1>2
<1>4. ceremony' \in [Ceremonies -> CeremonyState']
  <2>1. \A h \in 0..(resets + 1) : h \in 0..(resets' + 1)
    BY <1>1, <1>2
  <2>2. CeremonyState \subseteq CeremonyState'
    BY <2>1 DEF CeremonyState
  <2>3. ceremony \in [Ceremonies -> CeremonyState]
    BY DEF FactorsInv, TypeOK
  <2> HIDE DEF CeremonyState
  <2> QED
    BY <1>1, <2>2, <2>3
<1>5. totp' \in TotpRow /\ HeldRowExists'
    BY <1>1 DEF NoTotp, TotpRow, HeldRowExists
<1>6. /\ session' \in [Sessions -> {"none", "live", "verified", "revoked"}]
      /\ \A s \in Sessions : session[s] # "none" => session'[s] = "revoked"
    BY <1>1, <1>2 DEF Markable
<1>7. TypeOK'
    BY <1>1, <1>3, <1>4, <1>5, <1>6 DEF FactorsInv, TypeOK
<1>8. ResetsRevoke'
    BY <1>1, <1>6 DEF FactorsInv, ResetsRevoke
<1> QED
    BY <1>5, <1>7, <1>8 DEF FactorsInv

\* Sessions come and go, the policy changes and ceremonies expire.
LEMMA SurroundingsStep ==
    ASSUME FactorsInv, Environment, ~ResetUser
    PROVE  FactorsInv' /\ UNCHANGED <<totp, keys, recovery, req, proven>>
<1>1. CASE \E s \in Sessions : CreateSession(s) \/ RevokeSession(s)
  <2>1. /\ UNCHANGED <<required, totp, totpLock, keys, handle, ceremony, recovery, req,
                       proven, minted, resets>>
        /\ session' \in [Sessions -> {"none", "live", "verified", "revoked"}]
        /\ \A s \in Sessions : /\ session[s] # "none" => session'[s] # "none"
                               /\ session[s] = "revoked" => session'[s] = "revoked"
    BY <1>1 DEF CreateSession, RevokeSession, FactorsInv, TypeOK
  <2>2. TypeOK'
    BY <2>1 DEF FactorsInv, TypeOK, CeremonyState
  <2>3. ResetsRevoke' /\ HeldRowExists'
    BY <2>1 DEF FactorsInv, ResetsRevoke, HeldRowExists
  <2> QED
    BY <2>1, <2>2, <2>3 DEF FactorsInv
<1>2. RequestsGoOn \/ ~UNCHANGED req
    BY DEF FactorsInv, TypeOK, RequestsGoOn
<1>3. CASE \E c \in Ceremonies : ExpireCeremony(c)
    BY <1>2, <1>3, ConsumedOK, FactorsKept DEF ExpireCeremony
<1>4. CASE SetPolicy
  <2>1. /\ UNCHANGED <<totp, totpLock, keys, handle, ceremony, recovery, session, req,
                       proven, minted, resets>>
        /\ required' \in BOOLEAN
    BY <1>4 DEF SetPolicy
  <2>2. StoresOK
    BY <2>1 DEF FactorsInv, TypeOK, HeldRowExists, StoresOK
  <2> QED
    BY <1>2, <2>1, <2>2, FactorsKept
<1> QED
    BY <1>1, <1>3, <1>4 DEF Environment

-----------------------------------------------------------------------------
(* Any number of requests at the same time *)

\* A user without factors, sessions and requests.
LEMMA FactorsInit == Init => FactorsInv
<1> SUFFICES ASSUME Init PROVE FactorsInv
    OBVIOUS
<1>1. 0 \in 0..MaxResets /\ 0 \in 0..(0 + 1)
    OBVIOUS
<1>2. NoTotp \in TotpRow /\ NoTotp.st = "none"
    BY DEF NoTotp, TotpRow
<1>3. NoRequest \in RequestState /\ NoRequest.pc = "idle"
    BY <1>1 DEF NoRequest, RequestState, Pcs
<1>4. NoCeremony \in CeremonyState
    BY <1>1 DEF Init, NoCeremony, CeremonyState
<1>5. TypeOK
    BY <1>1, <1>2, <1>3, <1>4 DEF Init, TypeOK
<1> QED
    BY <1>2, <1>3, <1>5 DEF Init, FactorsInv, HeldRowExists, ResetsRevoke

\* Statements that read a factor, and what they lead to.
LEMMA ReadersStep ==
    ASSUME FactorsInv, NEW w \in Workers,
           \/ BeginTOTP(w) \/ VerifyTOTP(w) \/ DisableTOTP(w)
           \/ VerifyCredential(w) \/ DeleteWebAuthn(w)
    PROVE  FactorsInv'
<1>1. PICK pc \in Pcs :
        /\ req[w].pc # "idle" /\ (End(w) \/ Goto(w, pc))
        /\ UNCHANGED <<required, totp, totpLock, keys, handle, ceremony, recovery, session,
                       proven, minted, resets>>
    BY DEF BeginTOTP, VerifyTOTP, DisableTOTP, VerifyCredential, DeleteWebAuthn, Pcs
<1> QED
    BY <1>1, ReadingStep

\* Every step keeps the invariant.
LEMMA FactorsStep == FactorsInv /\ [Next]_vars => FactorsInv'
<1> SUFFICES ASSUME FactorsInv, [Next]_vars PROVE FactorsInv'
    OBVIOUS
<1>1. ASSUME NEW w \in Workers, Totp(w) PROVE FactorsInv'
    BY <1>1, ReadersStep, UpsertTOTPStep, ConfirmTOTPStep, ActivateTOTPStep, CommitTOTPStep,
       DeleteTOTPStep DEF Totp
<1>2. ASSUME NEW w \in Workers, WebAuthn(w) PROVE FactorsInv'
    BY <1>2, ReadersStep, BeginRegistrationStep, BeginLoginStep, FinishRegistrationStep,
       FinishLoginStep, StoreCredentialStep, DeleteCredentialStep DEF WebAuthn
<1>3. ASSUME NEW w \in Workers, Recovery(w) PROVE FactorsInv'
    BY <1>3, EnsureRecoveryCodesStep, DeleteSnapshotStep, DeleteAcquireStep,
       CommitRecoveryCodesStep, VerifyRecoveryCodeStep DEF Recovery
<1>4. CASE Environment
    BY <1>4, ResetUserStep, SurroundingsStep
<1>5. CASE UNCHANGED vars
    BY <1>5 DEF vars, FactorsInv, TypeOK, CeremonyState, HeldRowExists, ResetsRevoke
<1> QED
    BY <1>1, <1>2, <1>3, <1>4, <1>5, AuthenticateStep, AllowMFAMutationStep, MarkSessionStep,
       FailRequestStep DEF Next

\* Requests, resets and policy changes keep FactorsInv, however they interleave.
THEOREM FactorsInvariant == Spec => []FactorsInv
<1> QED
    BY FactorsInit, FactorsStep, PTL DEF Spec

\* A removed TOTP factor does not come back, whatever requests overtake it: an
\* activation updates a row that it holds, and creates none.
THEOREM NoRevival == Spec => NoResurrection
<1>1. ASSUME FactorsInv, [Next]_vars
      PROVE  [totp.st = "none" => totp'.st # "active"]_vars
  <2> SUFFICES ASSUME totp.st = "none" PROVE totp'.st # "active"
    OBVIOUS
  <2>1. ASSUME NEW w \in Workers, CommitTOTP(w) PROVE totp' = totp
    BY <1>1, <2>1, CommitTOTPStep
  <2>2. ASSUME NEW w \in Workers, UpsertTOTP(w) \/ DeleteTOTP(w) PROVE totp'.st # "active"
    BY <2>2 DEF UpsertTOTP, DeleteTOTP, NoTotp
  <2>3. CASE ResetUser
    BY <2>3 DEF ResetUser, NoTotp
  <2>4. \/ UNCHANGED totp
        \/ ResetUser
        \/ \E w \in Workers : CommitTOTP(w) \/ UpsertTOTP(w) \/ DeleteTOTP(w)
    BY <1>1, ZenonT(40) DEF Next, vars, Totp, WebAuthn, Recovery, Environment, Request, BeginTOTP,
       ConfirmTOTP, ActivateTOTP, DisableTOTP, VerifyTOTP, BeginRegistration, BeginLogin,
       FinishRegistration, StoreCredential, FinishLogin, VerifyCredential, DeleteWebAuthn,
       DeleteCredential, EnsureRecoveryCodes, DeleteSnapshot, DeleteAcquire,
       CommitRecoveryCodes, VerifyRecoveryCode, Authenticate, AllowMFAMutation, MarkSession,
       FailRequest, CreateSession, RevokeSession, ExpireCeremony, SetPolicy
  <2> QED
    BY <2>1, <2>2, <2>3, <2>4
<1> QED
    BY <1>1, FactorsInvariant, PTL DEF Spec, NoResurrection

\* A session becomes MFA-verified by a request of the same era: a reset has
\* revoked the sessions of all earlier ones.
THEOREM AssuranceEndsWithReset == Spec => NoAssuranceAcrossReset
<1>1. ASSUME FactorsInv, [Next]_vars
      PROVE  [\A s \in Sessions : session[s] # "verified" /\ session'[s] = "verified" =>
                \E w \in Workers : /\ req[w].pc = "mark" /\ req[w].s = s
                                   /\ req[w].epoch = resets]_vars
  <2> SUFFICES ASSUME NEW s \in Sessions, session[s] # "verified", session'[s] = "verified"
               PROVE  \E w \in Workers : /\ req[w].pc = "mark" /\ req[w].s = s
                                         /\ req[w].epoch = resets
    OBVIOUS
  <2>1. session \in [Sessions -> {"none", "live", "verified", "revoked"}]
    BY <1>1 DEF FactorsInv, TypeOK
  <2>2. ASSUME NEW q \in Sessions, CreateSession(q) \/ RevokeSession(q) PROVE FALSE
    BY <2>1, <2>2 DEF CreateSession, RevokeSession
  <2>3. ~ResetUser
    BY <2>1 DEF ResetUser
  <2>4. PICK w \in Workers : MarkSession(w)
    BY <1>1, <2>2, <2>3, ZenonT(40) DEF Next, vars, Totp, WebAuthn, Recovery, Environment, Request,
       BeginTOTP, ConfirmTOTP, UpsertTOTP, ActivateTOTP, CommitTOTP, DisableTOTP, DeleteTOTP,
       VerifyTOTP, BeginRegistration, BeginLogin, FinishRegistration, StoreCredential,
       FinishLogin, VerifyCredential, DeleteWebAuthn, DeleteCredential, EnsureRecoveryCodes,
       DeleteSnapshot, DeleteAcquire, CommitRecoveryCodes, VerifyRecoveryCode, Authenticate,
       AllowMFAMutation, FailRequest, ExpireCeremony, SetPolicy
  <2>5. /\ req[w].pc = "mark"
        /\ session' = IF Markable(req[w].s) THEN [session EXCEPT ![req[w].s] = "verified"]
                                            ELSE session
    BY <2>4 DEF MarkSession
  <2>6. req[w].s = s /\ Markable(s)
    BY <2>1, <2>5
  <2>7. req[w].epoch = resets
    BY <1>1, <2>5, <2>6 DEF FactorsInv, ResetsRevoke, Markable
  <2> QED
    BY <2>5, <2>6, <2>7
<1> QED
    BY <1>1, FactorsInvariant, PTL DEF Spec, NoAssuranceAcrossReset

-----------------------------------------------------------------------------
(* One request at a time *)

\* The request is not between a read and the write that relies on it.
Settled(w) ==
    req'[w].pc \notin {"activate", "activated", "upsert", "drop", "dropkey",
                       "regenwait", "regenheld"}

\* After a settled step the request relies on nothing.
LEMMA SettledReads ==
    ASSUME NEW w \in Workers, Settled(w)
    PROVE  ReadsCurrent(w)' /\ RemovalAllowed(w)'
BY DEF Settled, ReadsCurrent, RemovalAllowed

\* Steps that neither read for a later write nor write a secret or a code.
LEMMA QuietSteps ==
    ASSUME FactorsInv, NEW w \in Workers,
           \/ VerifyTOTP(w) \/ EnsureRecoveryCodes(w)
           \/ WebAuthn(w) /\ ~DeleteWebAuthn(w)
           \/ (\E s \in Sessions : Request(w, s)) \/ AllowMFAMutation(w) \/ MarkSession(w)
           \/ FailRequest(w)
    PROVE  Settled(w) /\ UNCHANGED <<totp, recovery, proven>>
<1>1. CASE VerifyTOTP(w) \/ VerifyCredential(w)
  <2>1. FactorsInv' /\ req'[w].pc \in {"idle", "mark"}
    BY <1>1, ReadingStep DEF VerifyTOTP, VerifyCredential, Pcs
  <2> QED
    BY <1>1, <2>1 DEF Settled, VerifyTOTP, VerifyCredential
<1>2. CASE WebAuthn(w) /\ ~DeleteWebAuthn(w) /\ ~VerifyCredential(w)
  <2>1. req'[w].pc \in {"idle", "regstore", "wverify", "ensure"}
    BY <1>2, BeginRegistrationStep, BeginLoginStep, FinishRegistrationStep, FinishLoginStep,
       StoreCredentialStep, DeleteCredentialStep DEF WebAuthn
  <2>2. UNCHANGED <<totp, recovery, proven>>
    BY <1>2 DEF WebAuthn, BeginRegistration, BeginLogin, FinishRegistration, FinishLogin,
                StoreCredential, DeleteCredential
  <2> QED
    BY <2>1, <2>2 DEF Settled
<1>3. CASE EnsureRecoveryCodes(w)
  <2>1. req'[w].pc \in {"regen", "mark"} /\ UNCHANGED <<totp, recovery, proven>>
    BY <1>3, EnsureRecoveryCodesStep DEF EnsureRecoveryCodes
  <2> QED
    BY <2>1 DEF Settled
<1>4. CASE \E s \in Sessions : Request(w, s)
  <2>1. req'[w].pc \in {"admit"} \cup Verifications /\ UNCHANGED <<totp, recovery, proven>>
    BY <1>4, AuthenticateStep DEF Request, Authenticate
  <2> QED
    BY <2>1 DEF Settled, Verifications
<1>5. CASE AllowMFAMutation(w)
  <2>1. req'[w].pc \in {"idle", "mark"} \cup Changes /\ UNCHANGED <<totp, recovery, proven>>
    BY <1>5, AllowMFAMutationStep DEF AllowMFAMutation
  <2> QED
    BY <2>1 DEF Settled, Changes
<1>6. CASE MarkSession(w) \/ FailRequest(w)
  <2>1. req'[w].pc = "idle" /\ UNCHANGED <<totp, recovery, proven>>
    BY <1>6, MarkSessionStep, FailRequestStep DEF MarkSession, FailRequest
  <2> QED
    BY <2>1 DEF Settled
<1> QED
    BY <1>1, <1>2, <1>3, <1>4, <1>5, <1>6

\* Nothing that is stored changes.
LEMMA SecretsUnchanged ==
    ASSUME SequentialInv, UNCHANGED <<totp, recovery, proven>>
    PROVE  ActiveSecretProven' /\ \A b, c \in Unused' : b = c
BY DEF SequentialInv, ActiveSecretProven, Unused

\* TOTP statements, with the only request in progress.
LEMMA TotpReads ==
    ASSUME SequentialInv, NEW w \in Workers, Totp(w)
    PROVE  ReadsCurrent(w)' /\ ActiveSecretProven' /\ \A b, c \in Unused' : b = c
<1>0. FactorsInv /\ ReadsCurrent(w)
    BY DEF SequentialInv
<1>1. CASE BeginTOTP(w)
  <2>1. /\ req[w].pc = "begin" /\ UNCHANGED <<totp, recovery, proven>>
        /\ End(w) \/ (Goto(w, "upsert") /\ totp.st # "active")
    BY <1>1 DEF BeginTOTP, Enrollable
  <2>2. req'[w].pc = "idle" \/ (req'[w].pc = "upsert" /\ totp.st # "active")
    BY <1>0, <2>1, EndState, GotoState DEF FactorsInv, Pcs
  <2> QED
    BY <2>1, <2>2, SecretsUnchanged DEF ReadsCurrent
<1>2. CASE UpsertTOTP(w)
  <2>1. Settled(w) /\ totp'.st = "pending" /\ UNCHANGED recovery
    BY <1>0, <1>2, UpsertTOTPStep DEF Settled, UpsertTOTP
  <2> QED
    BY <2>1, SettledReads DEF SequentialInv, ActiveSecretProven, Unused
<1>3. CASE ConfirmTOTP(w)
  <2>1. /\ proven \subseteq proven' /\ UNCHANGED <<totp, recovery>>
        /\ \/ req'[w].pc = "idle"
           \/ req'[w].pc = "activate" /\ req'[w].arg = totp.secret /\ totp.secret \in proven'
    BY <1>0, <1>3, ConfirmTOTPStep DEF ConfirmTOTP
  <2> QED
    BY <2>1 DEF SequentialInv, ActiveSecretProven, Unused, ReadsCurrent
<1>4. CASE ActivateTOTP(w)
  <2>1. /\ req[w].pc = "activate" /\ UNCHANGED <<totp, recovery, proven>>
        /\ req'[w].pc = "activated" /\ req'[w].arg = req[w].arg /\ req'[w].snap = Unused
    BY <1>0, <1>4, ActivateTOTPStep DEF ActivateTOTP
  <2>2. Unused' = Unused
    BY <2>1 DEF Unused
  <2> QED
    BY <1>0, <2>1, <2>2, SecretsUnchanged DEF ReadsCurrent
<1>5. CASE CommitTOTP(w)
  <2>1. /\ req[w].pc = "activated" /\ UNCHANGED proven /\ Settled(w)
        /\ totp' \in {totp, [totp EXCEPT !.st = "active"]}
        /\ totp.st = "none" => totp' = totp
        /\ \/ UNCHANGED recovery
           \/ /\ req[w].snap = {}
              /\ \E b \in Batches : recovery' = [recovery EXCEPT ![b] = "unused"]
    BY <1>0, <1>5, CommitTOTPStep DEF Settled, CommitTOTP
  <2>2. totp.st # "none" => totp.secret \in proven
    BY <1>0, <2>1 DEF ReadsCurrent
  <2>3. totp'.secret = totp.secret
    BY <1>0, <2>1 DEF FactorsInv, TypeOK, TotpRow
  <2>4. ActiveSecretProven'
    BY <2>1, <2>2, <2>3 DEF ActiveSecretProven
  <2>5. \A b, c \in Unused' : b = c
    <3>1. CASE UNCHANGED recovery
      BY <3>1 DEF SequentialInv, Unused
    <3>2. ASSUME NEW b \in Batches, req[w].snap = {}, recovery' = [recovery EXCEPT ![b] = "unused"]
          PROVE  <2>5
      <4>1. Unused = {}
        BY <1>0, <2>1, <3>2 DEF ReadsCurrent
      <4> QED
        BY <1>0, <3>2, <4>1 DEF Unused, FactorsInv, TypeOK
    <3> QED
      BY <2>1, <3>1, <3>2
  <2> QED
    BY <2>1, <2>4, <2>5, SettledReads
<1>6. CASE DisableTOTP(w)
  <2>1. req[w].pc = "disable" /\ (End(w) \/ Goto(w, "drop")) /\ UNCHANGED <<totp, recovery, proven>>
    BY <1>6 DEF DisableTOTP
  <2>2. req'[w].pc \in {"idle", "drop"}
    BY <1>0, <2>1, EndState, GotoState DEF FactorsInv, Pcs
  <2> QED
    BY <2>1, <2>2, SecretsUnchanged DEF ReadsCurrent
<1>7. CASE DeleteTOTP(w)
  <2>1. Settled(w) /\ totp'.st = "none" /\ UNCHANGED recovery
    BY <1>0, <1>7, DeleteTOTPStep DEF Settled, DeleteTOTP, NoTotp
  <2> QED
    BY <2>1, SettledReads DEF SequentialInv, ActiveSecretProven, Unused
<1>8. CASE VerifyTOTP(w)
    BY <1>0, <1>8, QuietSteps, SettledReads, SecretsUnchanged
<1> QED
    BY <1>1, <1>2, <1>3, <1>4, <1>5, <1>6, <1>7, <1>8 DEF Totp

\* Recovery-code statements, with the only request in progress.
LEMMA RecoveryReads ==
    ASSUME SequentialInv, NEW w \in Workers, Recovery(w)
    PROVE  ReadsCurrent(w)' /\ ActiveSecretProven' /\ \A b, c \in Unused' : b = c
<1>0. FactorsInv /\ ReadsCurrent(w)
    BY DEF SequentialInv
<1>1. CASE EnsureRecoveryCodes(w)
    BY <1>0, <1>1, QuietSteps, SettledReads, SecretsUnchanged
<1>2. CASE DeleteSnapshot(w)
  <2>1. /\ UNCHANGED <<totp, recovery, proven>>
        /\ req'[w].pc = "regenwait" /\ req'[w].snap = Stored /\ Stored' = Stored
    BY <1>0, <1>2, DeleteSnapshotStep DEF DeleteSnapshot, Stored
  <2> QED
    BY <2>1, SecretsUnchanged DEF ReadsCurrent
<1>3. CASE DeleteAcquire(w)
  <2>1. /\ UNCHANGED <<totp, recovery, proven>> /\ Stored' = Stored /\ req[w].pc = "regenwait"
        /\ req'[w].pc = "regenheld" /\ req'[w].snap = req[w].snap
    BY <1>0, <1>3, DeleteAcquireStep DEF DeleteAcquire, Stored
  <2> QED
    BY <1>0, <2>1, SecretsUnchanged DEF ReadsCurrent
<1>4. CASE CommitRecoveryCodes(w)
  <2>1. /\ UNCHANGED <<totp, proven>> /\ Settled(w) /\ req[w].pc = "regenheld"
    BY <1>0, <1>4, CommitRecoveryCodesStep DEF CommitRecoveryCodes, Settled
  <2>2. PICK b \in Batches : recovery' = [CodesDeleted(w) EXCEPT ![b] = "unused"]
    BY <1>0, <1>4, CommitRecoveryCodesStep
  <2>3. Stored \subseteq req[w].snap
    BY <1>0, <2>1 DEF ReadsCurrent
  <2>4. \A c \in Batches : CodesDeleted(w)[c] = "none"
    BY <2>3 DEF CodesDeleted, Stored
  <2>5. \A c \in Unused' : c = b
    BY <2>2, <2>4 DEF Unused, CodesDeleted
  <2> QED
    BY <2>1, <2>5, SettledReads DEF SequentialInv, ActiveSecretProven
<1>5. CASE VerifyRecoveryCode(w)
  <2>1. /\ UNCHANGED <<totp, proven>> /\ Settled(w)
        /\ \A b \in Batches : recovery'[b] = "unused" => recovery[b] = "unused"
    BY <1>0, <1>5, VerifyRecoveryCodeStep DEF VerifyRecoveryCode, Settled
  <2> QED
    BY <2>1, SettledReads DEF SequentialInv, ActiveSecretProven, Unused
<1> QED
    BY <1>1, <1>2, <1>3, <1>4, <1>5 DEF Recovery

\* A reset leaves no secret and no code; nothing else around a request changes any.
LEMMA EnvironmentReads ==
    ASSUME SequentialInv, Environment
    PROVE  /\ \A w \in Workers : ReadsCurrent(w)'
           /\ ActiveSecretProven' /\ \A b, c \in Unused' : b = c
<1>1. CASE ResetUser
  <2>1. totp'.st = "none" /\ Unused' = {} /\ Stored' = {} /\ UNCHANGED <<req, proven>>
    BY <1>1 DEF ResetUser, NoTotp, Unused, Stored
  <2> QED
    BY <2>1 DEF SequentialInv, ReadsCurrent, ActiveSecretProven
<1>2. CASE ~ResetUser
  <2>1. UNCHANGED <<totp, recovery, proven, req>>
    BY <1>2, SurroundingsStep DEF SequentialInv
  <2> QED
    BY <2>1, SecretsUnchanged DEF SequentialInv, ReadsCurrent, Unused, Stored
<1> QED
    BY <1>1, <1>2

\* If requests come one at a time, every step keeps what they have read current.
LEMMA SequentialStep ==
    ASSUME OneRequestAtATime, SequentialInv, [Next]_vars
    PROVE  SequentialInv'
<1>1. FactorsInv'
    BY FactorsStep DEF SequentialInv
<1>2. ASSUME NEW w \in Workers,
             ReadsCurrent(w)' /\ ActiveSecretProven' /\ (\A b, c \in Unused' : b = c)
      PROVE  SequentialInv'
  <2>1. \A v \in Workers : v = w
    BY DEF OneRequestAtATime
  <2>2. \A v \in Workers : ReadsCurrent(v)'
    BY <1>2, <2>1
  <2> QED
    BY <1>1, <1>2, <2>2 DEF SequentialInv
<1>3. ASSUME NEW w \in Workers, Totp(w) \/ Recovery(w) PROVE SequentialInv'
    BY <1>2, <1>3, TotpReads, RecoveryReads
<1>4. ASSUME NEW w \in Workers, DeleteWebAuthn(w) PROVE SequentialInv'
  <2>1. /\ req[w].pc = "delkey" /\ UNCHANGED <<totp, recovery, proven>>
        /\ End(w) \/ Goto(w, "dropkey")
    BY <1>4 DEF DeleteWebAuthn
  <2>2. req'[w].pc \in {"idle", "dropkey"}
    BY <2>1, EndState, GotoState DEF SequentialInv, FactorsInv, Pcs
  <2>3. ReadsCurrent(w)'
    BY <2>2 DEF ReadsCurrent
  <2> QED
    BY <1>2, <2>1, <2>3, SecretsUnchanged
<1>5. ASSUME NEW w \in Workers,
             \/ WebAuthn(w) /\ ~DeleteWebAuthn(w)
             \/ (\E s \in Sessions : Request(w, s)) \/ AllowMFAMutation(w)
             \/ MarkSession(w) \/ FailRequest(w)
      PROVE  SequentialInv'
  <2>1. Settled(w) /\ UNCHANGED <<totp, recovery, proven>>
    BY <1>5, QuietSteps DEF SequentialInv
  <2> QED
    BY <1>2, <2>1, SettledReads, SecretsUnchanged
<1>6. CASE Environment
    BY <1>1, <1>6, EnvironmentReads DEF SequentialInv
<1>7. CASE UNCHANGED vars
    BY <1>1, <1>7 DEF vars, SequentialInv, ReadsCurrent, ActiveSecretProven, Unused, Stored
<1> QED
    BY <1>3, <1>4, <1>5, <1>6, <1>7 DEF Next

\* One request at a time, among resets, policy changes and other sessions.
THEOREM SequentialInvariant ==
    ASSUME OneRequestAtATime
    PROVE  Spec => []SequentialInv
<1>1. Init => SequentialInv
  <2> SUFFICES ASSUME Init PROVE SequentialInv
    OBVIOUS
  <2>1. \A w \in Workers : ReadsCurrent(w)
    BY DEF Init, NoRequest, ReadsCurrent
  <2>2. ActiveSecretProven /\ \A b, c \in Unused : b = c
    BY DEF Init, NoTotp, ActiveSecretProven, Unused
  <2> QED
    BY <2>1, <2>2, FactorsInit DEF SequentialInv
<1>2. SequentialInv /\ [Next]_vars => SequentialInv'
    BY SequentialStep
<1> QED
    BY <1>1, <1>2, PTL DEF Spec

\* The active secret was proven, if requests come one at a time; the run
\* mfa_unproven shows that two at a time suffice to break this.
THEOREM ActiveProven ==
    ASSUME OneRequestAtATime
    PROVE  Spec => []ActiveSecretProven
<1>1. SequentialInv => ActiveSecretProven
    BY DEF SequentialInv
<1> QED
    BY <1>1, SequentialInvariant, PTL

\* One batch of recovery codes is valid at most, if requests come one at a time.
THEOREM OneBatch ==
    ASSUME OneRequestAtATime
    PROVE  Spec => []OneRecoveryBatch
<1>1. ASSUME SequentialInv PROVE OneRecoveryBatch
  <2>1. CASE Unused = {}
    BY <2>1, FS_EmptySet DEF OneRecoveryBatch
  <2>2. CASE Unused # {}
    <3>1. PICK b : Unused = {b}
      BY <1>1, <2>2 DEF SequentialInv
    <3> QED
      BY <3>1, FS_Singleton DEF OneRecoveryBatch
  <2> QED
    BY <2>1, <2>2
<1> QED
    BY <1>1, SequentialInvariant, PTL

-----------------------------------------------------------------------------
(* The last factor *)

\* A step of the only request that is settled, or relies on no removal.
LEMMA RemovalsUnread ==
    ASSUME NEW w \in Workers, req'[w].pc \notin {"drop", "dropkey"}
    PROVE  RemovalAllowed(w)'
BY DEF RemovalAllowed

\* TOTP and recovery-code statements of the only request.
LEMMA TotpRemovals ==
    ASSUME FactorsInv, NEW w \in Workers, Totp(w) \/ Recovery(w)
    PROVE  RemovalAllowed(w)'
<1>1. CASE DisableTOTP(w)
  <2>1. /\ req[w].pc = "disable" /\ UNCHANGED <<required, totp, keys>>
        /\ \/ End(w)
           \/ Goto(w, "drop") /\ (required => keys # {})
    BY <1>1 DEF DisableTOTP, TotpRemovable
  <2>2. \/ req'[w].pc = "idle"
        \/ req'[w].pc = "drop" /\ (required => keys # {})
    BY <2>1, EndState, GotoState DEF FactorsInv, Pcs
  <2> QED
    BY <2>1, <2>2 DEF RemovalAllowed
<1>2. CASE BeginTOTP(w)
  <2>1. req[w].pc # "idle" /\ (End(w) \/ Goto(w, "upsert"))
    BY <1>2 DEF BeginTOTP
  <2>2. req'[w].pc \in {"idle", "upsert"}
    BY <2>1, EndState, GotoState DEF FactorsInv, Pcs
  <2> QED
    BY <2>2, RemovalsUnread
<1>3. CASE UpsertTOTP(w) \/ ConfirmTOTP(w) \/ ActivateTOTP(w) \/ CommitTOTP(w) \/ DeleteTOTP(w)
  <2>1. req'[w].pc \in {"idle", "activate", "activated", "mark"}
    BY <1>3, UpsertTOTPStep, ConfirmTOTPStep, ActivateTOTPStep, CommitTOTPStep, DeleteTOTPStep
  <2> QED
    BY <2>1, RemovalsUnread
<1>4. CASE Recovery(w)
  <2>1. req'[w].pc \in {"regen", "regenwait", "regenheld", "idle", "mark"}
    BY <1>4, EnsureRecoveryCodesStep, DeleteSnapshotStep, DeleteAcquireStep,
       CommitRecoveryCodesStep, VerifyRecoveryCodeStep DEF Recovery
  <2> QED
    BY <2>1, RemovalsUnread
<1>5. CASE VerifyTOTP(w)
    BY <1>5, QuietSteps, SettledReads
<1> QED
    BY <1>1, <1>2, <1>3, <1>4, <1>5 DEF Totp

\* While requests come one at a time and the policy stays, a removal that was
\* allowed stays allowed, unless a reset leaves nothing to remove.
LEMMA CountedStep ==
    ASSUME OneRequestAtATime, "policy" \notin Ops, FactorsCounted, [Next]_vars
    PROVE  FactorsCounted'
<1>0. FactorsInv /\ SequentialInv'
    BY SequentialStep DEF FactorsCounted, SequentialInv
<1>1. ASSUME NEW w \in Workers, RemovalAllowed(w)' PROVE FactorsCounted'
  <2>1. \A v \in Workers : v = w
    BY DEF OneRequestAtATime
  <2> QED
    BY <1>0, <1>1, <2>1 DEF FactorsCounted
<1>2. ASSUME NEW w \in Workers, Totp(w) \/ Recovery(w) PROVE FactorsCounted'
    BY <1>0, <1>1, <1>2, TotpRemovals
<1>3. ASSUME NEW w \in Workers, DeleteWebAuthn(w) PROVE FactorsCounted'
  <2>1. /\ req[w].pc = "delkey" /\ UNCHANGED <<required, totp, keys>>
        /\ \/ End(w)
           \/ Goto(w, "dropkey") /\ (required => totp.st = "active" \/ Cardinality(keys) > 1)
    BY <1>3 DEF DeleteWebAuthn
  <2>2. \/ req'[w].pc = "idle"
        \/ /\ req'[w].pc = "dropkey"
           /\ required => totp.st = "active" \/ Cardinality(keys) > 1
    BY <1>0, <2>1, EndState, GotoState DEF FactorsInv, Pcs
  <2>3. RemovalAllowed(w)'
    BY <2>1, <2>2 DEF RemovalAllowed
  <2> QED
    BY <1>1, <2>3
<1>4. ASSUME NEW w \in Workers,
             \/ WebAuthn(w) /\ ~DeleteWebAuthn(w)
             \/ (\E s \in Sessions : Request(w, s)) \/ AllowMFAMutation(w)
             \/ MarkSession(w) \/ FailRequest(w)
      PROVE  FactorsCounted'
    BY <1>0, <1>1, <1>4, QuietSteps, SettledReads
<1>5. CASE ResetUser
  <2>1. totp'.st = "none" /\ keys' = {} /\ UNCHANGED req
    BY <1>5 DEF ResetUser, NoTotp
  <2> QED
    BY <1>0, <2>1 DEF FactorsCounted, RemovalAllowed
<1>6. CASE Environment /\ ~ResetUser
  <2>1. UNCHANGED <<required, totp, keys, req>>
    BY <1>6 DEF Environment, CreateSession, RevokeSession, ExpireCeremony, SetPolicy
  <2> QED
    BY <1>0, <2>1 DEF FactorsCounted, RemovalAllowed
<1>7. CASE UNCHANGED vars
    BY <1>0, <1>7 DEF vars, FactorsCounted, RemovalAllowed
<1> QED
    BY <1>2, <1>3, <1>4, <1>5, <1>6, <1>7 DEF Next

\* One request at a time under a policy that stays: every removal that has been
\* allowed leaves a factor.
THEOREM CountedInvariant ==
    ASSUME OneRequestAtATime, "policy" \notin Ops
    PROVE  Spec => []FactorsCounted
<1>1. Init => FactorsCounted
  <2> SUFFICES ASSUME Init PROVE FactorsCounted
    OBVIOUS
  <2>1. SequentialInv
    <3>1. \A w \in Workers : ReadsCurrent(w)
      BY DEF Init, NoRequest, ReadsCurrent
    <3>2. ActiveSecretProven /\ \A b, c \in Unused : b = c
      BY DEF Init, NoTotp, ActiveSecretProven, Unused
    <3> QED
      BY <3>1, <3>2, FactorsInit DEF SequentialInv
  <2>2. \A w \in Workers : RemovalAllowed(w)
    BY DEF Init, NoRequest, RemovalAllowed
  <2> QED
    BY <2>1, <2>2 DEF FactorsCounted
<1>2. FactorsCounted /\ [Next]_vars => FactorsCounted'
    BY CountedStep
<1> QED
    BY <1>1, <1>2, PTL DEF Spec

\* Only a reset takes the last factor while the policy demands one, if requests
\* come one at a time; the run mfa_last_factor shows two at a time taking it.
THEOREM LastFactorStays ==
    ASSUME OneRequestAtATime, "policy" \notin Ops
    PROVE  Spec => LastFactorKept
<1>1. ASSUME FactorsCounted, [Next]_vars
      PROVE  [KeepsLastFactor]_vars
  <2> SUFFICES ASSUME required, HasPrimaryFactor, ~HasPrimaryFactor', resets' = resets
               PROVE  FALSE
    BY DEF KeepsLastFactor
  <2>0. /\ FactorsInv
        /\ \A w \in Workers : ReadsCurrent(w) /\ RemovalAllowed(w)
    BY <1>1 DEF FactorsCounted, SequentialInv
  <2>1. totp' # totp \/ keys' # keys
    BY DEF HasPrimaryFactor
  <2>2. ~ResetUser
    <3>1. resets + 1 # resets
      BY <2>0 DEF FactorsInv, TypeOK
    <3> QED
      BY <3>1 DEF ResetUser
  <2>3. ASSUME NEW w \in Workers, UpsertTOTP(w) PROVE FALSE
    <3>1. totp.st # "active" /\ keys' = keys
      BY <2>0, <2>3 DEF UpsertTOTP, ReadsCurrent
    <3> QED
      BY <3>1 DEF HasPrimaryFactor
  <2>4. ASSUME NEW w \in Workers, CommitTOTP(w) PROVE FALSE
    <3>1. totp' \in {totp, [totp EXCEPT !.st = "active"]} /\ keys' = keys /\ totp \in TotpRow
      BY <2>0, <2>4, CommitTOTPStep DEF CommitTOTP, FactorsInv, TypeOK
    <3>2. totp.st = "active" => totp'.st = "active"
      BY <3>1 DEF TotpRow
    <3> QED
      BY <3>1, <3>2 DEF HasPrimaryFactor
  <2>5. ASSUME NEW w \in Workers, DeleteTOTP(w) PROVE FALSE
    <3>1. keys # {} \/ totp.st # "active"
      BY <2>0, <2>5 DEF DeleteTOTP, RemovalAllowed
    <3> QED
      BY <2>5, <3>1 DEF DeleteTOTP, HasPrimaryFactor
  <2>6. ASSUME NEW w \in Workers, NEW k \in Keys, StoreCredential(w, k) PROVE FALSE
    BY <2>6 DEF StoreCredential, HasPrimaryFactor
  <2>7. ASSUME NEW w \in Workers, DeleteCredential(w) PROVE FALSE
    <3>1. /\ req[w].pc = "dropkey" /\ keys' = keys \ {req[w].arg} /\ totp' = totp
      BY <2>7 DEF DeleteCredential
    <3>2. totp.st # "active" /\ keys # {} /\ keys' = {}
      BY <3>1 DEF HasPrimaryFactor
    <3>3. keys = {req[w].arg}
      BY <3>1, <3>2
    <3>4. Cardinality(keys) = 1
      BY <3>3, FS_Singleton
    <3> QED
      BY <2>0, <3>1, <3>2, <3>4 DEF RemovalAllowed
  <2>8. ASSUME NEW w \in Workers, Totp(w) PROVE FALSE
    BY <2>1, <2>3, <2>4, <2>5, <2>8 DEF Totp, BeginTOTP, ConfirmTOTP, ActivateTOTP,
       DisableTOTP, VerifyTOTP
  <2>9. ASSUME NEW w \in Workers, WebAuthn(w) PROVE FALSE
    BY <2>1, <2>6, <2>7, <2>9 DEF WebAuthn, BeginRegistration, BeginLogin,
       FinishRegistration, FinishLogin, VerifyCredential, DeleteWebAuthn
  <2>10. ASSUME NEW w \in Workers,
                \/ Recovery(w) \/ (\E s \in Sessions : Request(w, s)) \/ AllowMFAMutation(w)
                \/ MarkSession(w) \/ FailRequest(w)
         PROVE  FALSE
    BY <2>1, <2>10 DEF Recovery, EnsureRecoveryCodes, DeleteSnapshot, DeleteAcquire,
       CommitRecoveryCodes, VerifyRecoveryCode, Request, Authenticate, AllowMFAMutation,
       MarkSession, FailRequest
  <2>11. ~Environment
    BY <2>1, <2>2 DEF Environment, CreateSession, RevokeSession, ExpireCeremony, SetPolicy
  <2> QED
    BY <1>1, <2>1, <2>8, <2>9, <2>10, <2>11 DEF Next, vars
<1> QED
    BY <1>1, CountedInvariant, PTL DEF Spec, LastFactorKept
=============================================================================
