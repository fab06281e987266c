----------------------------- MODULE MfaFactors -----------------------------
(***************************************************************************)
(* The second factors of one user: TOTP, WebAuthn credentials, recovery    *)
(* codes, and the MFA assurance of the user's browser sessions             *)
(* (backend/internal/mfa, backend/internal/httpapi/mfa.go).                *)
(*                                                                         *)
(* Requests run concurrently.  Each statement outside a transaction is a   *)
(* step of its own; inside a transaction, a step ends where another        *)
(* transaction may slip in (a row lock that is waited for, the commit).    *)
(* A request that is refused simply ends.  Rate limits, encryption at rest *)
(* and auditing are left out.  A batch of ten recovery codes is generated, *)
(* stored and deleted as a whole and stands for any one of its codes.      *)
(***************************************************************************)
EXTENDS Naturals, FiniteSets

CONSTANTS Workers,     \* requests in progress at the same time
          Sessions,    \* browser sessions of the user
          Secrets,     \* TOTP secrets that can be generated
          Keys,        \* authenticators that can be registered
          Ceremonies,  \* WebAuthn ceremony tokens
          Batches,     \* batches of recovery codes that can be generated
          Ops,         \* the endpoints in use in this instance
          MaxResets,   \* bound on administrative resets
          None

ASSUME FactorConstants ==
    /\ None \notin Workers \cup Sessions \cup Secrets \cup Keys
                \cup Ceremonies \cup Batches
    /\ MaxResets \in Nat

VARIABLES
    required,   \* effective global/group policy demands MFA
    totp,       \* row of mfa_totp_credentials
    totpLock,   \* the transaction that holds that row
    keys,       \* rows of webauthn_credentials
    handle,     \* row of webauthn_users: 0 if absent, else one more than the resets before it
    ceremony,   \* Redis: pending WebAuthn ceremonies
    recovery,   \* rows of mfa_recovery_codes
    session,    \* sessions of the user
    req,        \* requests in progress
    proven,     \* history: secrets an OTP has been shown for
    minted,     \* history: secrets and batches generated so far
    resets      \* history: number of administrative resets

vars == <<required, totp, totpLock, keys, handle, ceremony, recovery, session,
          req, proven, minted, resets>>

NoTotp == [st |-> "none", secret |-> None]
NoCeremony == [kind |-> "none", handle |-> 0]
NoRequest == [pc |-> "idle", s |-> None, arg |-> None, mfa |-> FALSE, snap |-> {},
              epoch |-> 0, then |-> "idle"]

\* Endpoints that change factors, behind allowMFAMutation (or, for "regen", the
\* equivalent checks of its handler), and endpoints that verify a factor.
Changes == {"begin", "confirm", "disable", "delkey", "regbegin", "regfinish", "regen"}
Verifications == {"totp", "recover", "wbegin", "wfinish"}

Pcs == Changes \cup Verifications \cup
       {"idle", "admit", "upsert", "activate", "activated", "drop", "dropkey",
        "regstore", "ensure", "regenwait", "regenheld", "wverify", "mark"}

\* The columns of the TOTP row, a pending ceremony and the state of a request.
TotpRow == [st : {"none", "pending", "active"}, secret : Secrets \cup {None}]
CeremonyState == [kind : {"none", "register", "login", "used"}, handle : 0..(resets + 1)]
RequestState == [pc : Pcs, s : Sessions \cup {None},
                 arg : Secrets \cup Keys \cup Ceremonies \cup Batches \cup {None},
                 mfa : BOOLEAN, snap : SUBSET Batches, epoch : 0..MaxResets,
                 then : Changes \cup {"idle", "mark"}]

TypeOK ==
    /\ required \in BOOLEAN
    /\ totp \in TotpRow
    /\ totpLock \in Workers \cup {None}
    /\ keys \subseteq Keys
    /\ handle \in 0..(resets + 1)
    /\ ceremony \in [Ceremonies -> CeremonyState]
    /\ recovery \in [Batches -> {"none", "unused", "used"}]
    /\ session \in [Sessions -> {"none", "live", "verified", "revoked"}]
    /\ req \in [Workers -> RequestState]
    /\ proven \subseteq Secrets
    /\ minted \subseteq Secrets \cup Batches
    /\ resets \in 0..MaxResets

\* A user without factors, with or without an MFA policy.
Init ==
    /\ required \in BOOLEAN
    /\ totp = NoTotp
    /\ totpLock = None
    /\ keys = {}
    /\ handle = 0
    /\ ceremony = [c \in Ceremonies |-> NoCeremony]
    /\ recovery = [b \in Batches |-> "none"]
    /\ session = [s \in Sessions |-> "none"]
    /\ req = [w \in Workers |-> NoRequest]
    /\ proven = {}
    /\ minted = {}
    /\ resets = 0

-----------------------------------------------------------------------------
(* Helpers *)

HasPrimaryFactor == totp.st = "active" \/ keys # {}

Stored == {b \in Batches : recovery[b] # "none"}
Unused == {b \in Batches : recovery[b] = "unused"}

\* Rows a transaction that deletes recovery codes holds until it commits.
HeldBatches(w) == IF req[w].pc = "regenheld" THEN req[w].snap ELSE {}

Goto(w, pc) == req' = [req EXCEPT ![w].pc = pc]
End(w) == req' = [req EXCEPT ![w] = NoRequest]

\* A row lock held by w is given back at the end of its transaction.
Unlocked(w) == IF totpLock = w THEN None ELSE totpLock

-----------------------------------------------------------------------------
(* Sessions: created and revoked elsewhere, marked here *)

CreateSession(s) ==
    /\ session[s] = "none"
    /\ session' = [session EXCEPT ![s] = "live"]
    /\ UNCHANGED <<required, totp, totpLock, keys, handle, ceremony, recovery,
                   req, proven, minted, resets>>

RevokeSession(s) ==
    /\ session[s] \in {"live", "verified"}
    /\ session' = [session EXCEPT ![s] = "revoked"]
    /\ UNCHANGED <<required, totp, totpLock, keys, handle, ceremony, recovery,
                   req, proven, minted, resets>>

MarkUnguarded(s) == session[s] # "none"
Markable(s) == session[s] \in {"live", "verified"}

\* markSessionMFAVerified: a revoked session makes the request fail instead.
MarkSession(w) ==
    /\ req[w].pc = "mark"
    /\ session' = IF Markable(req[w].s)
                  THEN [session EXCEPT ![req[w].s] = "verified"]
                  ELSE session
    /\ End(w)
    /\ UNCHANGED <<required, totp, totpLock, keys, handle, ceremony, recovery,
                   proven, minted, resets>>

\* withPrincipalRaw: the session is looked up once; the handler goes on with
\* what it read.
Authenticate(w, s, op, a) ==
    /\ op \in Ops
    /\ req[w].pc = "idle"
    /\ Markable(s)
    /\ req' = [req EXCEPT ![w] =
                 [NoRequest EXCEPT !.s = s, !.arg = a, !.epoch = resets,
                    !.pc = IF op \in Changes THEN "admit" ELSE op,
                    !.then = IF op \in Changes THEN op ELSE "idle",
                    !.mfa = op \in Changes /\ session[s] = "verified"]]
    /\ UNCHANGED <<required, totp, totpLock, keys, handle, ceremony, recovery,
                   session, proven, minted, resets>>

Admissible(op, mfa) ==
    IF op = "regen" THEN HasPrimaryFactor /\ mfa ELSE HasPrimaryFactor => mfa

\* allowMFAMutation and the checks of regenerateRecoveryCodes: once the user
\* has a factor, only a session that was MFA-verified may change factors.
AllowMFAMutation(w) ==
    /\ req[w].pc = "admit"
    /\ IF Admissible(req[w].then, req[w].mfa)
       THEN req' = [req EXCEPT ![w].pc = req[w].then, ![w].then = "idle", ![w].mfa = FALSE]
       ELSE End(w)
    /\ UNCHANGED <<required, totp, totpLock, keys, handle, ceremony, recovery,
                   session, proven, minted, resets>>

-----------------------------------------------------------------------------
(* TOTP *)

Enrollable == totp.st # "active"

\* BeginTOTP: the check that no active secret exists ...
BeginTOTP(w) ==
    /\ req[w].pc = "begin"
    /\ IF Enrollable THEN Goto(w, "upsert") ELSE End(w)
    /\ UNCHANGED <<required, totp, totpLock, keys, handle, ceremony, recovery,
                   session, proven, minted, resets>>

\* ... and the upsert of a new pending secret, whatever the row holds by now.
UpsertTOTP(w) ==
    /\ req[w].pc = "upsert"
    /\ totpLock = None
    /\ \E x \in Secrets \ minted :
          /\ totp' = [st |-> "pending", secret |-> x]
          /\ minted' = minted \cup {x}
    /\ End(w)
    /\ UNCHANGED <<required, totpLock, keys, handle, ceremony, recovery, session,
                   proven, resets>>

ConfirmSkipsOTP(w) ==
    /\ req[w].pc = "confirm"
    /\ IF totp.st = "none"
       THEN End(w)
       ELSE req' = [req EXCEPT ![w].pc = "activate", ![w].arg = totp.secret]
    /\ UNCHANGED <<required, totp, totpLock, keys, handle, ceremony, recovery,
                   session, proven, minted, resets>>

\* ConfirmTOTP: the stored secret is read and an OTP for it verified ...
ConfirmTOTP(w) ==
    /\ req[w].pc = "confirm"
    /\ IF totp.st = "none"
       THEN End(w) /\ UNCHANGED proven
       ELSE /\ req' = [req EXCEPT ![w].pc = "activate", ![w].arg = totp.secret]
            /\ proven' = proven \cup {totp.secret}
    /\ UNCHANGED <<required, totp, totpLock, keys, handle, ceremony, recovery,
                   session, minted, resets>>

\* ... then a transaction updates the row, which it holds from here on, and
\* counts the unused recovery codes ...
ActivateTOTP(w) ==
    /\ req[w].pc = "activate"
    /\ totpLock = None
    /\ totpLock' = IF totp.st = "none" THEN None ELSE w
    /\ req' = [req EXCEPT ![w].pc = "activated", ![w].snap = Unused]
    /\ UNCHANGED <<required, totp, keys, handle, ceremony, recovery, session,
                   proven, minted, resets>>

RowCreatedByConfirm(w) == [st |-> "active", secret |-> req[w].arg]
RowAfterConfirm(w) == IF totpLock = w THEN [totp EXCEPT !.st = "active"] ELSE totp

\* ... and commits, with a first batch of recovery codes if there was none.
CommitTOTP(w) ==
    /\ req[w].pc = "activated"
    /\ totp' = RowAfterConfirm(w)
    /\ totpLock' = Unlocked(w)
    /\ IF req[w].snap = {}
       THEN \E b \in Batches \ minted : /\ recovery' = [recovery EXCEPT ![b] = "unused"]
                                         /\ minted' = minted \cup {b}
       ELSE UNCHANGED <<recovery, minted>>
    /\ Goto(w, "mark")
    /\ UNCHANGED <<required, keys, handle, ceremony, session, proven, resets>>

\* VerifyTOTP with a valid OTP of the active secret, if there is one.
VerifyTOTP(w) ==
    /\ req[w].pc = "totp"
    /\ IF totp.st = "active" THEN Goto(w, "mark") ELSE End(w)
    /\ UNCHANGED <<required, totp, totpLock, keys, handle, ceremony, recovery,
                   session, proven, minted, resets>>

KeysNotCounted == TRUE
TotpRemovable == required => keys # {}

\* DisableTOTP: the policy and the other factors are read ...
DisableTOTP(w) ==
    /\ req[w].pc = "disable"
    /\ IF TotpRemovable THEN Goto(w, "drop") ELSE End(w)
    /\ UNCHANGED <<required, totp, totpLock, keys, handle, ceremony, recovery,
                   session, proven, minted, resets>>

\* ... and the row is deleted by a statement of its own.
DeleteTOTP(w) ==
    /\ req[w].pc = "drop"
    /\ totpLock = None
    /\ totp' = NoTotp
    /\ End(w)
    /\ UNCHANGED <<required, totpLock, keys, handle, ceremony, recovery, session,
                   proven, minted, resets>>

-----------------------------------------------------------------------------
(* WebAuthn *)

HandlePerCeremony == handle + 1
HandleEnsured == IF handle = 0 THEN resets + 1 ELSE handle

\* BeginRegistration: the user handle is created if need be and the challenge
\* stored in Redis together with it.
BeginRegistration(w, c) ==
    /\ req[w].pc = "regbegin"
    /\ ceremony[c].kind = "none"
    /\ handle' = HandleEnsured
    /\ ceremony' = [ceremony EXCEPT ![c] = [kind |-> "register", handle |-> handle']]
    /\ End(w)
    /\ UNCHANGED <<required, totp, totpLock, keys, recovery, session, proven,
                   minted, resets>>

\* consumeCeremony is a GETDEL: whatever the kind, the token is gone.
Consumed(c) == ceremony' = [ceremony EXCEPT ![c] = [kind |-> "used", handle |-> 0]]

\* FinishRegistration: consume the challenge, load the user; the WebAuthn
\* library refuses a challenge issued for another user handle ...
FinishRegistration(w) ==
    /\ req[w].pc = "regfinish"
    /\ LET c == req[w].arg IN
          /\ IF ceremony[c].kind = "register" /\ ceremony[c].handle = handle
             THEN Goto(w, "regstore")
             ELSE End(w)
          /\ IF ceremony[c].kind \in {"register", "login"}
             THEN Consumed(c) ELSE UNCHANGED ceremony
    /\ UNCHANGED <<required, totp, totpLock, keys, handle, recovery, session,
                   proven, minted, resets>>

\* ... and INSERT the new credential.
StoreCredential(w, k) ==
    /\ req[w].pc = "regstore"
    /\ k \notin keys
    /\ keys' = keys \cup {k}
    /\ Goto(w, "ensure")
    /\ UNCHANGED <<required, totp, totpLock, handle, ceremony, recovery, session,
                   proven, minted, resets>>

\* BeginLogin stores a login challenge for the credentials of the user.
BeginLogin(w, c) ==
    /\ req[w].pc = "wbegin"
    /\ ceremony[c].kind = "none"
    /\ ceremony' = IF handle # 0 /\ keys # {}
                   THEN [ceremony EXCEPT ![c] = [kind |-> "login", handle |-> handle]]
                   ELSE ceremony
    /\ End(w)
    /\ UNCHANGED <<required, totp, totpLock, keys, handle, recovery, session,
                   proven, minted, resets>>

\* FinishLogin: consume the challenge, load the user, verify the assertion of
\* one of the credentials loaded ...
FinishLogin(w) ==
    /\ req[w].pc = "wfinish"
    /\ LET c == req[w].arg IN
          /\ \/ /\ ceremony[c].kind = "login" /\ ceremony[c].handle = handle
                /\ \E k \in keys : req' = [req EXCEPT ![w].pc = "wverify", ![w].arg = k]
             \/ /\ ceremony[c].kind # "login" \/ ceremony[c].handle # handle \/ keys = {}
                /\ End(w)
          /\ IF ceremony[c].kind \in {"register", "login"}
             THEN Consumed(c) ELSE UNCHANGED ceremony
    /\ UNCHANGED <<required, totp, totpLock, keys, handle, recovery, session,
                   proven, minted, resets>>

\* ... and record its use; the UPDATE must still find the credential.
VerifyCredential(w) ==
    /\ req[w].pc = "wverify"
    /\ IF req[w].arg \in keys THEN Goto(w, "mark") ELSE End(w)
    /\ UNCHANGED <<required, totp, totpLock, keys, handle, ceremony, recovery,
                   session, proven, minted, resets>>

\* A challenge expires after five minutes.
ExpireCeremony(c) ==
    /\ ceremony[c].kind \in {"register", "login"}
    /\ Consumed(c)
    /\ UNCHANGED <<required, totp, totpLock, keys, handle, recovery, session, req,
                   proven, minted, resets>>

\* webAuthnService.Delete: the factors that would remain are counted ...
DeleteWebAuthn(w) ==
    /\ req[w].pc = "delkey"
    /\ IF required => totp.st = "active" \/ Cardinality(keys) > 1
       THEN Goto(w, "dropkey") ELSE End(w)
    /\ UNCHANGED <<required, totp, totpLock, keys, handle, ceremony, recovery,
                   session, proven, minted, resets>>

\* ... and the credential is deleted by a statement of its own.
DeleteCredential(w) ==
    /\ req[w].pc = "dropkey"
    /\ keys' = keys \ {req[w].arg}
    /\ End(w)
    /\ UNCHANGED <<required, totp, totpLock, handle, ceremony, recovery, session,
                   proven, minted, resets>>

-----------------------------------------------------------------------------
(* Recovery codes *)

\* EnsureRecoveryCodes after a registration: generate if none is unused.
EnsureRecoveryCodes(w) ==
    /\ req[w].pc = "ensure"
    /\ req' = [req EXCEPT ![w].pc = IF Unused = {} THEN "regen" ELSE "mark",
                          ![w].then = "mark"]
    /\ UNCHANGED <<required, totp, totpLock, keys, handle, ceremony, recovery,
                   session, proven, minted, resets>>

\* The transaction's DELETE takes its snapshot of the stored codes ...
DeleteSnapshot(w) ==
    /\ req[w].pc = "regen"
    /\ req' = [req EXCEPT ![w].pc = "regenwait", ![w].snap = Stored]
    /\ UNCHANGED <<required, totp, totpLock, keys, handle, ceremony, recovery,
                   session, proven, minted, resets>>

\* ... waits for the transactions that hold some of them ...
DeleteAcquire(w) ==
    /\ req[w].pc = "regenwait"
    /\ \A v \in Workers \ {w} : HeldBatches(v) \cap req[w].snap = {}
    /\ Goto(w, "regenheld")
    /\ UNCHANGED <<required, totp, totpLock, keys, handle, ceremony, recovery,
                   session, proven, minted, resets>>

CodesKept(w) == recovery
CodesDeleted(w) == [b \in Batches |-> IF b \in req[w].snap THEN "none" ELSE recovery[b]]

\* ... and commits together with the new codes.
CommitRecoveryCodes(w) ==
    /\ req[w].pc = "regenheld"
    /\ \E b \in Batches \ minted :
          /\ recovery' = [CodesDeleted(w) EXCEPT ![b] = "unused"]
          /\ minted' = minted \cup {b}
    /\ IF req[w].then = "mark" THEN Goto(w, "mark") ELSE End(w)
    /\ UNCHANGED <<required, totp, totpLock, keys, handle, ceremony, session,
                   proven, resets>>

\* VerifyRecoveryCode: SELECT FOR UPDATE waits for a transaction that is
\* deleting the code; an unused one is spent.
VerifyRecoveryCode(w) ==
    /\ req[w].pc = "recover"
    /\ LET b == req[w].arg IN
          /\ \A v \in Workers \ {w} : b \notin HeldBatches(v)
          /\ IF recovery[b] = "unused"
             THEN /\ recovery' = [recovery EXCEPT ![b] = "used"]
                  /\ Goto(w, "mark")
             ELSE End(w) /\ UNCHANGED recovery
    /\ UNCHANGED <<required, totp, totpLock, keys, handle, ceremony, session,
                   proven, minted, resets>>

-----------------------------------------------------------------------------
(* Administration and failures *)

\* ResetUser: one transaction, whose statements wait for the rows that open
\* transactions hold.
ResetUser ==
    /\ "reset" \in Ops /\ resets < MaxResets
    /\ totpLock = None
    /\ \A w \in Workers : HeldBatches(w) = {}
    /\ totp' = NoTotp
    /\ recovery' = [b \in Batches |-> "none"]
    /\ keys' = {}
    /\ handle' = 0
    /\ session' = [s \in Sessions |->
                      IF Markable(s) THEN "revoked" ELSE session[s]]
    /\ resets' = resets + 1
    /\ UNCHANGED <<required, totpLock, ceremony, req, proven, minted>>

SetPolicy ==
    /\ "policy" \in Ops
    /\ required' = ~required
    /\ UNCHANGED <<totp, totpLock, keys, handle, ceremony, recovery, session, req,
                   proven, minted, resets>>

\* A request fails half-way: its open transaction rolls back, what it has
\* committed stays.
FailRequest(w) ==
    /\ req[w].pc # "idle"
    /\ totpLock' = Unlocked(w)
    /\ End(w)
    /\ UNCHANGED <<required, totp, keys, handle, ceremony, recovery, session,
                   proven, minted, resets>>

-----------------------------------------------------------------------------
Totp(w) ==
    \/ BeginTOTP(w) \/ UpsertTOTP(w)
    \/ ConfirmTOTP(w) \/ ActivateTOTP(w) \/ CommitTOTP(w)
    \/ DisableTOTP(w) \/ DeleteTOTP(w)
    \/ VerifyTOTP(w)

WebAuthn(w) ==
    \/ \E c \in Ceremonies : BeginRegistration(w, c) \/ BeginLogin(w, c)
    \/ FinishRegistration(w)
    \/ \E k \in Keys : StoreCredential(w, k)
    \/ FinishLogin(w) \/ VerifyCredential(w)
    \/ DeleteWebAuthn(w) \/ DeleteCredential(w)

Recovery(w) ==
    \/ EnsureRecoveryCodes(w) \/ DeleteSnapshot(w) \/ DeleteAcquire(w)
    \/ CommitRecoveryCodes(w)
    \/ VerifyRecoveryCode(w)

\* The argument a request to an endpoint names.
Arguments(op) ==
    CASE op \in {"regfinish", "wfinish"} -> {c \in Ceremonies : ceremony[c].kind # "none"}
      [] op = "delkey" -> keys
      [] op = "recover" -> Stored
      [] OTHER -> {None}

Request(w, s) == \E op \in Ops \cap (Changes \cup Verifications) :
                    \E a \in Arguments(op) : Authenticate(w, s, op, a)

Environment ==
    \/ \E s \in Sessions : CreateSession(s) \/ RevokeSession(s)
    \/ \E c \in Ceremonies : ExpireCeremony(c)
    \/ ResetUser
    \/ SetPolicy

Next ==
    \/ \E w \in Workers : \/ Totp(w) \/ WebAuthn(w) \/ Recovery(w)
                          \/ \E s \in Sessions : Request(w, s)
                          \/ AllowMFAMutation(w)
                          \/ MarkSession(w)
                          \/ FailRequest(w)
    \/ Environment

Spec == Init /\ [][Next]_vars

-----------------------------------------------------------------------------
(* Properties *)

\* A request admitted before an administrative reset never makes a session
\* MFA-verified after it: what it verified no longer exists.
NoAssuranceAcrossReset ==
    [][\A s \in Sessions : session[s] # "verified" /\ session'[s] = "verified" =>
          \E w \in Workers : /\ req[w].pc = "mark" /\ req[w].s = s
                             /\ req[w].epoch = resets]_vars

\* A confirmation that is overtaken by a disable or a reset does not bring the
\* removed factor back: TOTP becomes active only from a pending enrollment.
NoResurrection == [][totp.st = "none" => totp'.st # "active"]_vars

\* docs/mfa.md, TOTP: enrollment is pending until the user proves possession.
\* The active secret is one for which an OTP was shown.
ActiveSecretProven == totp.st = "active" => totp.secret \in proven

\* docs/mfa.md, Self-service: removing the final usable factor is rejected when
\* the policy requires MFA.  Only an administrative reset takes the last one.
KeepsLastFactor == required /\ HasPrimaryFactor /\ ~HasPrimaryFactor' => resets' # resets
LastFactorKept == [][KeepsLastFactor]_vars

\* docs/mfa.md, Recovery codes: codes are invalidated when regenerated.  Never
\* are the codes of two generations valid together.
OneRecoveryBatch == Cardinality(Unused) <= 1

-----------------------------------------------------------------------------
(* The inductive invariants behind the properties *)

\* A transaction that holds the TOTP row has found one, with a secret.
HeldRowExists ==
    /\ totp.st # "none" => totp.secret \in Secrets
    /\ totpLock # None => totp.st # "none"

\* The session of a request that was admitted before a reset is revoked by now.
ResetsRevoke ==
    \A w \in Workers : req[w].pc # "idle" =>
        /\ req[w].s \in Sessions /\ session[req[w].s] # "none"
        /\ req[w].epoch # resets => session[req[w].s] = "revoked"

\* However many requests there are.
FactorsInv ==
    /\ TypeOK
    /\ HeldRowExists
    /\ ResetsRevoke

OneRequestAtATime == \A v, w \in Workers : v = w

\* What a request has read is still so, if no other request interferes; only a
\* reset may have removed it since.
ReadsCurrent(w) ==
    /\ req[w].pc \in {"activate", "activated"} =>
          /\ req[w].arg \in proven
          /\ totp.st # "none" => totp.secret = req[w].arg
    /\ req[w].pc = "upsert" => totp.st # "active"
    /\ req[w].pc = "activated" => Unused \subseteq req[w].snap
    /\ req[w].pc \in {"regenwait", "regenheld"} => Stored \subseteq req[w].snap

\* If requests come one at a time.
SequentialInv ==
    /\ FactorsInv
    /\ \A w \in Workers : ReadsCurrent(w)
    /\ ActiveSecretProven
    /\ \A b, c \in Unused : b = c

\* A removal that was allowed leaves a factor, if there still is one.
RemovalAllowed(w) ==
    /\ req[w].pc = "drop" /\ required => keys # {} \/ totp.st # "active"
    /\ req[w].pc = "dropkey" /\ required =>
          totp.st = "active" \/ Cardinality(keys) > 1 \/ keys = {}

\* If requests come one at a time, and the policy does not change.
FactorsCounted == SequentialInv /\ \A w \in Workers : RemovalAllowed(w)
=============================================================================
