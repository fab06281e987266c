---------------------------- MODULE RateLimiter ----------------------------
(***************************************************************************)
(* The Redis-backed limiter of one client address: allowOAuthRequest for   *)
(* the token endpoint; allowLogin and the MFA service's Allow are the same *)
(* code with another key, limit and lifetime.                              *)
(*                                                                         *)
(* INCR creates the counter or increments it, atomically on Redis.  Only   *)
(* the request that created it sets its expiry, by a second command whose  *)
(* error is ignored: a counter whose EXPIRE never arrives lives for ever.  *)
(* If Redis cannot be reached, INCR fails and the request is refused,      *)
(* which changes nothing.                                                  *)
(***************************************************************************)
EXTENDS Naturals

CONSTANTS Limit,     \* requests allowed per lifetime of the counter
          MaxCount   \* bound of this model on the counter

ASSUME LimiterConstants == Limit \in Nat \ {0} /\ MaxCount \in Nat /\ Limit < MaxCount

VARIABLES count,      \* the counter, 0 when the key does not exist
          expiring,   \* its expiry has been set
          lost,       \* history: its EXPIRE never arrived
          admitted    \* history: requests admitted by this counter

limiterVars == <<count, expiring, lost, admitted>>

LimiterTypeOK ==
    /\ count \in 0..MaxCount
    /\ expiring \in BOOLEAN /\ lost \in BOOLEAN
    /\ admitted \in 0..MaxCount

LimiterInit ==
    /\ count = 0
    /\ expiring = FALSE
    /\ lost = FALSE
    /\ admitted = 0

\* The value INCR returns when the counter is read and written back: another
\* request's increment may be lost.
IncrementedByValue(n) == n \in {count, count + 1} /\ n > 0
Incremented(n) == n = count + 1

\* Only the request that created the counter sets its expiry.
EverySecond(n) == n = 2
SetsExpiry(n) == n = 1

\* INCR: n is what the request got.
Incr(n) ==
    /\ Incremented(n)
    /\ n <= MaxCount
    /\ count' = n
    /\ admitted' = IF n <= Limit /\ admitted < MaxCount THEN admitted + 1 ELSE admitted
    /\ UNCHANGED <<expiring, lost>>

\* EXPIRE by the request that created the counter ...
Expire ==
    /\ expiring' = TRUE
    /\ UNCHANGED <<count, lost, admitted>>

\* ... or its failure, or that of the replica in between.
ExpireLost ==
    /\ lost' = TRUE
    /\ UNCHANGED <<count, expiring, admitted>>

\* The counter's lifetime ends.
CounterExpires ==
    /\ expiring
    /\ count' = 0 /\ admitted' = 0
    /\ expiring' = FALSE /\ lost' = FALSE

-----------------------------------------------------------------------------
(* Properties *)

\* However many replicas serve an address, no more than Limit of its requests
\* are admitted while one counter lives: INCR hands out each number once.
AdmissionsBounded == admitted <= Limit

\* An address that used up its limit is let in again: every counter goes away
\* in the end, except one whose EXPIRE was lost.
LimiterReopens == count > 0 ~> count = 0 \/ lost
=============================================================================
