---------------------------- MODULE GrantLineage ----------------------------
(***************************************************************************)
(* What the token endpoint promises, without transactions: every           *)
(* authorization code is a baton that is handed over at most once, and     *)
(* from then on exactly one refresh token is its heir.  An heir hands the  *)
(* baton to a fresh token unless it has been cancelled.                    *)
(***************************************************************************)
CONSTANTS Codes, Tokens, None

VARIABLES redeemed,   \* codes that have been handed over
          issued,     \* refresh tokens ever issued
          heir,       \* heir[c]: the token that now stands for code c
          cancelled   \* tokens that may no longer pass the baton on

vars == <<redeemed, issued, heir, cancelled>>

Init ==
    /\ redeemed = {}
    /\ issued = {}
    /\ heir = [c \in Codes |-> None]
    /\ cancelled = {}

\* Handing the baton of c to a token that did not exist before.
Hand(c, t) ==
    /\ t \notin issued
    /\ issued' = issued \cup {t}
    /\ heir' = [heir EXCEPT ![c] = t]
    /\ UNCHANGED cancelled

Redeem(c, t) ==
    /\ c \notin redeemed
    /\ redeemed' = redeemed \cup {c}
    /\ Hand(c, t)

Rotate(c, t) ==
    /\ c \in redeemed
    /\ heir[c] \notin cancelled
    /\ UNCHANGED redeemed
    /\ Hand(c, t)

Cancel(S) ==
    /\ cancelled' = cancelled \cup S
    /\ UNCHANGED <<redeemed, issued, heir>>

Next ==
    \/ \E c \in Codes, t \in Tokens : Redeem(c, t) \/ Rotate(c, t)
    \/ \E S \in SUBSET issued : Cancel(S)

Spec == Init /\ [][Next]_vars
=============================================================================
