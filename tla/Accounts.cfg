\* Two requests at a time against resets, deactivation and lock expiry.
CONSTANTS
    Workers = {w1, w2}
    Sessions = {s1, s2}
    Passwords = {p1, p2}
    Threshold = 2
    MaxFails = 4
    MaxUncounted = 1
    MaxCutoffs = 2
    None = None
SPECIFICATION Spec
SYMMETRY Symmetry
INVARIANTS AccountsInv GuessesBounded CutoffEndsSessions
PROPERTY ForcedChangeProven
