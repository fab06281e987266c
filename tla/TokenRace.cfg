CONSTANTS
    Workers = {w1, w2}
    Codes = {c1}
    Tokens = {t1, t2, t3}
    Apps = {a1}
    None = None
SPECIFICATION Spec
SYMMETRY Symmetry
INVARIANT RevokedFamilyIsDead
CHECK_DEADLOCK FALSE
