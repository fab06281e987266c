\* Two concurrent requests on one code and a family of up to three tokens.
CONSTANTS
    Workers = {w1, w2}
    Codes = {c1}
    Tokens = {t1, t2, t3}
    Apps = {a1, a2}
    None = None
SPECIFICATION Spec
SYMMETRY Symmetry
INVARIANTS OneHeirPerCode GrantsConserved FamilyConfined RevocationComplete IInv
PROPERTIES RevokedNeverRefreshed ImplementsLineage
CHECK_DEADLOCK FALSE
