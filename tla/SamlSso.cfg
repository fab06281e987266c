\* Two users continue and follow two stored requests at the same time.
CONSTANTS
    Workers = {w1, w2}
    Users = {u1, u2}
    Messages = {m1, m2}
    Rows = {r1, r2}
    None = None
SPECIFICATION Spec
SYMMETRY Symmetry
INVARIANTS SsoInv OneAnswerPerMessage SubjectCleared
PROPERTY SubjectFixed
