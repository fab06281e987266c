\* Two requests at a time, every form submitted at will.
CONSTANTS
    Workers = {w1, w2}
    Users = {u1, u2}
    Sessions = {s1, s2}
    Scopes = {openid, email}
    OpenID = openid
    Forms = {f1, f2}
    Codes = {c1, c2}
    None = None
SPECIFICATION Spec
SYMMETRY Symmetry
INVARIANTS ConsentInv CodesApproved OneCodePerForm
PROPERTY GrantsLostByOverlapOnly
