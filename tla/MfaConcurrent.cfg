\* Two requests at a time: TOTP enrollment, a key and recovery codes against
\* disabling, resets and policy changes.
CONSTANTS
    Workers = {w1, w2}
    Sessions = {s1, s2}
    Secrets = {x1, x2}
    Keys = {k1}
    Ceremonies = {c1}
    Batches = {b1, b2}
    Ops = {"begin", "confirm", "disable", "totp", "regen", "recover", "reset", "policy"}
    MaxResets = 1
    None = None
SPECIFICATION Spec
SYMMETRY Symmetry
PROPERTIES NoAssuranceAcrossReset NoResurrection
CHECK_DEADLOCK FALSE
