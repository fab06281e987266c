\* TOTP and the only key are removed by two requests at the same time.
CONSTANTS
    Workers = {w1, w2}
    Sessions = {s1, s2}
    Secrets = {x1}
    Keys = {k1}
    Ceremonies = {c1}
    Batches = {b1, b2, b3}
    Ops = {"begin", "confirm", "disable", "regbegin", "regfinish", "delkey"}
    MaxResets = 0
    None = None
SPECIFICATION Spec
PROPERTY LastFactorKept
CHECK_DEADLOCK FALSE
