\* A second enrollment between the check and the activation of the first.
CONSTANTS
    Workers = {w1, w2}
    Sessions = {s1, s2}
    Secrets = {x1, x2}
    Keys = {k1}
    Ceremonies = {c1}
    Batches = {b1, b2, b3}
    Ops = {"begin", "confirm"}
    MaxResets = 0
    None = None
SPECIFICATION Spec
INVARIANT ActiveSecretProven
CHECK_DEADLOCK FALSE
