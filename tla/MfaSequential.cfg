\* One request at a time, every endpoint of the user; the policy stays as it is.
CONSTANTS
    Workers = {w1}
    Sessions = {s1, s2}
    Secrets = {x1, x2}
    Keys = {k1, k2}
    Ceremonies = {c1, c2}
    Batches = {b1, b2}
    Ops = {"begin", "confirm", "disable", "totp", "wbegin", "wfinish", "regbegin", "regfinish", "delkey", "regen", "recover", "reset"}
    MaxResets = 1
    None = None
SPECIFICATION Spec
SYMMETRY Symmetry
INVARIANTS FactorsCounted ActiveSecretProven OneRecoveryBatch
PROPERTY LastFactorKept
CHECK_DEADLOCK FALSE
