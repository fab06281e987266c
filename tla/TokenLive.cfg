\* Liveness, hence no symmetry.  Three tokens let revocations of a family
\* deadlock in several ways; a pool of two is small enough for two grants to exhaust it.
CONSTANTS
    Workers = {w1, w2}
    Codes = {c1}
    Tokens = {t1, t2, t3}
    Apps = {a1}
    None = None
    PoolSizes = {2, 3}
SPECIFICATION FairPoolSpec
INVARIANT PoolConserved
PROPERTY EveryRequestEnds
CHECK_DEADLOCK FALSE
