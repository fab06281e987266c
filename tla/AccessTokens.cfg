\* Two requests at a time on one token of one of two clients; the limiter admits
\* two requests per window and refuses a third.  Liveness, hence no symmetry.
CONSTANTS
    Workers = {w1, w2}
    Tokens = {t1}
    Apps = {a1, a2}
    None = None
    Limit = 2
    MaxCount = 3
SPECIFICATION Spec
INVARIANTS AccessInv AdmissionsBounded TokensJustified AnswersJustified
PROPERTIES RevocationConfined LimiterReopens
