\* Two replicas start on an empty database, fail and start again; first use,
\* renewal and rotation of keys or certificates and the administration of two
\* users' roles overlap with one another.
CONSTANTS
    Workers = {w1, w2}
    Keys = {k1, k2, k3}
    Users = {u1, u2}
    Migrations = 2
    None = None
SPECIFICATION DeploySpec
SYMMETRY Symmetry
INVARIANTS RotationsDoNotCollide SignaturesVerifiable MigratedOnceInOrder ServingIsReady BootstrappedOnce
PROPERTIES AlwaysAKey RolesFromAdministrators
