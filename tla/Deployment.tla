----------------------------- MODULE Deployment -----------------------------
(***************************************************************************)
(* Replicas of the service on one database, from start-up on: main         *)
(* (backend/cmd/opensso/main.go) applies the migrations                    *)
(* (backend/internal/database/database.go), obtains the active key and     *)
(* serves; bootstrap and role administration (backend/internal/httpapi)    *)
(* then run against SigningKeys' rotations.                                *)
(*                                                                         *)
(* Each worker of SigningKeys is a replica here, with one request in       *)
(* progress.  Whatever fails during start-up ends the process with status  *)
(* 1; the container's restart policy starts it again.  A migration is one  *)
(* transaction that runs its SQL and records its version.  PostgreSQL      *)
(* makes the second of two transactions that create the same relation wait *)
(* for the first, and fail if the first one committed.                     *)
(***************************************************************************)
EXTENDS SigningKeys, Sequences

CONSTANTS Migrations,  \* number of embedded migration files
          Users        \* users that bootstrap or an administrator may name

ASSUME DeploymentConstants == Migrations \in Nat /\ None \notin Users

VARIABLES phase,       \* phase[w]: how far replica w has come
          next,        \* next[w]: the migration replica w looks at
          effects,     \* migrations whose SQL took effect, in that order
          versions,    \* rows of schema_migrations
          initialized, \* system_state.initialized
          founders,    \* users created by bootstrap
          assigned,    \* rows of role_assignments with a role of RbacRoles
          job          \* job[w]: bootstrap or role request in progress

deployVars == <<vars, phase, next, effects, versions, initialized, founders, assigned, job>>
roleVars == <<initialized, founders, assigned, job>>
schemaVars == <<next, effects, versions>>

\* The roles the migrations give the permission rbac.write.  The others make no
\* difference to who may assign and remove roles and are left out.
RbacRoles == {"Super Admin", "Admin"}

\* The users who may assign and remove roles, by the given assignments.
Holders(assignments) == {a \in Users : \E r \in RbacRoles : <<a, r>> \in assignments}

\* demoted: history: the actor lost the permission after the check of the request.
NoJob == [kind |-> "none", actor |-> None, user |-> None, role |-> "none", demoted |-> FALSE]

DeployTypeOK ==
    /\ TypeOK
    /\ phase \in [Workers -> {"down", "migrate", "apply", "record", "keys", "serving"}]
    /\ next \in [Workers -> 1..Migrations + 1]
    /\ effects \in Seq(1..Migrations)
    /\ versions \subseteq 1..Migrations
    /\ initialized \in BOOLEAN
    /\ founders \subseteq Users /\ assigned \subseteq Users \X RbacRoles
    /\ job \in [Workers -> [kind : {"none", "bootstrap", "assign", "remove"},
                            actor : Users \cup {None}, user : Users \cup {None},
                            role : RbacRoles \cup {"none"}, demoted : BOOLEAN]]

DeployInit ==
    /\ Init
    /\ phase = [w \in Workers |-> "down"]
    /\ next = [w \in Workers |-> 1]
    /\ effects = << >>
    /\ versions = {}
    /\ initialized = FALSE
    /\ founders = {} /\ assigned = {}
    /\ job = [w \in Workers |-> NoJob]

-----------------------------------------------------------------------------
(* Start-up *)

Reach(w, p) == phase' = [phase EXCEPT ![w] = p]

\* main opens the database and starts to migrate.
Start(w) ==
    /\ phase[w] = "down"
    /\ Reach(w, "migrate")
    /\ UNCHANGED <<vars, schemaVars, roleVars>>

\* Another replica's transaction has run the SQL of this migration and is open.
Creating(i) == \E v \in Workers : phase[v] = "record" /\ next[v] = i

\* A migration another replica is busy with is taken for applied.
LookUpSkipsBusy(w) ==
    /\ phase[w] = "migrate" /\ next[w] <= Migrations
    /\ IF next[w] \in versions \/ Creating(next[w])
       THEN next' = [next EXCEPT ![w] = @ + 1] /\ UNCHANGED phase
       ELSE Reach(w, "apply") /\ UNCHANGED next
    /\ UNCHANGED <<vars, effects, versions, roleVars>>

\* SELECT EXISTS: an applied migration is skipped, for another one the replica
\* begins a transaction, maybe at the same time as others do.
LookUpMigration(w) ==
    /\ phase[w] = "migrate" /\ next[w] <= Migrations
    /\ IF next[w] \in versions
       THEN next' = [next EXCEPT ![w] = @ + 1] /\ UNCHANGED phase
       ELSE Reach(w, "apply") /\ UNCHANGED next
    /\ UNCHANGED <<vars, effects, versions, roleVars>>

\* The SQL of the migration runs in the transaction.  If another replica has
\* committed it, the relations or the version exist and the statement fails.
ApplyMigration(w) ==
    /\ phase[w] = "apply"
    /\ ~Creating(next[w])
    /\ next[w] \notin versions
    /\ Reach(w, "record")
    /\ UNCHANGED <<vars, schemaVars, roleVars>>

\* The version is recorded after the migration was committed: not if the
\* process ends in between.
RecordAfterwards(w) ==
    /\ phase[w] = "record"
    /\ effects' = Append(effects, next[w])
    /\ \/ /\ versions' = versions \cup {next[w]}
          /\ next' = [next EXCEPT ![w] = @ + 1]
          /\ Reach(w, "migrate")
       \/ /\ next' = [next EXCEPT ![w] = 1]
          /\ Reach(w, "down")
          /\ UNCHANGED versions
    /\ UNCHANGED <<vars, roleVars>>

\* The version is recorded in the same transaction, which commits.
RecordMigration(w) ==
    /\ phase[w] = "record"
    /\ effects' = Append(effects, next[w])
    /\ versions' = versions \cup {next[w]}
    /\ next' = [next EXCEPT ![w] = @ + 1]
    /\ Reach(w, "migrate")
    /\ UNCHANGED <<vars, roleVars>>

\* All migrations are applied: keys.Active, samlCertificates.Active.
InitializeKeys(w) ==
    /\ phase[w] = "migrate" /\ next[w] > Migrations
    /\ Active(w)
    /\ Reach(w, "keys")
    /\ next' = [next EXCEPT ![w] = 1]
    /\ UNCHANGED <<effects, versions, roleVars>>

\* The key is there, start-up has no use for it yet: the replica listens.
ListenAndServe(w) ==
    /\ phase[w] = "keys" /\ req[w].pc = "sign"
    /\ End(w)
    /\ Reach(w, "serving")
    /\ UNCHANGED <<store, key, old, advisory, signed, schemaVars, roleVars>>

\* The process ends: a signal, a crash, or os.Exit(1) after a failed statement
\* or a migration another replica applied meanwhile.  Open transactions roll
\* back.
Exit(w) ==
    /\ phase[w] # "down"
    /\ Reach(w, "down")
    /\ next' = [next EXCEPT ![w] = 1]
    /\ job' = [job EXCEPT ![w] = NoJob]
    /\ advisory' = IF advisory = w THEN None ELSE advisory
    /\ End(w)
    /\ UNCHANGED <<store, key, old, signed, effects, versions, initialized, founders, assigned>>

-----------------------------------------------------------------------------
(* Bootstrap and roles *)

Idle(w) == phase[w] = "serving" /\ req[w].pc = "idle" /\ job[w].kind = "none"

\* Without FOR UPDATE two requests read the row at the same time.
StateRead == ~initialized
StateLocked == ~initialized /\ \A v \in Workers : job[v].kind # "bootstrap"

\* bootstrap: SELECT initialized ... FOR UPDATE; refused once initialized.
Bootstrap(w, u) ==
    /\ Idle(w)
    /\ StateLocked
    /\ u \notin founders
    /\ job' = [job EXCEPT ![w] = [NoJob EXCEPT !.kind = "bootstrap", !.user = u,
                                                   !.role = "Super Admin"]]
    /\ UNCHANGED <<vars, phase, schemaVars, initialized, founders, assigned>>

\* The user, its role and the flag are committed together.
CommitBootstrap(w) ==
    /\ job[w].kind = "bootstrap"
    /\ initialized' = TRUE
    /\ founders' = founders \cup {job[w].user}
    /\ assigned' = assigned \cup {<<job[w].user, job[w].role>>}
    /\ job' = [job EXCEPT ![w] = NoJob]
    /\ UNCHANGED <<vars, phase, schemaVars>>

\* Any user with a session would do.
Authenticated(a) == initialized
Permitted(a) == a \in Holders(assigned)

\* require reads the actor's permission, rbac.write, in a statement before the
\* handler's.  Neither looks at the role that is to be assigned or removed.  (The
\* actor of a removal makes no difference and is not kept.)
RequireRole(w, kind, a, u, r) ==
    /\ Idle(w)
    /\ Permitted(a)
    /\ job' = [job EXCEPT ![w] =
                 [NoJob EXCEPT !.kind = kind, !.user = u, !.role = r,
                               !.actor = IF kind = "assign" THEN a ELSE None]]
    /\ UNCHANGED <<vars, phase, schemaVars, initialized, founders, assigned>>

\* assignRole: one INSERT.
AssignRole(w) ==
    /\ job[w].kind = "assign"
    /\ assigned' = assigned \cup {<<job[w].user, job[w].role>>}
    /\ job' = [job EXCEPT ![w] = NoJob]
    /\ UNCHANGED <<vars, phase, schemaVars, initialized, founders>>

\* removeRole: one DELETE, also of the last row that gives rbac.write.
RemoveRole(w) ==
    /\ job[w].kind = "remove"
    /\ assigned' = assigned \ {<<job[w].user, job[w].role>>}
    /\ job' = [v \in Workers |->
                 IF v = w THEN NoJob
                 ELSE [job[v] EXCEPT !.demoted =
                         @ \/ job[v].actor \in Holders(assigned) \ Holders(assigned')]]
    /\ UNCHANGED <<vars, phase, schemaVars, initialized, founders>>

-----------------------------------------------------------------------------
Startup(w) ==
    \/ Start(w) \/ LookUpMigration(w) \/ ApplyMigration(w) \/ RecordMigration(w)
    \/ InitializeKeys(w) \/ ListenAndServe(w)

\* The key manager's transaction, at start-up or in a request.
KeyStep(w) ==
    /\ \/ Idle(w) /\ (Active(w) \/ Rotate(w))
       \/ AcquireLock(w) \/ RetireActive(w) \/ InsertAndCommit(w)
       \/ phase[w] = "serving" /\ (Sign(w) \/ Abort(w))
    /\ UNCHANGED <<phase, schemaVars, roleVars>>

Administer(w) ==
    \/ \E u \in Users : Bootstrap(w, u)
    \/ CommitBootstrap(w)
    \/ \E kind \in {"assign", "remove"}, a, u \in Users, r \in RbacRoles :
          RequireRole(w, kind, a, u, r)
    \/ AssignRole(w) \/ RemoveRole(w)

DeployNext ==
    \/ \E w \in Workers : Startup(w) \/ KeyStep(w) \/ Administer(w) \/ Exit(w)
    \/ \E k \in Keys : Age(k) /\ UNCHANGED <<phase, schemaVars, roleVars>>

DeploySpec == DeployInit /\ [][DeployNext]_deployVars

-----------------------------------------------------------------------------
(* Properties *)

\* However many replicas start, fail and start again at the same time, each
\* migration takes effect once, in the order of the files, and is recorded
\* exactly if it did.
MigratedOnceInOrder ==
    /\ \A i \in DOMAIN effects : effects[i] = i
    /\ versions = DOMAIN effects

\* A replica that listens has the whole schema and a key to sign with,
\* whatever the replicas before it did when they failed.
ServingIsReady ==
    \A w \in Workers : phase[w] = "serving" => versions = 1..Migrations /\ ActiveKeys # {}

\* Bootstrap succeeds once in the life of the installation: not for two
\* requests at the same time, nor after a restart, nor once every
\* administrator has lost the role.
BootstrappedOnce == Cardinality(founders) <= 1 /\ (initialized <=> founders # {})

\* Nobody becomes an administrator, of either role, but by bootstrap or at the
\* hands of one who held rbac.write when the request was checked.  One who lost
\* it since gets no further than that request.  Which role is given is not
\* restricted: an Admin makes a Super Admin, himself included, although the
\* description of the role Admin excepts the controls of a Super Admin.
RolesFromAdministrators ==
    [][\A u \in Users, r \in RbacRoles : <<u, r>> \in assigned' \ assigned =>
          \E w \in Workers :
             /\ job[w].user = u /\ job[w].role = r /\ job'[w].kind = "none"
             /\ \/ job[w].kind = "bootstrap"
                \/ /\ job[w].kind = "assign"
                   /\ job[w].actor \in Holders(assigned) \/ job[w].demoted]_deployVars
=============================================================================
