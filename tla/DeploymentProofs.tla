-------------------------- MODULE DeploymentProofs --------------------------
(***************************************************************************)
(* Theorems about Deployment for any number of replicas, migrations, keys  *)
(* and users.  Three parts of the state have an invariant each: the keys   *)
(* (KeysInv, since a deployment implements SigningKeys), the schema and    *)
(* the roles.                                                              *)
(***************************************************************************)
EXTENDS Deployment, SigningKeysProofs, FiniteSetTheorems

\* The recorded versions are the migrations that took effect, one by one.
Schema ==
    /\ phase \in [Workers -> {"down", "migrate", "apply", "record", "keys", "serving"}]
    /\ next \in [Workers -> 1..Migrations + 1]
    /\ effects \in Seq(1..Migrations)
    /\ versions = 1..Len(effects)
    /\ \A i \in 1..Len(effects) : effects[i] = i

\* A replica has passed applied migrations only, and all of them before it goes
\* on; one whose transaction has run a migration is the only one.
Progress ==
    \A w \in Workers :
        /\ \A i \in 1..Migrations : i < next[w] => i \in versions
        /\ phase[w] \in {"apply", "record"} => next[w] <= Migrations
        /\ phase[w] = "record" => next[w] \notin versions /\ \A v \in Workers \ {w} :
                                     ~(phase[v] = "record" /\ next[v] = next[w])
        /\ phase[w] \in {"keys", "serving"} => versions = 1..Migrations

SchemaInv == Schema /\ Progress

\* A replica serves only after it was handed a key.
HandedKey == \A w \in Workers : phase[w] = "serving" => \E k \in Keys : key[k] # "none"

Job == [kind : {"none", "bootstrap", "assign", "remove"},
        actor : Users \cup {None}, user : Users \cup {None},
        role : RbacRoles \cup {"none"}, demoted : BOOLEAN]

\* Who founded the installation, and whoever is about to.
Founding ==
    /\ initialized \in BOOLEAN
    /\ founders \subseteq Users /\ assigned \subseteq Users \X RbacRoles
    /\ job \in [Workers -> Job]
    /\ initialized <=> founders # {}
    /\ \A u, v \in founders : u = v
    /\ \A w \in Workers :
          /\ job[w].kind # "none" => <<job[w].user, job[w].role>> \in Users \X RbacRoles
          /\ job[w].kind = "bootstrap" => ~initialized /\ \A v \in Workers \ {w} :
                                             job[v].kind # "bootstrap"

\* The actor of an assignment in progress holds rbac.write, or did when the
\* request was checked.
Entitled ==
    \A w \in Workers : job[w].kind = "assign" =>
        job[w].actor \in Holders(assigned) \/ job[w].demoted

RoleInv == Founding /\ Entitled

DeployInv == KeysInv /\ SchemaInv /\ HandedKey /\ RoleInv

-----------------------------------------------------------------------------
(* The keys: a deployment implements SigningKeys *)

\* Every step of a deployment is one of SigningKeys, or leaves the keys alone.
\* A replica that ends aborts the rotation it may have been in.
LEMMA StepIsKeyStep ==
    ASSUME KeysInv, [DeployNext]_deployVars
    PROVE  [Next]_vars
<1> USE DEF KeysInv, TypeOK
<1>1. CASE UNCHANGED deployVars
    BY <1>1 DEF deployVars, vars
<1>2. ASSUME NEW w \in Workers, Startup(w) PROVE [Next]_vars
  <2>1. CASE InitializeKeys(w)
      BY <2>1 DEF InitializeKeys, Next
  <2>2. CASE ListenAndServe(w)
    <3>1. advisory # w
        BY <2>2 DEF ListenAndServe, LockHeldByRotation
    <3>2. Abort(w)
        BY <2>2, <3>1 DEF ListenAndServe, Abort
    <3> QED
        BY <3>2 DEF Next
  <2>3. CASE Start(w) \/ LookUpMigration(w) \/ ApplyMigration(w) \/ RecordMigration(w)
      BY <2>3 DEF Start, LookUpMigration, ApplyMigration, RecordMigration
  <2> QED
      BY <1>2, <2>1, <2>2, <2>3 DEF Startup
<1>3. ASSUME NEW w \in Workers, KeyStep(w) PROVE [Next]_vars
    BY <1>3 DEF KeyStep, Next, Step
<1>4. ASSUME NEW w \in Workers, Administer(w) PROVE [Next]_vars
    BY <1>4 DEF Administer, Bootstrap, CommitBootstrap, RequireRole, AssignRole, RemoveRole
<1>5. ASSUME NEW w \in Workers, Exit(w) PROVE [Next]_vars
  <2>1. CASE req[w].pc = "idle"
    <3>1. req[w] = NoRequest /\ advisory # w
        BY <2>1 DEF RestIsClean, LockHeldByRotation
    <3>2. UNCHANGED vars
        BY <1>5, <3>1 DEF Exit, End, vars
    <3> QED
        BY <3>2
  <2>2. CASE req[w].pc # "idle"
    <3>1. Abort(w)
        BY <1>5, <2>2 DEF Exit, Abort
    <3> QED
        BY <3>1 DEF Next
  <2> QED
      BY <2>1, <2>2
<1>6. ASSUME NEW k \in Keys, Age(k) PROVE [Next]_vars
    BY <1>6 DEF Next
<1> QED
    BY <1>1, <1>2, <1>3, <1>4, <1>5, <1>6 DEF DeployNext

-----------------------------------------------------------------------------
(* The schema *)

\* An empty database and replicas that are down.
LEMMA SchemaInit == DeployInit => SchemaInv /\ HandedKey
BY DeploymentConstants DEF DeployInit, SchemaInv, Schema, Progress, HandedKey

\* The commit of a migration: its version is the next one, and no other replica
\* is about to commit the same.
LEMMA RecordStep ==
    ASSUME SchemaInv, NEW w \in Workers, RecordMigration(w)
    PROVE  SchemaInv'
<1> USE DeploymentConstants DEF SchemaInv, Schema
<1>1. /\ phase[w] = "record" /\ next[w] \in 1..Migrations
      /\ next[w] \notin versions
      /\ \A i \in 1..Migrations : i < next[w] => i \in versions
    BY DEF Progress, RecordMigration
<1>2. next[w] = Len(effects) + 1
  <2>1. Len(effects) \in Nat
      OBVIOUS
  <2>2. next[w] > Len(effects)
      BY <1>1, <2>1
  <2>3. CASE next[w] > Len(effects) + 1
    <3>1. next[w] - 1 \in versions
        BY <1>1, <2>1, <2>3
    <3> QED
        BY <1>1, <2>1, <2>3, <3>1
  <2> QED
      BY <1>1, <2>1, <2>2, <2>3
<1>3. effects' = Append(effects, Len(effects) + 1)
    BY <1>2 DEF RecordMigration
<1>4. /\ effects' \in Seq(1..Migrations)
      /\ Len(effects') = Len(effects) + 1
      /\ \A i \in 1..Len(effects') : effects'[i] = i
    BY <1>1, <1>2, <1>3
<1>5. versions' = 1..Len(effects')
    BY <1>2, <1>4 DEF RecordMigration
<1>6. Schema'
    BY <1>1, <1>4, <1>5 DEF RecordMigration, Reach
<1>7. ASSUME NEW v \in Workers PROVE
          /\ \A i \in 1..Migrations : i < next'[v] => i \in versions'
          /\ phase'[v] \in {"apply", "record"} => next'[v] <= Migrations
          /\ phase'[v] = "record" => next'[v] \notin versions' /\ \A u \in Workers \ {v} :
                                       ~(phase'[u] = "record" /\ next'[u] = next'[v])
          /\ phase'[v] \in {"keys", "serving"} => versions' = 1..Migrations
  <2>1. CASE v = w
      BY <1>1, <1>2, <2>1 DEF RecordMigration, Reach, Progress
  <2>2. CASE v # w
    <3>1. phase'[v] = phase[v] /\ next'[v] = next[v] /\ versions' = versions \cup {next[w]}
        BY <2>2 DEF RecordMigration, Reach
    <3>2. phase[v] = "record" => next[v] # next[w]
        BY <1>1, <2>2 DEF Progress
    <3>3. phase[v] \notin {"keys", "serving"}
        BY <1>1 DEF Progress
    <3>4. \A u \in Workers \ {v} : phase'[u] = "record" => phase[u] = "record" /\ next'[u] = next[u]
        BY DEF RecordMigration, Reach
    <3> QED
        BY <3>1, <3>2, <3>3, <3>4 DEF Progress
  <2> QED
      BY <2>1, <2>2
<1> QED
    BY <1>6, <1>7 DEF Progress

\* The other steps of start-up, and the end of a process, record no version.
LEMMA StartupStep ==
    ASSUME SchemaInv, NEW w \in Workers,
           \/ Start(w) \/ LookUpMigration(w) \/ ApplyMigration(w)
           \/ InitializeKeys(w) \/ ListenAndServe(w) \/ Exit(w)
    PROVE  SchemaInv'
<1> USE DeploymentConstants DEF SchemaInv, Schema
<1>1. /\ effects' = effects /\ versions' = versions
      /\ \A v \in Workers \ {w} : phase'[v] = phase[v] /\ next'[v] = next[v]
      /\ phase' \in [Workers -> {"down", "migrate", "apply", "record", "keys", "serving"}]
      /\ next' \in [Workers -> 1..Migrations + 1]
  <2>1. \/ phase' = phase
        \/ \E p \in {"down", "migrate", "apply", "record", "keys", "serving"} :
              phase' = [phase EXCEPT ![w] = p]
      BY DEF Start, LookUpMigration, ApplyMigration, InitializeKeys, ListenAndServe, Exit, Reach
  <2>2. \/ next' = next
        \/ \E n \in 1..Migrations + 1 : next' = [next EXCEPT ![w] = n]
    <3>1. ASSUME LookUpMigration(w), next' # next
          PROVE  next[w] + 1 \in 1..Migrations + 1 /\ next' = [next EXCEPT ![w] = next[w] + 1]
        BY <3>1 DEF LookUpMigration
    <3>2. 1 \in 1..Migrations + 1
        OBVIOUS
    <3> QED
        BY <3>1, <3>2 DEF Start, ApplyMigration, InitializeKeys, ListenAndServe, Exit, schemaVars
  <2>3. effects' = effects /\ versions' = versions
      BY DEF Start, LookUpMigration, ApplyMigration, InitializeKeys, ListenAndServe, Exit,
             schemaVars
  <2> QED
      BY <2>1, <2>2, <2>3
<1>2. CASE Start(w)
  <2>1. phase'[w] = "migrate" /\ next' = next
      BY <1>2 DEF Start, Reach, schemaVars
  <2> QED
      BY <1>1, <2>1 DEF Progress
<1>3. CASE LookUpMigration(w)
  <2>1. CASE next[w] \in versions
    <3>1. next'[w] = next[w] + 1 /\ phase' = phase /\ phase[w] = "migrate"
        BY <1>3, <2>1 DEF LookUpMigration
    <3>2. \A i \in 1..Migrations : i < next'[w] => i < next[w] \/ i = next[w]
        BY <3>1
    <3>3. \A i \in 1..Migrations : i < next'[w] => i \in versions
        BY <2>1, <3>2 DEF Progress
    <3>4. phase' = phase /\ phase[w] = "migrate"
        BY <3>1
    <3>5. Schema'
        BY <1>1
    <3>6. ASSUME NEW v \in Workers PROVE
              /\ \A i \in 1..Migrations : i < next'[v] => i \in versions'
              /\ phase'[v] \in {"apply", "record"} => next'[v] <= Migrations
              /\ phase'[v] = "record" => next'[v] \notin versions' /\ \A u \in Workers \ {v} :
                                           ~(phase'[u] = "record" /\ next'[u] = next'[v])
              /\ phase'[v] \in {"keys", "serving"} => versions' = 1..Migrations
      <4>1. CASE v = w
          BY <3>3, <3>4, <1>1, <4>1
      <4>2. CASE v # w
          BY <1>1, <3>4, <4>2 DEF Progress
      <4> QED
          BY <4>1, <4>2
    <3> QED
        BY <3>5, <3>6 DEF Progress
  <2>2. CASE next[w] \notin versions
    <3>1. next' = next /\ phase'[w] = "apply" /\ next[w] <= Migrations
        BY <1>3, <2>2 DEF LookUpMigration, Reach
    <3> QED
        BY <1>1, <3>1 DEF Progress
  <2> QED
      BY <2>1, <2>2
<1>4. CASE ApplyMigration(w)
  <2>1. /\ phase[w] = "apply" /\ phase'[w] = "record" /\ next' = next
        /\ next[w] \notin versions
        /\ \A v \in Workers : ~(phase[v] = "record" /\ next[v] = next[w])
      BY <1>4 DEF ApplyMigration, Creating, Reach, schemaVars
  <2> QED
      BY <1>1, <2>1 DEF Progress
<1>5. CASE InitializeKeys(w)
  <2>1. phase'[w] = "keys" /\ next'[w] = 1 /\ next[w] > Migrations
      BY <1>5 DEF InitializeKeys, Reach
  <2>2. Len(effects) <= Migrations /\ 1..Migrations \subseteq versions
    <3>1. 1..Migrations \subseteq versions
        BY <2>1 DEF Progress
    <3>2. Len(effects) \in Nat
        OBVIOUS
    <3>3. ASSUME Len(effects) > Migrations PROVE FALSE
      <4>1. Len(effects) \in 1..Len(effects)
          BY <3>2, <3>3
      <4>2. effects[Len(effects)] \in 1..Migrations /\ effects[Len(effects)] = Len(effects)
          BY <4>1
      <4> QED
          BY <3>2, <3>3, <4>2
    <3> QED
        BY <3>1, <3>2, <3>3
  <2>3. versions' = 1..Migrations
      BY <1>1, <2>2
  <2>4. ASSUME NEW v \in Workers PROVE
            /\ \A i \in 1..Migrations : i < next'[v] => i \in versions'
            /\ phase'[v] \in {"apply", "record"} => next'[v] <= Migrations
            /\ phase'[v] = "record" => next'[v] \notin versions' /\ \A u \in Workers \ {v} :
                                         ~(phase'[u] = "record" /\ next'[u] = next'[v])
    <3>1. CASE v = w
        BY <2>1, <2>3, <3>1
    <3>2. CASE v # w
        BY <1>1, <2>1, <3>2 DEF Progress
    <3> QED
        BY <3>1, <3>2
  <2>5. Schema'
      BY <1>1
  <2> QED
      BY <2>3, <2>4, <2>5 DEF Progress
<1>6. CASE ListenAndServe(w)
  <2>1. phase[w] = "keys" /\ phase'[w] = "serving" /\ next' = next
      BY <1>6 DEF ListenAndServe, Reach, schemaVars
  <2> QED
      BY <1>1, <2>1 DEF Progress
<1>7. CASE Exit(w)
  <2>1. phase'[w] = "down" /\ next'[w] = 1
      BY <1>7 DEF Exit, Reach
  <2> QED
      BY <1>1, <2>1 DEF Progress
<1> QED
    BY <1>2, <1>3, <1>4, <1>5, <1>6, <1>7

\* SchemaInv is inductive.
LEMMA SchemaStep ==
    ASSUME SchemaInv, [DeployNext]_deployVars
    PROVE  SchemaInv'
<1>1. CASE UNCHANGED <<phase, next, effects, versions>>
    BY <1>1 DEF SchemaInv, Schema, Progress
<1>2. ASSUME NEW w \in Workers, Startup(w) \/ Exit(w) PROVE SchemaInv'
    BY <1>2, RecordStep, StartupStep DEF Startup
<1>3. ASSUME NEW w \in Workers, KeyStep(w) \/ Administer(w)
      PROVE  UNCHANGED <<phase, next, effects, versions>>
    BY <1>3 DEF KeyStep, Administer, Bootstrap, CommitBootstrap, RequireRole, AssignRole,
                RemoveRole, schemaVars
<1> QED
    BY <1>1, <1>2, <1>3 DEF DeployNext, deployVars, schemaVars

\* Rows of keys stay, and ListenAndServe has one.
LEMMA HandedKeyStep ==
    ASSUME KeysInv, SchemaInv, HandedKey, [DeployNext]_deployVars
    PROVE  HandedKey'
<1> USE DEF KeysInv, TypeOK, SchemaInv, Schema
<1>1. ASSUME NEW k \in Keys, key[k] # "none" PROVE key'[k] # "none"
  <2>1. [Next]_vars
      BY StepIsKeyStep
  <2> QED
      BY <1>1, <2>1, ZenonT(40) DEF Next, Step, Active, Rotate, AcquireLock, RetireActive,
                                   InsertAndCommit, Sign, Abort, Age, vars
<1>2. ASSUME NEW w \in Workers, phase'[w] = "serving" PROVE \E k \in Keys : key[k] # "none"
  <2>1. CASE phase[w] = "serving"
      BY <2>1 DEF HandedKey
  <2>2. CASE phase[w] # "serving"
    <3>1. ListenAndServe(w)
        BY <1>2, <2>2, ZenonT(40) DEF DeployNext, deployVars, Startup, Start, LookUpMigration,
             ApplyMigration, RecordMigration, InitializeKeys, ListenAndServe, Exit, Reach,
             KeyStep, Administer, Bootstrap, CommitBootstrap, RequireRole, AssignRole, RemoveRole
    <3> QED
        BY <3>1 DEF ListenAndServe, KeysHaveRows
  <2> QED
      BY <2>1, <2>2
<1> QED
    BY <1>1, <1>2 DEF HandedKey

-----------------------------------------------------------------------------
(* The roles *)

\* Before bootstrap there is no user and no request.
LEMMA RoleInit == DeployInit => RoleInv
<1> SUFFICES ASSUME DeployInit PROVE RoleInv
    OBVIOUS
<1>1. /\ initialized = FALSE /\ founders = {} /\ assigned = {}
      /\ job = [w \in Workers |-> NoJob] /\ NoJob \in Job
    BY DEF DeployInit, NoJob, Job
<1>2. \A w \in Workers : job[w].kind = "none"
    BY <1>1 DEF NoJob
<1> QED
    BY <1>1, <1>2 DEF RoleInv, Founding, Entitled

\* An assignment more takes the permission from nobody.
LEMMA HoldersGrow ==
    ASSUME NEW before, NEW after, before \subseteq after
    PROVE  Holders(before) \subseteq Holders(after)
BY DEF Holders

\* A request that begins: bootstrap, or one that passed its permission check.
LEMMA RequestStep ==
    ASSUME RoleInv, NEW w \in Workers, NEW j \in Job,
           job' = [job EXCEPT ![w] = j],
           UNCHANGED <<initialized, founders, assigned>>,
           j.kind # "none" => <<j.user, j.role>> \in Users \X RbacRoles,
           j.kind = "bootstrap" => ~initialized /\ \A v \in Workers : job[v].kind # "bootstrap",
           j.kind = "assign" => j.actor \in Holders(assigned) \/ j.demoted
    PROVE  RoleInv'
<1>1. /\ job \in [Workers -> Job] /\ job'[w] = j
      /\ \A v \in Workers \ {w} : job'[v] = job[v]
      /\ job' \in [Workers -> Job]
    BY DEF RoleInv, Founding
<1>2. Entitled'
    BY <1>1, HoldersGrow DEF RoleInv, Entitled
<1>3. ASSUME NEW v \in Workers PROVE
          /\ job'[v].kind # "none" => <<job'[v].user, job'[v].role>> \in Users \X RbacRoles
          /\ job'[v].kind = "bootstrap" => ~initialized' /\ \A u \in Workers \ {v} :
                                              job'[u].kind # "bootstrap"
  <2>1. CASE v = w
      BY <1>1, <2>1
  <2>2. CASE v # w
      BY <1>1, <2>2 DEF RoleInv, Founding
  <2> QED
      BY <2>1, <2>2
<1>4. Founding'
    BY <1>1, <1>3 DEF RoleInv, Founding
<1> QED
    BY <1>2, <1>4 DEF RoleInv

\* Bootstrap commits: it is the only one in progress, and the first.
LEMMA FoundingStep ==
    ASSUME RoleInv, NEW w \in Workers, CommitBootstrap(w)
    PROVE  RoleInv'
<1>1. /\ job[w].kind = "bootstrap" /\ job[w].user \in Users
      /\ <<job[w].user, job[w].role>> \in Users \X RbacRoles
      /\ founders = {} /\ ~initialized
      /\ \A v \in Workers \ {w} : job[v].kind # "bootstrap"
    BY DEF CommitBootstrap, RoleInv, Founding
<1>2. /\ job' = [job EXCEPT ![w] = NoJob] /\ NoJob \in Job /\ NoJob.kind = "none"
      /\ initialized' = TRUE /\ founders' = {job[w].user}
      /\ assigned' = assigned \cup {<<job[w].user, job[w].role>>}
    BY <1>1 DEF CommitBootstrap, NoJob, Job
<1>3. /\ job' \in [Workers -> Job] /\ job'[w] = NoJob
      /\ \A v \in Workers \ {w} : job'[v] = job[v]
    BY <1>2 DEF RoleInv, Founding
<1>4. \A v \in Workers : job'[v].kind # "bootstrap"
    BY <1>1, <1>2, <1>3
<1>5. \A v \in Workers :
          job'[v].kind # "none" => <<job'[v].user, job'[v].role>> \in Users \X RbacRoles
    BY <1>2, <1>3 DEF RoleInv, Founding
<1>6. Founding'
    BY <1>1, <1>2, <1>3, <1>4, <1>5 DEF RoleInv, Founding
<1>7. Holders(assigned) \subseteq Holders(assigned')
    BY <1>2, HoldersGrow
<1>8. Entitled'
    BY <1>2, <1>3, <1>7 DEF RoleInv, Entitled
<1> QED
    BY <1>6, <1>8 DEF RoleInv

\* A role is assigned.
LEMMA AssignStep ==
    ASSUME RoleInv, NEW w \in Workers, AssignRole(w)
    PROVE  RoleInv'
<1>1. /\ job' = [job EXCEPT ![w] = NoJob] /\ NoJob \in Job /\ NoJob.kind = "none"
      /\ initialized' = initialized /\ founders' = founders
      /\ assigned' = assigned \cup {<<job[w].user, job[w].role>>}
      /\ <<job[w].user, job[w].role>> \in Users \X RbacRoles
    BY DEF AssignRole, NoJob, Job, RoleInv, Founding
<1>2. /\ job' \in [Workers -> Job] /\ job'[w] = NoJob
      /\ \A v \in Workers \ {w} : job'[v] = job[v]
    BY <1>1 DEF RoleInv, Founding
<1>3. Founding'
    BY <1>1, <1>2 DEF RoleInv, Founding
<1>4. Holders(assigned) \subseteq Holders(assigned')
    BY <1>1, HoldersGrow
<1>5. Entitled'
    BY <1>1, <1>2, <1>4 DEF RoleInv, Entitled
<1> QED
    BY <1>3, <1>5 DEF RoleInv

\* A role is removed: if that was the holder's last with rbac.write, the requests
\* he has in progress are marked.
LEMMA RemoveStep ==
    ASSUME RoleInv, NEW w \in Workers, RemoveRole(w)
    PROVE  RoleInv'
<1> DEFINE Demoted(v) == job[v].actor \in Holders(assigned) \ Holders(assigned')
<1>1. /\ initialized' = initialized /\ founders' = founders
      /\ assigned' = assigned \ {<<job[w].user, job[w].role>>}
      /\ NoJob \in Job /\ NoJob.kind = "none" /\ job \in [Workers -> Job]
    BY DEF RemoveRole, NoJob, Job, RoleInv, Founding
<1>2. job'[w] = NoJob
    BY DEF RemoveRole
<1>3. ASSUME NEW v \in Workers \ {w}
      PROVE  /\ job'[v] \in Job
             /\ job'[v].kind = job[v].kind /\ job'[v].user = job[v].user
             /\ job'[v].actor = job[v].actor /\ job'[v].role = job[v].role
             /\ job'[v].demoted <=> job[v].demoted \/ Demoted(v)
  <2>1. job'[v] = [job[v] EXCEPT !.demoted = job[v].demoted \/ Demoted(v)]
      BY DEF RemoveRole
  <2>2. job[v] \in Job
      BY <1>1
  <2> QED
      BY <2>1, <2>2 DEF Job
<1>4. job' \in [Workers -> Job]
  <2>1. \A v \in Workers : job'[v] \in Job
      BY <1>1, <1>2, <1>3
  <2> QED
      BY <2>1 DEF RemoveRole
<1>5. Founding'
    BY <1>1, <1>2, <1>3, <1>4 DEF RoleInv, Founding
<1>6. ASSUME NEW v \in Workers, job'[v].kind = "assign"
      PROVE  job'[v].actor \in Holders(assigned') \/ job'[v].demoted
  <2>1. v # w
      BY <1>1, <1>2, <1>6
  <2>2. /\ job[v].actor \in Holders(assigned) \/ job[v].demoted
        /\ job'[v].actor = job[v].actor
        /\ job'[v].demoted <=> job[v].demoted \/ Demoted(v)
      BY <1>3, <1>6, <2>1 DEF RoleInv, Entitled
  <2> QED
      BY <1>1, <2>2
<1> QED
    BY <1>5, <1>6 DEF RoleInv, Entitled

\* RoleInv is inductive.
LEMMA RoleStep ==
    ASSUME RoleInv, [DeployNext]_deployVars
    PROVE  RoleInv'
<1>1. CASE UNCHANGED roleVars
    BY <1>1 DEF roleVars, RoleInv, Founding, Entitled
<1>2. ASSUME NEW w \in Workers, NEW u \in Users, Bootstrap(w, u) PROVE RoleInv'
  <2> DEFINE j == [NoJob EXCEPT !.kind = "bootstrap", !.user = u, !.role = "Super Admin"]
  <2>1. j \in Job /\ j.kind = "bootstrap" /\ <<j.user, j.role>> \in Users \X RbacRoles
      BY DEF NoJob, Job, RbacRoles
  <2>2. job' = [job EXCEPT ![w] = j] /\ UNCHANGED <<initialized, founders, assigned>>
      BY <1>2 DEF Bootstrap
  <2>3. ~initialized /\ \A v \in Workers : job[v].kind # "bootstrap"
      BY <1>2 DEF Bootstrap, StateLocked
  <2> QED
      BY <2>1, <2>2, <2>3, RequestStep
<1>3. ASSUME NEW w \in Workers, NEW kind \in {"assign", "remove"}, NEW a \in Users, NEW u \in Users,
             NEW r \in RbacRoles, RequireRole(w, kind, a, u, r)
      PROVE  RoleInv'
  <2> DEFINE j == [NoJob EXCEPT !.kind = kind, !.user = u, !.role = r,
                                !.actor = IF kind = "assign" THEN a ELSE None]
  <2>1. /\ j \in Job /\ j.kind = kind /\ <<j.user, j.role>> \in Users \X RbacRoles
        /\ kind = "assign" => j.actor = a
      BY DEF NoJob, Job
  <2>2. /\ job' = [job EXCEPT ![w] = j] /\ UNCHANGED <<initialized, founders, assigned>>
        /\ a \in Holders(assigned)
      BY <1>3 DEF RequireRole, Permitted
  <2> QED
      BY <2>1, <2>2, RequestStep
<1>4. ASSUME NEW w \in Workers, Exit(w) PROVE RoleInv'
  <2>1. NoJob \in Job /\ NoJob.kind = "none"
      BY DEF NoJob, Job
  <2>2. job' = [job EXCEPT ![w] = NoJob] /\ UNCHANGED <<initialized, founders, assigned>>
      BY <1>4 DEF Exit
  <2> QED
      BY <2>1, <2>2, RequestStep
<1>5. ASSUME NEW w \in Workers, CommitBootstrap(w) \/ AssignRole(w) \/ RemoveRole(w)
      PROVE  RoleInv'
    BY <1>5, FoundingStep, AssignStep, RemoveStep
<1>6. ASSUME NEW w \in Workers, Startup(w) \/ KeyStep(w) PROVE UNCHANGED roleVars
    BY <1>6 DEF Startup, Start, LookUpMigration, ApplyMigration, RecordMigration,
                InitializeKeys, ListenAndServe, KeyStep
<1> QED
    BY <1>1, <1>2, <1>3, <1>4, <1>5, <1>6 DEF DeployNext, Administer, deployVars, roleVars

-----------------------------------------------------------------------------
(* Theorems *)

\* Replicas that start, crash and restart in any order keep the three parts of
\* the invariant.
THEOREM DeployInvariant == DeploySpec => []DeployInv
<1>1. DeployInit => DeployInv
    BY KeysInit, SchemaInit, RoleInit DEF DeployInit, DeployInv
<1>2. DeployInv /\ [DeployNext]_deployVars => DeployInv'
    BY StepIsKeyStep, KeysStep, SchemaStep, HandedKeyStep, RoleStep DEF DeployInv
<1> QED
    BY <1>1, <1>2, PTL DEF DeploySpec

\* The key managers of replicas that start, crash and restart follow the
\* protocol of SigningKeys: whatever is proved of it holds in a deployment.
THEOREM DeploymentImplementsSigningKeys == DeploySpec => Spec
<1>1. DeployInit => Init
    BY DEF DeployInit
<1>2. DeployInv /\ [DeployNext]_deployVars => [Next]_vars
    BY StepIsKeyStep DEF DeployInv
<1> QED
    BY <1>1, <1>2, DeployInvariant, PTL DEF DeploySpec, Spec

\* The unique index refuses no rotation, whichever replicas crash meanwhile.
THEOREM DeploymentNoCollision == DeploySpec => []RotationsDoNotCollide
BY DeploymentImplementsSigningKeys, NoCollision, PTL

\* A signature made with a key obtained before a rotation or a crash of another
\* replica can be verified all the same.
THEOREM DeploymentVerifiable == DeploySpec => []SignaturesVerifiable
BY DeploymentImplementsSigningKeys, Verifiable, PTL

\* No crash or restart leaves a key store without its active key.
THEOREM DeploymentKeyAvailable == DeploySpec => AlwaysAKey
BY DeploymentImplementsSigningKeys, KeyAvailable, PTL

\* The state of a deployment stays well typed.
THEOREM DeployTypeCorrect == DeploySpec => []DeployTypeOK
<1>1. DeployInv => DeployTypeOK
  <2> SUFFICES ASSUME DeployInv PROVE DeployTypeOK
      OBVIOUS
  <2>1. TypeOK /\ Schema /\ Founding
      BY DEF DeployInv, KeysInv, SchemaInv, RoleInv
  <2>2. versions \subseteq 1..Migrations
    <3>1. ASSUME NEW i \in versions PROVE i \in 1..Migrations
      <4>1. i \in 1..Len(effects) /\ effects[i] = i
          BY <2>1 DEF Schema
      <4>2. effects[i] \in 1..Migrations
          BY <2>1, <4>1, DeploymentConstants DEF Schema
      <4> QED
          BY <4>1, <4>2
    <3> QED
        BY <3>1
  <2> QED
      BY <2>1, <2>2 DEF DeployTypeOK, Schema, Founding, Job
<1> QED
    BY <1>1, DeployInvariant, PTL

\* Each migration takes effect once, in order, and is recorded exactly if it did.
THEOREM MigrationsOnce == DeploySpec => []MigratedOnceInOrder
<1>1. DeployInv => MigratedOnceInOrder
    BY DEF DeployInv, SchemaInv, Schema, MigratedOnceInOrder
<1> QED
    BY <1>1, DeployInvariant, PTL

\* A replica that listens has the whole schema and a key to sign with.
THEOREM ReadyToServe == DeploySpec => []ServingIsReady
<1>1. DeployInv => ServingIsReady
    BY DEF DeployInv, SchemaInv, Progress, HandedKey, KeysInv, SomeKeyActive, ServingIsReady
<1> QED
    BY <1>1, DeployInvariant, PTL

\* Bootstrap succeeds once in the life of an installation.
THEOREM OneFounder == DeploySpec => []BootstrappedOnce
<1>1. DeployInv => BootstrappedOnce
  <2> SUFFICES ASSUME DeployInv PROVE BootstrappedOnce
      OBVIOUS
  <2>1. initialized <=> founders # {}
      BY DEF DeployInv, RoleInv, Founding
  <2>2. founders = {} \/ \E u : founders = {u}
    <3>1. \A u, v \in founders : u = v
        BY DEF DeployInv, RoleInv, Founding
    <3> QED
        BY <3>1
  <2>3. Cardinality(founders) <= 1
    <3>1. CASE founders = {}
        BY <3>1, FS_EmptySet
    <3>2. ASSUME NEW u, founders = {u} PROVE Cardinality(founders) <= 1
      <4>1. Cardinality({u}) = 1
          BY FS_Singleton
      <4> QED
          BY <3>2, <4>1
    <3> QED
        BY <2>2, <3>1, <3>2
  <2> QED
      BY <2>1, <2>3, Zenon DEF BootstrappedOnce
<1> QED
    BY <1>1, DeployInvariant, PTL

\* Both roles of an administrator come from bootstrap or from one who held
\* rbac.write, as Super Admin or as Admin, when the request was checked.
THEOREM RolesGranted == DeploySpec => RolesFromAdministrators
<1> DEFINE Granted ==
      \A u \in Users, r \in RbacRoles : <<u, r>> \in assigned' \ assigned =>
          \E w \in Workers :
             /\ job[w].user = u /\ job[w].role = r /\ job'[w].kind = "none"
             /\ \/ job[w].kind = "bootstrap"
                \/ /\ job[w].kind = "assign"
                   /\ job[w].actor \in Holders(assigned) \/ job[w].demoted
<1>1. ASSUME DeployInv, [DeployNext]_deployVars PROVE [Granted]_deployVars
  <2>1. ASSUME NEW w \in Workers, CommitBootstrap(w) \/ AssignRole(w) PROVE Granted
    <3>1. /\ assigned' = assigned \cup {<<job[w].user, job[w].role>>}
          /\ job[w].kind \in {"bootstrap", "assign"}
          /\ job' = [job EXCEPT ![w] = NoJob]
        BY <2>1 DEF CommitBootstrap, AssignRole
    <3>2. job'[w].kind = "none"
        BY <1>1, <3>1 DEF DeployInv, RoleInv, Founding, NoJob
    <3>3. job[w].kind = "assign" => job[w].actor \in Holders(assigned) \/ job[w].demoted
        BY <1>1 DEF DeployInv, RoleInv, Entitled
    <3>4. ASSUME NEW u \in Users, NEW r \in RbacRoles, <<u, r>> \in assigned' \ assigned
          PROVE  u = job[w].user /\ r = job[w].role
        BY <3>1, <3>4
    <3> QED
        BY <3>1, <3>2, <3>3, <3>4
  <2>2. CASE assigned' \subseteq assigned
      BY <2>2
  <2>3. ASSUME NEW w \in Workers,
               ~CommitBootstrap(w), ~AssignRole(w),
               Startup(w) \/ KeyStep(w) \/ Administer(w) \/ Exit(w)
        PROVE  assigned' \subseteq assigned
      BY <2>3 DEF Startup, Start, LookUpMigration, ApplyMigration, RecordMigration, InitializeKeys,
           ListenAndServe, KeyStep, Administer, Bootstrap, RequireRole, RemoveRole, Exit, roleVars
  <2> QED
      BY <1>1, <2>1, <2>2, <2>3 DEF DeployNext, deployVars, roleVars
<1> QED
    BY <1>1, DeployInvariant, PTL DEF DeploySpec, RolesFromAdministrators
=============================================================================
