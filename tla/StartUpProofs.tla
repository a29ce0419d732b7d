---------------------------- MODULE StartUpProofs ----------------------------
(***************************************************************************)
(* Safety of the start-up for any containers, limits, images and faults.   *)
(***************************************************************************)
EXTENDS StartUp, TLAPS

---------------------------------------------------------------------------
(* The inductive invariant: what a container's place in the script says of  *)
(* the database, whatever the other containers have done to it since.        *)

RolesKept ==
  /\ \A w \in Web : stage[w] # "wait"
  /\ \A c \in Celery : stage[c] \notin {"migrate", "migrating", "recording", "create"}
RecordsHaveTables == recorded <= created
PlanIsRecorded == \A c \in Container :
  stage[c] \in {"migrating", "recording"} => plan[c] <= recorded
RecordIsDue == \A c \in Container :
  stage[c] = "recording" =>
    plan[c] < image[c] /\ recorded = plan[c] /\ created = plan[c] + 1
OneRecord == \A c, d \in Container :
  stage[c] = "recording" /\ stage[d] = "recording" => c = d
MigratedBeforeCreate == \A c \in Container :
  stage[c] \in {"create", "run"} => image[c] <= recorded

SchemaInv ==
  /\ RolesKept /\ RecordsHaveTables /\ PlanIsRecorded
  /\ RecordIsDue /\ OneRecord /\ MigratedBeforeCreate
  /\ SuperuserBeforeServing
IInv == TypeOK /\ SchemaInv

USE DEF Container, Service, Stage

LEMMA InitIInv == Init => IInv
<1> SUFFICES ASSUME Init PROVE IInv
  OBVIOUS
<1>1. TypeOK
  <2>1. up \in [Service -> BOOLEAN] /\ superuser \in BOOLEAN
    BY Zenon DEF Init
  <2>2. QED
    BY <2>1, BoundsAssumption DEF Init, TypeOK
<1>2. SchemaInv
  BY DEF Init, SchemaInv, RolesKept, RecordsHaveTables, PlanIsRecorded,
         RecordIsDue, OneRecord, MigratedBeforeCreate, SuperuserBeforeServing
<1>3. QED
  BY <1>1, <1>2 DEF IInv

---------------------------------------------------------------------------
(* Types *)

LEMMA TypeStep == ASSUME TypeOK, RecordIsDue, [Next]_vars PROVE TypeOK'
<1> USE BoundsAssumption DEF TypeOK, Goes, Fails, database, perContainer
<1>t. ASSUME NEW c \in Container, NEW limit \in {Tries, MigrationTries}, Tried(c, limit)
      PROVE  /\ stage' \in [Container -> Stage]
             /\ tries' \in [Container -> 0..Tries + MigrationTries]
  BY <1>t DEF Tried, GivesUp
<1>1. ASSUME NEW c \in Container, WaitForPostgres(c) PROVE TypeOK'
  BY <1>1, <1>t DEF WaitForPostgres
<1>2. ASSUME NEW c \in Container, WaitForRedis(c) PROVE TypeOK'
  BY <1>2, <1>t DEF WaitForRedis, AfterRedis
<1>3. ASSUME NEW c \in Container, PlanMigrations(c) PROVE TypeOK'
  BY <1>3 DEF PlanMigrations
<1>4. ASSUME NEW c \in Container, ApplyMigration(c) PROVE TypeOK'
  BY <1>4 DEF ApplyMigration, Pending
<1>5. ASSUME NEW c \in Container, RecordMigration(c) PROVE TypeOK'
  BY <1>5 DEF RecordMigration, RecordIsDue
<1>6. ASSUME NEW c \in Container, CheckUsers(c) PROVE TypeOK'
  BY <1>6 DEF CheckUsers
<1>7. ASSUME NEW c \in Container, CreateSuperuser(c) PROVE TypeOK'
  <2>1. superuser' \in BOOLEAN
    BY <1>7, Zenon DEF CreateSuperuser
  <2>2. QED
    BY <1>7, <2>1 DEF CreateSuperuser
<1>8. ASSUME NEW c \in Container, WaitForMigrations(c) PROVE TypeOK'
  BY <1>8, <1>t DEF WaitForMigrations
<1>9. ASSUME NEW c \in Container, Start(c) \/ Restart(c) PROVE TypeOK'
  BY <1>9 DEF Start, Restart
<1>10. ASSUME NEW c \in Container, Crash(c) PROVE TypeOK'
  BY <1>10 DEF Crash, Fault
<1>11. ASSUME NEW c \in Container, NEW v \in 1..Images, Deploy(c, v) PROVE TypeOK'
  BY <1>11 DEF Deploy, Fault
<1>12. ASSUME NEW s \in Service, Comeback(s) \/ Outage(s) PROVE TypeOK'
  <2>1. up' \in [Service -> BOOLEAN]
    BY <1>12, Zenon DEF Comeback, Outage
  <2>2. QED
    BY <1>12, <2>1 DEF Comeback, Outage, Fault
<1>13. CASE UNCHANGED vars
  BY <1>13 DEF vars
<1>14. QED
  BY <1>1, <1>2, <1>3, <1>4, <1>5, <1>6, <1>7, <1>8, <1>9, <1>10, <1>11, <1>12,
     <1>13 DEF Next, Script

---------------------------------------------------------------------------
(* The database and the places in the script *)

LEMMA SchemaStep == ASSUME IInv, [Next]_vars PROVE SchemaInv'
<1> USE RolesAssumption
    DEF IInv, TypeOK, SchemaInv, RolesKept, RecordsHaveTables, PlanIsRecorded,
        RecordIsDue, OneRecord, MigratedBeforeCreate, SuperuserBeforeServing,
        Goes, Fails, database, perContainer
<1>t. ASSUME NEW c \in Container, NEW limit, Tried(c, limit), stage[c] \in {"db", "redis", "wait"},
             UNCHANGED <<image, plan, database>>
      PROVE  SchemaInv'
  BY <1>t DEF Tried, GivesUp
<1>1. ASSUME NEW c \in Container, WaitForPostgres(c) PROVE SchemaInv'
  BY <1>1, <1>t DEF WaitForPostgres
<1>2. ASSUME NEW c \in Container, WaitForRedis(c) PROVE SchemaInv'
  BY <1>2, <1>t DEF WaitForRedis, AfterRedis
<1>3. ASSUME NEW c \in Container, PlanMigrations(c) PROVE SchemaInv'
  BY <1>3 DEF PlanMigrations
<1>4. ASSUME NEW c \in Container, ApplyMigration(c) PROVE SchemaInv'
  BY <1>4 DEF ApplyMigration, Pending
<1>5. ASSUME NEW c \in Container, RecordMigration(c) PROVE SchemaInv'
  BY <1>5 DEF RecordMigration
<1>6. ASSUME NEW c \in Container, CheckUsers(c) PROVE SchemaInv'
  BY <1>6 DEF CheckUsers, Pending, NoUsers
<1>7. ASSUME NEW c \in Container, CreateSuperuser(c) PROVE SchemaInv'
  BY <1>7 DEF CreateSuperuser
<1>8. ASSUME NEW c \in Container, WaitForMigrations(c) PROVE SchemaInv'
  BY <1>8, <1>t DEF WaitForMigrations
<1>9. ASSUME NEW c \in Container, Start(c) \/ Restart(c) \/ Crash(c) PROVE SchemaInv'
  BY <1>9 DEF Start, Restart, Crash
<1>10. ASSUME NEW c \in Container, NEW v \in 1..Images, Deploy(c, v) PROVE SchemaInv'
  BY <1>10 DEF Deploy
<1>11. ASSUME NEW s \in Service, Comeback(s) \/ Outage(s) PROVE SchemaInv'
  BY <1>11 DEF Comeback, Outage
<1>12. CASE UNCHANGED vars
  BY <1>12 DEF vars
<1>13. QED
  BY <1>1, <1>2, <1>3, <1>4, <1>5, <1>6, <1>7, <1>8, <1>9, <1>10, <1>11, <1>12
  DEF Next, Script

---------------------------------------------------------------------------
(* Theorems *)

(* The invariant above holds in every reachable state.                       *)
THEOREM Invariance == Spec => []IInv
<1>1. ASSUME IInv, [Next]_vars PROVE IInv'
  BY <1>1, TypeStep, SchemaStep DEF IInv, SchemaInv
<1>2. QED
  BY InitIInv, <1>1, PTL DEF Spec

(* Every reachable state is well typed.                                      *)
THEOREM TypeCorrect == Spec => []TypeOK
BY Invariance, PTL DEF IInv

(* No container runs before the migrations its image needs are recorded: set *)
(* -e, the wait loop and Django's records keep crashed, late and competing    *)
(* containers apart (docker-entrypoint.sh:39-41, 58-74).                      *)
THEOREM SchemaFirst == Spec => []RunsOnItsSchema
<1>1. IInv => RunsOnItsSchema
  BY DEF IInv, SchemaInv, MigratedBeforeCreate, RunsOnItsSchema
<1>2. QED
  BY Invariance, <1>1, PTL

(* A web container that serves has a first account to sign in with, however  *)
(* often its start was cut off (docker-entrypoint.sh:43-57).                  *)
THEOREM SuperuserFirst == Spec => []SuperuserBeforeServing
BY Invariance, PTL DEF IInv, SchemaInv

---------------------------------------------------------------------------
(* The refinement of Schema *)

(* What one container's move does to who serves.                             *)
LEMMA ServingMoves ==
  ASSUME TypeOK, NEW c \in Container, NEW to \in Stage,
         stage' = [stage EXCEPT ![c] = to],
         \A d \in Container : d # c => image'[d] = image[d]
  PROVE  /\ stage[c] # "run" /\ to # "run" => Serving' = Serving
         /\ stage[c] # "run" /\ to = "run" /\ image'[c] = image[c]
              => Serving[c] = 0 /\ Serving' = [Serving EXCEPT ![c] = image[c]]
         /\ stage[c] = "run" /\ to # "run"
              => Serving[c] # 0 /\ Serving' = [Serving EXCEPT ![c] = 0]
<1>1. stage'[c] = to /\ \A d \in Container : d # c => stage'[d] = stage[d]
  BY DEF TypeOK
<1>2. Serving[c] = IF stage[c] = "run" THEN image[c] ELSE 0
  BY DEF Serving
<1>3. Serving' = [d \in Container |-> IF stage'[d] = "run" THEN image'[d] ELSE 0]
  BY DEF Serving
<1>4. image[c] # 0
  BY DEF TypeOK
<1> QED BY <1>1, <1>2, <1>3, <1>4 DEF Serving

(* A step of the script or of Docker, seen by the schema: nothing, the next  *)
(* migration, a container that begins to serve, or one that stops.           *)
LEMMA PromiseStep ==
  ASSUME IInv, [Next]_vars
  PROVE  \/ UNCHANGED <<recorded, superuser, Serving>>
         \/ /\ recorded < Images /\ recorded' = recorded + 1
            /\ UNCHANGED <<superuser, Serving>>
         \/ \E c \in Container :
              /\ Serving[c] = 0 /\ image[c] \in 1..recorded
              /\ Serving' = [Serving EXCEPT ![c] = image[c]]
              /\ UNCHANGED recorded
              /\ \/ c \in Web /\ superuser' = TRUE
                 \/ c \in Celery /\ UNCHANGED superuser
         \/ \E c \in Container : /\ Serving[c] # 0
                                /\ Serving' = [Serving EXCEPT ![c] = 0]
                                /\ UNCHANGED <<recorded, superuser>>
<1> DEFINE Stutters == UNCHANGED <<recorded, superuser, Serving>>
           Migrates == /\ recorded < Images /\ recorded' = recorded + 1
                       /\ UNCHANGED <<superuser, Serving>>
           Begins(c) == /\ Serving[c] = 0 /\ image[c] \in 1..recorded
                        /\ Serving' = [Serving EXCEPT ![c] = image[c]]
                        /\ UNCHANGED recorded
                        /\ \/ c \in Web /\ superuser' = TRUE
                           \/ c \in Celery /\ UNCHANGED superuser
           Stops(c) == /\ Serving[c] # 0
                       /\ Serving' = [Serving EXCEPT ![c] = 0]
                       /\ UNCHANGED <<recorded, superuser>>
<1> USE RolesAssumption DEF IInv, SchemaInv
<1>0. ASSUME NEW c \in Container, NEW to \in Stage \ {"run"}, stage[c] # "run",
             stage' = [stage EXCEPT ![c] = to], image' = image
      PROVE  Serving' = Serving
  BY <1>0, ServingMoves
<1>t. ASSUME NEW c \in Container, NEW limit, Tried(c, limit), stage[c] # "run",
             UNCHANGED image
      PROVE  Serving' = Serving
  <2>1. CASE stage' = stage
    BY <1>t, <2>1 DEF Serving
  <2>2. CASE stage' = [stage EXCEPT ![c] = "exited"]
    BY <1>0, <1>t, <2>2
  <2> QED BY <1>t, <2>1, <2>2 DEF Tried, GivesUp, Goes
<1>m. ASSUME NEW c \in Container
      PROVE  image[c] <= recorded => image[c] \in 1..recorded
  BY DEF TypeOK
<1>1. ASSUME NEW c \in Container,
             WaitForPostgres(c) \/ WaitForRedis(c) \/ PlanMigrations(c)
      PROVE  Stutters
  <2>1. UNCHANGED <<image, recorded, superuser>> /\ stage[c] # "run"
    BY <1>1 DEF WaitForPostgres, WaitForRedis, PlanMigrations, database
  <2>2. \/ \E to \in Stage \ {"run"} : stage' = [stage EXCEPT ![c] = to]
        \/ Tried(c, Tries)
    BY <1>1 DEF WaitForPostgres, WaitForRedis, PlanMigrations, Goes, Fails, AfterRedis
  <2> QED BY <1>0, <1>t, <2>1, <2>2
<1>2. ASSUME NEW c \in Container, ApplyMigration(c)
      PROVE  Stutters \/ Migrates
  <2>1. Serving' = Serving /\ superuser' = superuser
    <3>1. /\ stage[c] # "run" /\ image' = image /\ superuser' = superuser
          /\ \E to \in Stage \ {"run"} : stage' = [stage EXCEPT ![c] = to]
      BY <1>2 DEF ApplyMigration, Goes, Fails, database
    <3> QED BY <1>0, <3>1
  <2>2. \/ recorded' = recorded
        \/ created = plan[c] /\ plan[c] < image[c] /\ recorded' = created + 1
           /\ plan[c] <= recorded
    BY <1>2 DEF ApplyMigration, Pending, database, PlanIsRecorded
  <2>3. created \in Nat /\ recorded \in Nat /\ recorded <= created
        /\ image[c] \in 1..Images /\ Images \in Nat
    BY BoundsAssumption DEF TypeOK, RecordsHaveTables
  <2> QED BY <2>1, <2>2, <2>3
<1>3. ASSUME NEW c \in Container, RecordMigration(c)
      PROVE  Stutters \/ Migrates
  <2>1. Serving' = Serving /\ superuser' = superuser
    <3>1. /\ stage[c] # "run" /\ image' = image /\ superuser' = superuser
          /\ \E to \in Stage \ {"run"} : stage' = [stage EXCEPT ![c] = to]
      BY <1>3 DEF RecordMigration, Goes, Fails
    <3> QED BY <1>0, <3>1
  <2>2. \/ recorded' = recorded
        \/ plan[c] < image[c] /\ recorded = plan[c] /\ recorded' = plan[c] + 1
    BY <1>3 DEF RecordMigration, RecordIsDue
  <2>3. image[c] \in 1..Images /\ plan[c] \in Nat /\ Images \in Nat
    BY BoundsAssumption DEF TypeOK
  <2> QED BY <2>1, <2>2, <2>3
<1>4. ASSUME NEW c \in Container, CheckUsers(c)
      PROVE  Stutters \/ Begins(c)
  <2>1. /\ stage[c] = "migrating" /\ image' = image /\ recorded' = recorded
        /\ superuser' = superuser /\ image[c] <= recorded
    BY <1>4 DEF CheckUsers, Pending, database, PlanIsRecorded, TypeOK
  <2>2. \/ \E to \in Stage \ {"run"} : stage' = [stage EXCEPT ![c] = to]
        \/ stage' = [stage EXCEPT ![c] = "run"] /\ ~NoUsers
    BY <1>4 DEF CheckUsers, Goes, Fails
  <2>3. ~NoUsers => superuser = TRUE
    <3>1. superuser \in BOOLEAN
      BY DEF TypeOK
    <3> QED BY <3>1, Zenon DEF NoUsers
  <2>4. CASE stage' = [stage EXCEPT ![c] = "run"] /\ ~NoUsers
    <3>1. Serving[c] = 0 /\ Serving' = [Serving EXCEPT ![c] = image[c]]
      BY <2>1, <2>4, ServingMoves
    <3>2. superuser' = TRUE
      BY <2>1, <2>3, <2>4, Zenon
    <3>3. c \in Web \/ (c \in Celery /\ superuser' = superuser)
      BY <2>1
    <3> QED BY <1>m, <2>1, <3>1, <3>2, <3>3, Zenon
  <2> QED BY <1>0, <2>1, <2>2, <2>4
<1>5. ASSUME NEW c \in Container, CreateSuperuser(c)
      PROVE  Stutters \/ Begins(c)
  <2>1. /\ stage[c] = "create" /\ image' = image /\ recorded' = recorded
        /\ image[c] <= recorded
    BY <1>5 DEF CreateSuperuser, MigratedBeforeCreate
  <2>2. \/ /\ stage' = [stage EXCEPT ![c] = "exited"] /\ UNCHANGED superuser
        \/ stage' = [stage EXCEPT ![c] = "run"] /\ superuser' = TRUE
    BY <1>5, Zenon DEF CreateSuperuser, Goes, Fails
  <2>3. CASE stage' = [stage EXCEPT ![c] = "run"] /\ superuser' = TRUE
    <3>1. Serving[c] = 0 /\ Serving' = [Serving EXCEPT ![c] = image[c]]
      BY <2>1, <2>3, ServingMoves
    <3>2. c \in Web
      BY <2>1 DEF RolesKept
    <3> QED BY <1>m, <2>1, <2>3, <3>1, <3>2, Zenon
  <2>4. CASE stage' = [stage EXCEPT ![c] = "exited"] /\ UNCHANGED superuser
    BY <1>0, <2>1, <2>4
  <2> QED BY <2>2, <2>3, <2>4
<1>6. ASSUME NEW c \in Container, WaitForMigrations(c)
      PROVE  Stutters \/ Begins(c)
  <2>1. /\ stage[c] = "wait" /\ UNCHANGED <<image, recorded, superuser>>
    BY <1>6 DEF WaitForMigrations, database
  <2>2. \/ stage' = [stage EXCEPT ![c] = "run"] /\ image[c] <= recorded
        \/ Tried(c, MigrationTries)
    BY <1>6 DEF WaitForMigrations, Goes
  <2>3. CASE stage' = [stage EXCEPT ![c] = "run"] /\ image[c] <= recorded
    <3>1. Serving[c] = 0 /\ Serving' = [Serving EXCEPT ![c] = image[c]]
      BY <2>1, <2>3, ServingMoves
    <3>2. c \in Celery
      BY <2>1 DEF RolesKept
    <3> QED BY <1>m, <2>1, <2>3, <3>1, <3>2, Zenon
  <2>4. CASE Tried(c, MigrationTries)
    BY <1>t, <2>1, <2>4
  <2> QED BY <2>2, <2>3, <2>4
<1>7. ASSUME NEW c \in Container, Start(c) \/ Restart(c)
      PROVE  Stutters
  <2>1. /\ stage[c] # "run" /\ stage' = [stage EXCEPT ![c] = "db"]
        /\ UNCHANGED <<image, recorded, superuser>>
    BY <1>7 DEF Start, Restart, Goes, database
  <2> QED BY <1>0, <2>1
<1>8. ASSUME NEW c \in Container, NEW v \in 1..Images, Crash(c) \/ Deploy(c, v)
      PROVE  Stutters \/ Stops(c)
  <2>1. /\ UNCHANGED <<recorded, superuser>>
        /\ \A d \in Container : d # c => image'[d] = image[d]
        /\ \E to \in Stage \ {"run"} : stage' = [stage EXCEPT ![c] = to]
    BY <1>8 DEF Crash, Deploy, Goes, database, TypeOK
  <2> QED BY <2>1, ServingMoves
<1>9. ASSUME NEW c \in Container, Crash(c) PROVE Stutters \/ Stops(c)
  <2>1. 1 \in 1..Images
    BY BoundsAssumption
  <2> QED BY <1>8, <1>9, <2>1
<1>10. ASSUME \/ \E s \in Service : Comeback(s) \/ Outage(s)
              \/ UNCHANGED vars
       PROVE  Stutters
  BY <1>10 DEF Comeback, Outage, perContainer, database, vars, Serving
<1>11. \/ Stutters \/ Migrates
       \/ \E c \in Container : Begins(c) \/ Stops(c)
  <2> HIDE DEF Stutters, Migrates, Begins, Stops
  <2>1. ASSUME NEW c \in Container, Script(c)
        PROVE  Stutters \/ Migrates \/ Begins(c)
    BY <1>1, <1>2, <1>3, <1>4, <1>5, <1>6, <2>1 DEF Script
  <2>2. CASE \E s \in Service : Comeback(s) \/ Outage(s)
    BY <1>10, <2>2
  <2>3. CASE UNCHANGED vars
    BY <1>10, <2>3
  <2> QED BY <1>7, <1>8, <1>9, <2>1, <2>2, <2>3 DEF Next
<1> QED BY <1>11, Zenon

(* The start-up keeps the schema's promise: the schema advances one          *)
(* migration at a time, a container begins to serve only on a schema its     *)
(* image knows, and with a web container comes the first account             *)
(* (docker-entrypoint.sh:38-74).                                             *)
THEOREM ImplementsSchema == Spec => SchemaSpec
<1>1. Init => Promise!Init
  <2> SUFFICES ASSUME Init PROVE Promise!Init
    OBVIOUS
  <2>1. superuser = FALSE /\ recorded = 0
    BY Zenon DEF Init
  <2>2. Serving = [c \in Web \cup Celery |-> 0]
    BY DEF Init, Serving
  <2> QED BY <2>1, <2>2, Zenon DEF Promise!Init, Promise!Off
<1>2. IInv /\ [Next]_vars => [Promise!Next]_Promise!vars
  <2> SUFFICES ASSUME IInv, [Next]_vars PROVE [Promise!Next]_Promise!vars
    OBVIOUS
  <2>1. CASE UNCHANGED <<recorded, superuser, Serving>>
    BY <2>1 DEF Promise!vars
  <2>2. CASE /\ recorded < Images /\ recorded' = recorded + 1
             /\ UNCHANGED <<superuser, Serving>>
    BY <2>2, Zenon DEF Promise!Next, Promise!Migrate
  <2>3. ASSUME NEW c \in Container,
               Serving[c] = 0, image[c] \in 1..recorded,
               Serving' = [Serving EXCEPT ![c] = image[c]], UNCHANGED recorded
        PROVE  Promise!Begin(c)
    BY <2>3, Zenon DEF Promise!Begin, Promise!Off
  <2>4. ASSUME NEW c \in Container,
               Serving[c] = 0, image[c] \in 1..recorded,
               Serving' = [Serving EXCEPT ![c] = image[c]], UNCHANGED recorded,
               \/ c \in Web /\ superuser' = TRUE
               \/ c \in Celery /\ UNCHANGED superuser
        PROVE  Promise!Next
    BY <2>3, <2>4, Zenon DEF Promise!Next, Promise!Serve
  <2>5. ASSUME NEW c \in Container, Serving[c] # 0,
               Serving' = [Serving EXCEPT ![c] = 0],
               UNCHANGED <<recorded, superuser>>
        PROVE  Promise!Next
    BY <2>5, Zenon DEF Promise!Next, Promise!Stop, Promise!Off
  <2> QED BY <2>1, <2>2, <2>4, <2>5, PromiseStep
<1> QED BY <1>1, <1>2, Invariance, PTL DEF Spec, SchemaSpec, Promise!Spec

(* A migration cut off between its tables and its record, which no container *)
(* is about to write, blocks all further ones for good: `migrate` finds the  *)
(* tables there and fails, on every restart and in every image               *)
(* (docker-entrypoint.sh:40).                                                *)
THEOREM CutOffIsForGood == Spec => CutOffStays
<1>1. IInv /\ [Next]_vars
        => [Orphaned => Orphaned' /\ UNCHANGED <<created, recorded>>]_vars
  <2> SUFFICES ASSUME IInv, [Next]_vars, Orphaned
               PROVE  Orphaned' /\ UNCHANGED <<created, recorded>>
    OBVIOUS
  <2> USE DEF IInv, SchemaInv
  <2>1. created # recorded /\ \A c \in Container : stage[c] # "recording"
    BY DEF Orphaned, CutOff
  <2>2. \A c \in Container : stage[c] = "migrating" => created # plan[c]
    BY <2>1 DEF PlanIsRecorded, RecordsHaveTables, TypeOK
  <2>3. UNCHANGED <<created, recorded>>
    BY <2>1, <2>2 DEF Next, Script, WaitForPostgres, WaitForRedis, PlanMigrations,
       ApplyMigration, RecordMigration, CheckUsers, CreateSuperuser,
       WaitForMigrations, Start, Restart, Crash, Deploy, Comeback, Outage,
       database, vars
  <2>4. \A c \in Container : stage'[c] # "recording"
    <3>1. \/ stage' = stage
          \/ \E c \in Container, to \in Stage \ {"recording"} :
               stage' = [stage EXCEPT ![c] = to]
      BY <2>1, <2>2 DEF Next, Script, WaitForPostgres, WaitForRedis, PlanMigrations,
         ApplyMigration, RecordMigration, CheckUsers, CreateSuperuser,
         WaitForMigrations, Start, Restart, Crash, Deploy, Comeback, Outage,
         Goes, Fails, GivesUp, Tried, AfterRedis, perContainer, vars
    <3> QED BY <2>1, <3>1 DEF TypeOK
  <2> QED BY <2>1, <2>3, <2>4 DEF Orphaned, CutOff
<1> QED BY <1>1, Invariance, PTL DEF Spec, CutOffStays

---------------------------------------------------------------------------
(* The first start *)

(* While nothing has gone wrong, the only web container finds the database   *)
(* as it left it: its plan is up to date and it is the one that would record *)
(* or create.                                                                *)
LoneInv(w) == faults = 0 =>
  /\ up["db"] /\ up["redis"] /\ stage[w] # "exited"
  /\ stage[w] = "migrating" => plan[w] = created
  /\ stage[w] # "recording" => created = recorded
  /\ stage[w] = "create" => ~superuser

LEMMA LoneStep ==
  ASSUME IInv, [Next]_vars, NEW w, Web = {w}, LoneInv(w)
  PROVE  LoneInv(w)'
<1> SUFFICES ASSUME faults = 0, faults' = 0
             PROVE  LoneInv(w)'
  <2>1. faults' = 0 => faults = 0
    BY DEF Next, Script, WaitForPostgres, WaitForRedis, PlanMigrations, ApplyMigration,
           RecordMigration, CheckUsers, CreateSuperuser, WaitForMigrations, Start,
           Restart, Crash, Deploy, Comeback, Outage, Fault, vars, IInv, TypeOK
  <2> QED BY <2>1 DEF LoneInv
<1> DEFINE Shown == /\ up["db"] /\ up["redis"] /\ stage[w] # "exited"
                    /\ stage[w] = "migrating" => plan[w] = created
                    /\ stage[w] # "recording" => created = recorded
                    /\ stage[w] = "create" => ~superuser
<1>0. Shown /\ w \in Container
  BY DEF LoneInv
<1> SUFFICES Shown'
  BY DEF LoneInv
<1> USE DEF IInv, TypeOK, Goes, database, perContainer
<1>c. ASSUME NEW c \in Container, c # w, UNCHANGED <<up, database>>,
             \A d \in Container : d # c => stage'[d] = stage[d] /\ plan'[d] = plan[d]
      PROVE  Shown'
  BY <1>0, <1>c
<1>1. ASSUME NEW c \in Container, WaitForPostgres(c) \/ WaitForRedis(c)
      PROVE  Shown'
  <2>1. /\ stage[c] \in {"db", "redis"} /\ UNCHANGED <<up, plan, database>>
        /\ \E to \in {"redis", "migrate", "wait"} : stage' = [stage EXCEPT ![c] = to]
    BY <1>0, <1>1 DEF WaitForPostgres, WaitForRedis, AfterRedis
  <2> QED BY <1>0, <2>1
<1>2. ASSUME NEW c \in Container, PlanMigrations(c)
      PROVE  Shown'
  <2>1. c = w
    BY <1>2 DEF PlanMigrations, SchemaInv, RolesKept
  <2> QED BY <1>0, <1>2, <2>1 DEF PlanMigrations
<1>3. ASSUME NEW c \in Container, ApplyMigration(c)
      PROVE  Shown'
  <2>1. c = w
    BY <1>3 DEF ApplyMigration, SchemaInv, RolesKept
  <2>2. created' = created + 1 /\ created = plan[w] /\ UNCHANGED <<up, superuser>>
    BY <1>0, <1>3, <2>1, Zenon DEF ApplyMigration
  <2>3. \/ /\ plan'[w] = plan[w] + 1 /\ recorded' = created + 1
           /\ stage'[w] = "migrating"
        \/ stage'[w] = "recording"
    BY <1>0, <1>3, <2>1 DEF ApplyMigration
  <2> QED BY <1>0, <2>2, <2>3
<1>4. ASSUME NEW c \in Container, RecordMigration(c)
      PROVE  Shown'
  <2>1. c = w
    BY <1>4 DEF RecordMigration, SchemaInv, RolesKept
  <2>2. created = plan[w] + 1
    BY <1>4, <2>1 DEF RecordMigration, SchemaInv, RecordIsDue
  <2> QED BY <1>0, <1>4, <2>1, <2>2 DEF RecordMigration
<1>5. ASSUME NEW c \in Container, CheckUsers(c)
      PROVE  Shown'
  <2>1. c = w
    BY <1>5 DEF CheckUsers, SchemaInv, RolesKept
  <2> QED BY <1>0, <1>5, <2>1 DEF CheckUsers, NoUsers
<1>6. ASSUME NEW c \in Container, CreateSuperuser(c)
      PROVE  Shown'
  <2>1. c = w
    BY <1>6 DEF CreateSuperuser, SchemaInv, RolesKept
  <2>2. stage'[w] = "run" /\ UNCHANGED <<up, plan, created, recorded>>
    BY <1>0, <1>6, <2>1 DEF CreateSuperuser
  <2>3. stage[w] = "create"
    BY <1>6, <2>1 DEF CreateSuperuser
  <2> QED BY <1>0, <2>2, <2>3
<1>7. ASSUME NEW c \in Container, WaitForMigrations(c)
      PROVE  Shown'
  <2>1. c # w /\ UNCHANGED <<up, plan, database>>
    BY <1>7 DEF WaitForMigrations, SchemaInv, RolesKept
  <2>2. \A d \in Container : d # c => stage'[d] = stage[d]
    BY <1>7 DEF WaitForMigrations, Tried, GivesUp
  <2> QED BY <1>c, <2>1, <2>2
<1>8. ASSUME NEW c \in Container, Start(c) \/ Restart(c)
      PROVE  Shown'
  <2>1. /\ stage[c] \in {"created", "exited"} /\ UNCHANGED <<up, plan, database>>
        /\ stage' = [stage EXCEPT ![c] = "db"]
    BY <1>8 DEF Start, Restart
  <2> QED BY <1>0, <2>1
<1>9. ~Fault
  BY DEF Fault
<1>10. ASSUME NEW s \in Service, Comeback(s)
       PROVE  Shown'
  BY <1>0, <1>10 DEF Comeback
<1>11. CASE UNCHANGED vars
  BY <1>0, <1>11 DEF vars
<1> HIDE DEF Shown
<1> QED
  BY <1>1, <1>2, <1>3, <1>4, <1>5, <1>6, <1>7, <1>8, <1>9, <1>10, <1>11
  DEF Next, Script, Crash, Deploy, Outage

(* As the compose files deploy it, with one web container, the first start   *)
(* cannot fail by the script's own doing: until something crashes, goes away *)
(* or is redeployed, `set -e` and the limits of the waits never end it, no   *)
(* migration finds tables in its way and create_superuser meets no account   *)
(* (docker-entrypoint.sh:2-57).  Two web containers do fail each other.      *)
THEOREM FirstStartDoesNotFail ==
  ASSUME NEW w, Web = {w}
  PROVE  Spec => [](faults = 0 => stage[w] # "exited")
<1>1. Init => LoneInv(w)
  <2> SUFFICES ASSUME Init PROVE LoneInv(w)
    OBVIOUS
  <2>1. up["db"] /\ up["redis"] /\ ~superuser
    BY DEF Init
  <2>2. stage[w] = "created" /\ created = recorded
    BY DEF Init
  <2> QED BY <2>1, <2>2 DEF LoneInv
<1>2. IInv /\ [Next]_vars /\ LoneInv(w) => LoneInv(w)'
  BY LoneStep
<1>3. LoneInv(w) => (faults = 0 => stage[w] # "exited")
  BY DEF LoneInv
<1> QED BY <1>1, <1>2, <1>3, Invariance, PTL DEF Spec
=============================================================================
