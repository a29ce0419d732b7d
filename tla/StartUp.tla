------------------------------- MODULE StartUp -------------------------------
(***************************************************************************)
(* docker-entrypoint.sh in every container of the compose files: the web   *)
(* container migrates and creates the first superuser, the Celery ones     *)
(* wait for it.  Containers crash, are restarted by Docker and replaced by *)
(* other images; PostgreSQL and Redis go away and come back.               *)
(***************************************************************************)
EXTENDS Naturals

CONSTANTS Web, Celery,             \* containers: DJANGO_MIGRATE=true, =wait
          Tries, MigrationTries,   \* failed attempts before a wait gives up
          Images,                  \* image i needs migrations 1..i
          MaxFaults                \* bound on crashes, outages, deployments

Container == Web \cup Celery
Service   == {"db", "redis"}

ASSUME RolesAssumption == Web \cap Celery = {}
ASSUME BoundsAssumption ==
  /\ Tries \in Nat \ {0} /\ MigrationTries \in Nat \ {0}
  /\ Images \in Nat \ {0} /\ MaxFaults \in Nat

VARIABLES stage, tries,       \* of each container: where it is, failed attempts
          image, plan,        \* what it runs; the last migration `migrate` counts as done
          up,                 \* which services answer
          created, recorded,  \* migrations with tables; with a django_migrations row
          superuser,          \* is there a first account?
          faults

perContainer == <<stage, tries, image, plan>>
database     == <<created, recorded, superuser>>
vars == <<perContainer, up, database, faults>>

Stage == {"created", "db", "redis", "migrate", "migrating", "recording",
          "create", "wait", "run", "exited"}

TypeOK ==
  /\ stage \in [Container -> Stage]
  /\ tries \in [Container -> 0..Tries + MigrationTries]
  /\ image \in [Container -> 1..Images] /\ plan \in [Container -> 0..Images]
  /\ up \in [Service -> BOOLEAN]
  /\ created \in 0..Images /\ recorded \in 0..Images
  /\ superuser \in BOOLEAN /\ faults \in 0..MaxFaults

Init ==
  /\ stage = [c \in Container |-> "created"] /\ tries = [c \in Container |-> 0]
  /\ image = [c \in Container |-> 1] /\ plan = [c \in Container |-> 0]
  /\ up = [s \in Service |-> TRUE]
  /\ created = 0 /\ recorded = 0 /\ superuser = FALSE /\ faults = 0

---------------------------------------------------------------------------
(* Helpers: where a step of the script takes container c.                    *)

Goes(c, to) == /\ stage' = [stage EXCEPT ![c] = to]
               /\ tries' = [tries EXCEPT ![c] = 0]
RunsAnyway(c) == Goes(c, "run")    \* mutant: set -e dropped, or an exit 1
Fails(c) == Goes(c, "exited")      \* set -e
GivesUp(c) == Goes(c, "exited")    \* exit 1 after the warning

Tried(c, limit) ==
  IF tries[c] + 1 < limit
  THEN tries' = [tries EXCEPT ![c] = @ + 1] /\ UNCHANGED stage
  ELSE GivesUp(c)

AfterRedisRuns(c) ==               \* mutant: DJANGO_MIGRATE=wait left out
  IF c \in Web THEN "migrate" ELSE "run"
AfterRedis(c) == IF c \in Web THEN "migrate" ELSE "wait"

---------------------------------------------------------------------------
(* The script *)

WaitForPostgres(c) ==
  /\ stage[c] = "db"
  /\ IF up["db"] THEN Goes(c, "redis") ELSE Tried(c, Tries)
  /\ UNCHANGED <<image, plan, up, database, faults>>

WaitForRedis(c) ==
  /\ stage[c] = "redis"
  /\ IF up["redis"] THEN Goes(c, AfterRedis(c)) ELSE Tried(c, Tries)
  /\ UNCHANGED <<image, plan, up, database, faults>>

PlanFromTables(c) ==      \* mutant: migrate --fake-initial
  /\ stage[c] = "migrate"
  /\ IF up["db"] THEN Goes(c, "migrating") /\ plan' = [plan EXCEPT ![c] = created]
                 ELSE Fails(c) /\ UNCHANGED plan
  /\ UNCHANGED <<image, up, database, faults>>

(* manage.py migrate: reads what is recorded, then runs what it finds missing. *)
PlanMigrations(c) ==
  /\ stage[c] = "migrate"
  /\ IF up["db"] THEN Goes(c, "migrating") /\ plan' = [plan EXCEPT ![c] = recorded]
                 ELSE Fails(c) /\ UNCHANGED plan
  /\ UNCHANGED <<image, up, database, faults>>

PendingTooMany(c) == plan[c] <= image[c]      \* mutant: one migration too many
Pending(c) == plan[c] < image[c]

(* One migration is one transaction, which fails on tables that are there;   *)
(* its record is written in it or, with deferred SQL, after it.              *)
ApplyMigration(c) ==
  /\ stage[c] = "migrating" /\ Pending(c)
  /\ IF ~up["db"] \/ created # plan[c]
     THEN Fails(c) /\ UNCHANGED <<plan, database>>
     ELSE /\ created' = created + 1
          /\ \/ /\ plan' = [plan EXCEPT ![c] = @ + 1] /\ recorded' = created + 1
                /\ Goes(c, "migrating")
             \/ UNCHANGED <<plan, recorded>> /\ Goes(c, "recording")
          /\ UNCHANGED superuser
  /\ UNCHANGED <<image, up, faults>>

RecordMigration(c) ==
  /\ stage[c] = "recording"
  /\ IF ~up["db"] THEN Fails(c) /\ UNCHANGED <<plan, recorded>>
     ELSE /\ plan' = [plan EXCEPT ![c] = @ + 1] /\ recorded' = plan[c] + 1
          /\ Goes(c, "migrating")
  /\ UNCHANGED <<image, up, created, superuser, faults>>

(* manage.py shell: `if not User.objects.exists()`, then create_superuser,   *)
(* whose username the database keeps unique; after that, exec.               *)
AlwaysCreates == TRUE              \* mutant: the check dropped
NoUsers == ~superuser
CheckUsers(c) ==
  /\ stage[c] = "migrating" /\ ~Pending(c)
  /\ IF ~up["db"] THEN Fails(c)
     ELSE Goes(c, IF NoUsers THEN "create" ELSE "run")
  /\ UNCHANGED <<image, plan, up, database, faults>>

CreateSuperuser(c) ==
  /\ stage[c] = "create"
  /\ IF ~up["db"] \/ superuser THEN Fails(c) /\ UNCHANGED superuser
     ELSE superuser' = TRUE /\ Goes(c, "run")
  /\ UNCHANGED <<image, plan, up, created, recorded, faults>>

(* manage.py migrate --check: an error, too, is a "not yet".                 *)
WaitForMigrations(c) ==
  /\ stage[c] = "wait"
  /\ IF up["db"] /\ image[c] <= recorded THEN Goes(c, "run")
     ELSE Tried(c, MigrationTries)
  /\ UNCHANGED <<image, plan, up, database, faults>>

Script(c) ==
  \/ WaitForPostgres(c) \/ WaitForRedis(c) \/ PlanMigrations(c)
  \/ ApplyMigration(c) \/ RecordMigration(c) \/ CheckUsers(c)
  \/ CreateSuperuser(c) \/ WaitForMigrations(c)

---------------------------------------------------------------------------
(* Docker: depends_on holds for a container `up` makes, not for a restart.   *)

Start(c) ==
  /\ stage[c] = "created" /\ up["db"] /\ up["redis"]
  /\ c \in Celery => \A w \in Web : stage[w] # "created"
  /\ Goes(c, "db")
  /\ UNCHANGED <<image, plan, up, database, faults>>

Restart(c) ==
  /\ stage[c] = "exited"
  /\ Goes(c, "db")
  /\ UNCHANGED <<image, plan, up, database, faults>>

Comeback(s) ==
  /\ ~up[s]
  /\ up' = [up EXCEPT ![s] = TRUE]
  /\ UNCHANGED <<perContainer, database, faults>>

Fault == faults < MaxFaults /\ faults' = faults + 1

Crash(c) ==
  /\ stage[c] \notin {"created", "exited"}
  /\ Goes(c, "exited")
  /\ Fault /\ UNCHANGED <<image, plan, up, database>>

Deploy(c, v) ==
  /\ image' = [image EXCEPT ![c] = v] /\ Goes(c, "created")
  /\ Fault /\ UNCHANGED <<plan, up, database>>

Outage(s) ==
  /\ up[s]
  /\ up' = [up EXCEPT ![s] = FALSE]
  /\ Fault /\ UNCHANGED <<perContainer, database>>

Next ==
  \/ \E c \in Container : Script(c) \/ Start(c) \/ Restart(c) \/ Crash(c)
  \/ \E c \in Container, v \in 1..Images : Deploy(c, v)
  \/ \E s \in Service : Comeback(s) \/ Outage(s)

Spec == Init /\ [][Next]_vars

(* A script that is not killed goes on, and Docker restarts what has exited. *)
Fairness ==
  /\ \A c \in Container : WF_vars(Script(c)) /\ WF_vars(Start(c)) /\ WF_vars(Restart(c))
  /\ \A s \in Service : WF_vars(Comeback(s))
FairSpec == Spec /\ Fairness

---------------------------------------------------------------------------
(* Properties *)

(* Nothing runs before the migrations its image needs are recorded, whoever  *)
(* crashes, times out, runs late or migrates at the same time, and whichever  *)
(* images are deployed and rolled back (docker-entrypoint.sh:39-41, 58-74).   *)
RunsOnItsSchema == \A c \in Container : stage[c] = "run" => image[c] <= recorded

(* When the web container serves, somebody can sign in: a crash or an outage  *)
(* between the migrations and create_superuser does not leave a database     *)
(* without a first account behind (docker-entrypoint.sh:43-57).               *)
SuperuserBeforeServing == \A w \in Web : stage[w] = "run" => superuser

(* The records, the first account and the containers that run implement the  *)
(* schema's promise, step by step (docker-entrypoint.sh:38-74).              *)
Serving == [c \in Container |-> IF stage[c] = "run" THEN image[c] ELSE 0]
Promise == INSTANCE Schema WITH
  version <- recorded, account <- superuser, serving <- Serving
SchemaSpec == Promise!Spec

(* A migration that was cut off between its tables and its record blocks all *)
(* further ones: no restart, other container or image gets past it without   *)
(* somebody mending the database (docker-entrypoint.sh:40).                  *)
CutOff == created # recorded
Orphaned == CutOff /\ \A c \in Container : stage[c] # "recording"
CutOffStays ==
  [][Orphaned => Orphaned' /\ UNCHANGED <<created, recorded>>]_vars

(* Once faults stop, every container runs for good, although every wait gives *)
(* up after a while and two web containers can get in each other's way.  The  *)
(* exceptions wait for a migration that nobody will record: one cut off       *)
(* between its tables and its record, or one no web container's image has     *)
(* (docker-entrypoint.sh:12-74, docker-compose.yml:89).                       *)
Nowhere(c) == c \in Celery /\ \A w \in Web : image[w] < image[c]
Stuck(c) == image[c] > recorded /\ (CutOff \/ Nowhere(c))
StartsUp == <>[](\A c \in Container : stage[c] = "run" \/ Stuck(c))
=============================================================================
