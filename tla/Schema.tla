------------------------------- MODULE Schema -------------------------------
(* What the start-up promises whoever operates the site: the schema advances *)
(* one migration at a time and never goes back, a container serves only on a *)
(* schema that has every migration of its image, and the site has a first    *)
(* account from the moment a web container serves.  StartUp implements it.   *)
EXTENDS Naturals

CONSTANTS Web, Celery,   \* the containers, by role
          Images         \* image i needs migrations 1..i

VARIABLES version,   \* migrations on record: 1..version
          account,   \* is there an account?
          serving    \* the image each container serves with, Off if none

vars == <<version, account, serving>>

Off == 0

Init == version = 0 /\ account = FALSE /\ serving = [c \in Web \cup Celery |-> Off]

Migrate == version < Images /\ version' = version + 1 /\ UNCHANGED <<account, serving>>

Begin(c) == /\ serving[c] = Off
            /\ \E v \in 1..version : serving' = [serving EXCEPT ![c] = v]
            /\ UNCHANGED version

(* A web container finds an account or makes one; a worker does neither.     *)
Serve == \/ \E w \in Web : Begin(w) /\ account' = TRUE
         \/ \E c \in Celery : Begin(c) /\ UNCHANGED account

Stop == /\ \E c \in Web \cup Celery : /\ serving[c] # Off
                                      /\ serving' = [serving EXCEPT ![c] = Off]
        /\ UNCHANGED <<version, account>>

Next == Migrate \/ Serve \/ Stop

Spec == Init /\ [][Next]_vars
=============================================================================
