----------------------------- MODULE MCRelease -----------------------------
(* Small instances of Release for TLC. *)
EXTENDS Release, TLC

(* Developers are interchangeable. *)
Symmetry == Permutations(Dev)

(* Bounds that differ by scenario: two developers who both act meet on the   *)
(* smallest histories; one who meets only merges goes on to an entry, a      *)
(* change and another entry, or to larger numbers and breaking changes.      *)
Untouched(d) == /\ clone[d].phase = "idle" /\ ~clone[d].dirty
                /\ clone[d].head = 1 /\ clone[d].tags \in FirstTags
Alone == \E d \in Dev : \A e \in Dev \ {d} : Untouched(e)
Short == Len(commits) <= 3
Plain == /\ \A k \in DOMAIN commits : ~commits[k].breaking
         /\ \A v \in AllTags \cup {clone[d].version : d \in Dev} :
              \A i \in DOMAIN v : v[i] <= 1
Scope == IF Alone THEN Short \/ Plain
         ELSE /\ \A d \in Dev : ~clone[d].dirty
              /\ Short /\ Cardinality(AllTags) <= 2 /\ Plain
=============================================================================
