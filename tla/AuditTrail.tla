----------------------------- MODULE AuditTrail -----------------------------
(* What the login history promises a reader of the audit page: rows are only *)
(* appended and never reopened or retargeted; a row is stamped only by a     *)
(* logout that found it open, once by each, so a second stamp takes a logout *)
(* that overlapped the first; a stamped row names a session that existed and *)
(* ends with that very step, and a session that has ended never comes back.  *)
(* A row written without a session key is never stamped.  LoginSessions      *)
(* implements it.                                                            *)
EXTENDS Naturals, Sequences

CONSTANTS Row,          \* the rows a login can append, all of them open
          Stamped(_),   \* a row with one more logout time written
          Logout        \* the logouts that may be under way

VARIABLES rows,     \* the audit rows, oldest first
          alive,    \* keys of the session rows in the database
          issued,   \* keys ever given to a session
          found     \* the row each logout has found and not stamped, or 0

vars == <<rows, alive, issued, found>>

Init == /\ rows = <<>> /\ alive = {} /\ issued = {}
        /\ found = [l \in Logout |-> 0]

(* A request opens fresh sessions and ends old ones; nothing else moves.     *)
Churn == /\ issued \subseteq issued'
         /\ alive' \ alive \subseteq issued' \ issued

Open == /\ \E row \in Row : rows' = Append(rows, row)
        /\ Churn
        /\ UNCHANGED found

Find(l) == /\ \E i \in DOMAIN rows :
                /\ rows[i] \in Row
                /\ found' = [found EXCEPT ![l] = i]
           /\ Churn
           /\ UNCHANGED rows

Stamp(l) == /\ found[l] # 0
            /\ rows[found[l]].session_key \in issued \ alive'
            /\ rows' = [rows EXCEPT ![found[l]] = Stamped(rows[found[l]])]
            /\ found' = [found EXCEPT ![l] = 0]
            /\ Churn

(* A logout that ends without a stamp.                                       *)
GiveUp(l) == /\ found' = [found EXCEPT ![l] = 0]
             /\ Churn
             /\ UNCHANGED rows

Keep == UNCHANGED <<rows, found>> /\ Churn

Next == Open \/ Keep \/ \E l \in Logout : Find(l) \/ Stamp(l) \/ GiveUp(l)

Spec == Init /\ [][Next]_vars
=============================================================================
