-------------------------- MODULE SuspensionProofs --------------------------
(***************************************************************************)
(* Who gets in, for any number of requests and admin pages and any times.  *)
(***************************************************************************)
EXTENDS Suspension, TLAPS

(* The inductive invariant: the columns agree in the row and in every copy   *)
(* of it that may still be saved, unless an admin has typed into them; who   *)
(* was let in was active then; the tokens run down while quiet counts.       *)
ColumnsAgree(u) == u = None \/ u.byHand \/ (u.is_active <=> ~u.suspended_at)
Copies == /\ ColumnsAgree(row)
          /\ \A r \in Request : ColumnsAgree(request[r])
          /\ \A p \in Page : ColumnsAgree(page[p])
WereActive == \A a \in Attempt : attempt[a] = None \/ attempt[a].active
Counts == ~Settled => quiet = 0
Quiet == WereActive /\ Counts /\ TokensRunDown
IInv == TypeOK /\ Copies /\ Quiet

---------------------------------------------------------------------------
(* Rows *)

LEMMA ClearIsRow == Clear \in Row /\ ColumnsAgree(Clear)
BY AgesAssumption DEF Clear, Row, NoEnd, ColumnsAgree

LEMMA SuspendedIsRow ==
  ASSUME NEW until \in 0..NoEnd
  PROVE  Suspended(until) \in Row /\ ColumnsAgree(Suspended(until))
BY AgesAssumption DEF Suspended, Row, NoEnd, ColumnsAgree

LEMMA TypedIsRow ==
  ASSUME NEW u \in Typed
  PROVE  u \in Row /\ ColumnsAgree(u)
BY AgesAssumption DEF Typed, Row, NoEnd, ColumnsAgree

LEMMA LaterIsRow ==
  ASSUME NEW u \in Row \cup {None}, ColumnsAgree(u)
  PROVE  /\ Later(u) \in Row \cup {None} /\ ColumnsAgree(Later(u))
         /\ u \in Row => Later(u) \in Row
<1>1. CASE u = None \/ u.suspended_until \in {0, NoEnd}
  BY <1>1 DEF Later
<1>2. CASE u # None /\ u.suspended_until \notin {0, NoEnd}
  <2>1. u \in Row /\ u.suspended_until - 1 \in 0..NoEnd
    BY <1>2, AgesAssumption DEF Row, NoEnd
  <2>2. Later(u) = [u EXCEPT !.suspended_until = u.suspended_until - 1]
    BY <1>2 DEF Later
  <2>3. Later(u) \in Row
    BY <2>1, <2>2 DEF Row
  <2>4. /\ Later(u).is_active = u.is_active /\ Later(u).suspended_at = u.suspended_at
        /\ Later(u).byHand = u.byHand
    BY <2>1, <2>2 DEF Row
  <2>5. QED
    BY <1>2, <2>3, <2>4 DEF ColumnsAgree
<1>3. QED
  BY <1>1, <1>2

LEMMA AgedTokens ==
  ASSUME NEW n \in Nat, NEW tokens \in SUBSET (1..n)
  PROVE  Aged(tokens) \in SUBSET (1..n)
BY DEF Aged

---------------------------------------------------------------------------
(* Copies *)

LEMMA InitCopies == Init => TypeOK /\ Copies
<1> SUFFICES ASSUME Init PROVE TypeOK /\ Copies
  OBVIOUS
<1>1. session \in BOOLEAN
  BY Zenon DEF Init
<1>2. QED
  BY <1>1, ClearIsRow, AgesAssumption DEF Init, TypeOK, Copies, ColumnsAgree

LEMMA CountTyped == ASSUME quiet \in 0..RefreshAge, Count PROVE quiet' \in 0..RefreshAge
BY AgesAssumption DEF Count

LEMMA LetInTyped ==
  ASSUME TypeOK, NEW a \in Attempt, NEW gives \in {"session", "tokens"}, LetIn(a, gives)
  PROVE  attempt' \in [Attempt -> Allowed \cup {None}] /\ quiet' \in 0..RefreshAge
<1>1. row.is_active \in BOOLEAN
  BY DEF TypeOK, Row
<1>2. [gives |-> gives, active |-> row.is_active] \in Allowed
  BY <1>1, Zenon DEF Allowed
<1>3. QED
  BY <1>2, CountTyped DEF TypeOK, LetIn

LEMMA AnsweredTyped ==
  ASSUME TypeOK, NEW a \in Attempt, Answered(a)
  PROVE  attempt' \in [Attempt -> Allowed \cup {None}] /\ quiet' \in 0..RefreshAge
BY CountTyped DEF TypeOK, Answered

LEMMA CopiesStep == ASSUME TypeOK, Copies, [Next]_vars PROVE (TypeOK /\ Copies)'
<1> USE DEF TypeOK, Copies, grants
<1>1. ASSUME NEW until \in 0..NoEnd, suspend(until) PROVE (TypeOK /\ Copies)'
  BY <1>1, SuspendedIsRow, CountTyped DEF suspend
<1>2. CASE unsuspend
  BY <1>2, ClearIsRow, CountTyped DEF unsuspend
<1>3. ASSUME NEW a \in Attempt, NEW gives \in {"session", "tokens"}, LetIn(a, gives)
      PROVE (TypeOK /\ Copies)'
  BY <1>3, LetInTyped DEF LetIn
<1>4. CASE SignOut
  <2>1. session' \in BOOLEAN
    BY <1>4, Zenon DEF SignOut
  <2>2. QED
    BY <1>4, <2>1 DEF SignOut
<1>5. ASSUME NEW a \in Attempt, SaveSession(a) PROVE (TypeOK /\ Copies)'
  <2>1. session' \in BOOLEAN
    BY <1>5, Zenon DEF SaveSession
  <2>2. QED
    BY <1>5, <2>1, AnsweredTyped DEF SaveSession, Answered
<1>6. ASSUME NEW a \in Attempt, GrantTokens(a) PROVE (TypeOK /\ Copies)'
  <2>1. session' \in BOOLEAN
    BY <1>6, Zenon DEF GrantTokens
  <2>2. access' \in SUBSET (1..AccessAge) /\ refresh' \in SUBSET (1..RefreshAge)
    BY <1>6, AgesAssumption DEF GrantTokens
  <2>3. QED
    BY <1>6, <2>1, <2>2, AnsweredTyped DEF GrantTokens, Answered
<1>7. ASSUME NEW a \in Attempt, GiveUp(a) PROVE (TypeOK /\ Copies)'
  BY <1>7, AnsweredTyped DEF GiveUp, Answered
<1>8. ASSUME NEW r \in Request, Load(r) PROVE (TypeOK /\ Copies)'
  BY <1>8 DEF Load
<1>9. ASSUME NEW r \in Request, Respond(r) PROVE (TypeOK /\ Copies)'
  BY <1>9, NoneAssumption, CountTyped DEF Respond, ColumnsAgree
<1>10. ASSUME NEW p \in Page, Open(p) PROVE (TypeOK /\ Copies)'
  BY <1>10 DEF Open
<1>11. ASSUME NEW p \in Page, Submit(p) PROVE (TypeOK /\ Copies)'
  BY <1>11, TypedIsRow, NoneAssumption, CountTyped DEF Submit, ColumnsAgree
<1>12. CASE Tick
  <2>1. access' \in SUBSET (1..AccessAge) /\ refresh' \in SUBSET (1..RefreshAge)
    BY <1>12, AgedTokens, AgesAssumption DEF Tick
  <2>2. row' \in Row /\ ColumnsAgree(row')
    BY <1>12, LaterIsRow DEF Tick
  <2>3. /\ request' \in [Request -> Row \cup {None}]
        /\ \A r \in Request : ColumnsAgree(request'[r])
    BY <1>12, LaterIsRow DEF Tick
  <2>4. /\ page' \in [Page -> Row \cup {None}]
        /\ \A p \in Page : ColumnsAgree(page'[p])
    BY <1>12, LaterIsRow DEF Tick
  <2>5. quiet' \in 0..RefreshAge
    BY <1>12, AgesAssumption DEF Tick
  <2>6. QED
    BY <1>12, <2>1, <2>2, <2>3, <2>4, <2>5 DEF Tick
<1>13. CASE UNCHANGED vars
  BY <1>13 DEF vars
<1>14. QED
  BY <1>1, <1>2, <1>3, <1>4, <1>5, <1>6, <1>7, <1>8, <1>9, <1>10, <1>11, <1>12, <1>13
  DEF Next, SignIn, ObtainTokens, RefreshTokens

---------------------------------------------------------------------------
(* Running down *)

(* Whoever is let in is active: every backend and the rule look at is_active. *)
LEMMA LetInActive ==
  ASSUME NEW a \in Attempt, NEW by \in Identifier,
         SignIn(a, by) \/ ObtainTokens(a, by) \/ RefreshTokens(a)
  PROVE  row.is_active /\ \E gives \in {"session", "tokens"} : LetIn(a, gives)
BY DEF SignIn, ObtainTokens, RefreshTokens, authenticate, EmailOrPhoneBackend,
       ModelBackend, user_can_authenticate, AuthenticationRule

(* A step that gives no token and counts keeps what is proved of the tokens. *)
LEMMA CountStep ==
  ASSUME TypeOK, Quiet, Count, UNCHANGED <<access, refresh>>
  PROVE  Counts' /\ TokensRunDown'
<1>1. quiet' = quiet \/ quiet' = 0
  BY DEF Count
<1>2. Counts'
  BY DEF Count, Counts
<1>3. TokensRunDown'
  BY <1>1, AgesAssumption DEF TypeOK, Quiet, TokensRunDown
<1>4. QED
  BY <1>2, <1>3

LEMMA AttemptsLeft ==
  ASSUME WereActive, UNCHANGED attempt \/ \E a \in Attempt : Answered(a), TypeOK
  PROVE  WereActive'
BY DEF WereActive, Answered, TypeOK

LEMMA QuietStep == ASSUME TypeOK, Quiet, [Next]_vars PROVE Quiet'
<1>1. ASSUME Count, UNCHANGED <<attempt, access, refresh>> PROVE Quiet'
  BY <1>1, CountStep, AttemptsLeft DEF Quiet
<1>2. ASSUME NEW a \in Attempt, NEW gives, LetIn(a, gives), row.is_active PROVE Quiet'
  <2>1. WereActive'
    BY <1>2 DEF LetIn, Quiet, WereActive, TypeOK
  <2>2. QED
    BY <1>2, <2>1, CountStep DEF LetIn, Quiet, grants
<1>3. ASSUME NEW a \in Attempt, SaveSession(a) \/ GiveUp(a) PROVE Quiet'
  BY <1>3, CountStep, AttemptsLeft DEF SaveSession, GiveUp, Answered, Quiet, grants
<1>4. ASSUME NEW a \in Attempt, GrantTokens(a) PROVE Quiet'
  <2>1. quiet = 0
    BY <1>4 DEF GrantTokens, Quiet, WereActive, Counts, Settled
  <2>2. quiet' = 0
    BY <1>4, <2>1 DEF GrantTokens, Answered, Count
  <2>3. TokensRunDown'
    BY <1>4, <2>2, AgesAssumption DEF TokensRunDown, GrantTokens, TypeOK
  <2>4. WereActive'
    BY <1>4, AttemptsLeft DEF GrantTokens, Quiet
  <2>5. QED
    BY <2>2, <2>3, <2>4 DEF Quiet, Counts
<1>5. CASE Tick
  <2>1. WereActive'
    BY <1>5 DEF Tick, Quiet, WereActive
  <2>2. row.is_active' = row.is_active
    <3>1. CASE row = None \/ row.suspended_until \in {0, NoEnd}
      BY <1>5, <3>1 DEF Tick, Later
    <3>2. CASE row # None /\ row.suspended_until \notin {0, NoEnd}
      <4>1. row' = [row EXCEPT !.suspended_until = row.suspended_until - 1]
        BY <1>5, <3>2 DEF Tick, Later
      <4>2. QED
        BY <4>1 DEF TypeOK, Row
    <3>3. QED
      BY <3>1, <3>2
  <2>3. Counts'
    <3>1. Settled' = Settled
      BY <1>5, <2>2 DEF Tick, Settled
    <3>2. QED
      BY <1>5, <3>1 DEF Tick, Quiet, Counts
  <2>4. quiet' \in {quiet, quiet + 1}
    BY <1>5 DEF Tick
  <2>5. TokensRunDown'
    BY <1>5, <2>4, AgesAssumption DEF Tick, Aged, TypeOK, Quiet, TokensRunDown
  <2>6. QED
    BY <2>1, <2>3, <2>5 DEF Quiet
<1>6. CASE UNCHANGED <<row, attempt, access, refresh, quiet>>
  BY <1>6 DEF Quiet, WereActive, Counts, Settled, TokensRunDown
<1>7. ASSUME NEW a \in Attempt, NEW by \in Identifier,
             SignIn(a, by) \/ ObtainTokens(a, by) \/ RefreshTokens(a)
      PROVE  Quiet'
  BY <1>2, <1>7, LetInActive
<1>8. ASSUME NEW a \in Attempt, RefreshTokens(a) PROVE Quiet'
  <2>1. "email" \in Identifier
    BY DEF Identifier
  <2>2. QED
    BY <1>7, <1>8, <2>1
<1>9. QED
  BY <1>1, <1>3, <1>4, <1>5, <1>6, <1>7, <1>8
  DEF Next, vars, grants, suspend, unsuspend, SignOut, Load, Respond, Open, Submit

---------------------------------------------------------------------------
(* Theorems *)

(* The invariant above holds in every reachable state.                       *)
THEOREM Invariance == Spec => []IInv
<1>1. Init => IInv
  <2> SUFFICES ASSUME Init PROVE IInv
    OBVIOUS
  <2>1. Quiet
    BY DEF Init, Quiet, WereActive, Counts, TokensRunDown
  <2>2. QED
    BY <2>1, InitCopies DEF IInv
<1>2. IInv /\ [Next]_vars => IInv'
  BY CopiesStep, QuietStep DEF IInv
<1>3. QED
  BY <1>1, <1>2, PTL DEF Spec

(* Every reachable state is well typed.                                      *)
THEOREM TypeCorrect == Spec => []TypeOK
BY Invariance, PTL DEF IInv

(* Without an admin's typing both backends answer is_active, for every       *)
(* identifier, during a suspension and after its end (backends.py:44-51,      *)
(* models.py:163-187).                                                        *)
THEOREM OneAnswer == Spec => []BackendsAgree
<1>1. ASSUME IInv PROVE BackendsAgree
  <2> SUFFICES ASSUME ~row.byHand, NEW by \in Identifier
               PROVE  authenticate(row, by) <=> row.is_active
    BY DEF BackendsAgree
  <2>1. row # None /\ ColumnsAgree(row)
    BY <1>1, NoneAssumption DEF IInv, TypeOK, Copies
  <2>2. QED
    BY <2>1 DEF ColumnsAgree, authenticate, EmailOrPhoneBackend, ModelBackend,
                is_suspended, user_can_authenticate
<1>2. QED
  BY Invariance, <1>1, PTL

(* The longer an account has been inactive, the less is left of its tokens,  *)
(* whoever refreshes or signs in, and however long ago the account was       *)
(* looked at: for any attempts, POSTs and pages in flight and any lifetimes  *)
(* (base.py:83-86 and 271-276, backends.py:49, api_urls.py:18-19). That the   *)
(* time passes, and with it TokensDieOut, is fairness.                       *)
THEOREM InactiveRunDown == Spec => []TokensRunDown
BY Invariance, PTL DEF IInv, Quiet
=============================================================================
