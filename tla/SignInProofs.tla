---------------------------- MODULE SignInProofs ----------------------------
(* Proofs about LoginSessions that need to know who may sign in over whose   *)
(* session: one history row per session, with any number of requests in      *)
(* flight, and what a password change leaves behind when browsers send one   *)
(* request at a time.                                                        *)
EXTENDS LoginSessionsProofs

---------------------------------------------------------------------------
(* Who signs in over what *)

(* A session, in the table or in a request's hands, names an account whose   *)
(* row exists.                                                               *)
KnownAccounts ==
  /\ \A k \in Key : sessions[k].data.user \in joined \cup {NoUser}
  /\ \A r \in Request :
       req[r] # Idle => req[r].data.user \in joined \cup {NoUser}

(* What the views checked before a sign-in: the account exists, the admin    *)
(* form was sent by staff, and whoever else signs in over a session of their *)
(* own was inactive at views.py:53, so active at views.py:63 only because    *)
(* somebody let the account back in.                                         *)
SignInChecked ==
  \A r \in Request :
    /\ req[r].phase \in {"loaded", "checked"} =>
         /\ req[r].op = "admin_login" => req[r].user \in Staff
         /\ req[r].op = "signup" => req[r].data.user # req[r].user
    /\ req[r].phase = "loaded" =>
         /\ req[r].op \in {"login", "admin_login", "signup", "profile", "password",
                           "logout", "visit"}
         /\ req[r].op = "login" /\ req[r].data.user = req[r].user
              => ~users[req[r].user].is_active \/ req[r].user \in reinstated
    /\ req[r].phase = "checked" =>
         /\ req[r].user \in joined
         /\ req[r].op = "login" /\ req[r].data.user = req[r].user
              => req[r].user \in reinstated

RowInv == IInv /\ KnownAccounts /\ SignInChecked /\ OneRowPerSession

(* What Load finds out about the account it signs in or serves.              *)
LEMMA LoadChecks ==
  ASSUME RowInv, NEW r \in Request, NEW b \in Browser, NEW op \in Ops,
         NEW u \in User \cup {NoUser}, Load(r, b, op, u)
  PROVE  /\ req'[r].phase = "loaded" /\ req'[r].op = op /\ req'[r].user = u
         /\ op = "admin_login" => u \in Staff
         /\ op = "signup" => req'[r].data.user # u
         /\ op = "login" /\ req'[r].data.user = u => ~users[u].is_active
         /\ op \in {"login", "admin_login", "signup", "profile", "password",
                    "logout", "visit"}
         /\ req'[r].data.user \in joined \cup {NoUser}
<1> DEFINE d == LoadedData(b)
<1> USE ConstantsAssumption DEF RowInv, IInv
<1>1. /\ req'[r].phase = "loaded" /\ req'[r].op = op /\ req'[r].user = u
      /\ \/ req'[r].data = Anonymous
         \/ req'[r].data = d /\ (op = "signup" \/ ~Stale(d))
  BY DEF Load, TypeOK
<1>2. d.user \in joined \cup {NoUser}
  BY DEF LoadedData, LoadedKey, KnownAccounts, Anonymous
<1>3. Anonymous.user = NoUser
  BY DEF Anonymous
<1>4. op = "login" => ~Verifies(d) /\ u \in User
  <2>1. op = "login" => Me(d) = NoUser /\ u \in User
    BY DEF Load, MayStart, MayLogin
  <2>2. Me(d) = NoUser => ~Verifies(d)
    BY DEF Me, Verifies, SessionUserActive
  <2> QED BY <2>1, <2>2
<1>5. op = "signup" => u \in User \ joined
  BY DEF Load, MayStart
<1>6. op = "admin_login" => u \in Staff
  BY DEF Load, MayStart
<1>7. op \in {"login", "admin_login", "signup", "profile", "password", "logout",
              "visit"}
  BY DEF Load, MayStart
<1>8. op = "login" /\ d.user = u /\ ~Stale(d) => ~users[u].is_active
  BY <1>4 DEF Verifies, Stale, SessionUserActive
<1>9. op = "login" /\ req'[r].data.user = u => ~users[u].is_active
  BY <1>1, <1>3, <1>4, <1>8
<1>10. op = "signup" => req'[r].data.user # u
  <2>1. joined \subseteq User
    BY DEF TypeOK
  <2> QED BY <1>1, <1>2, <1>3, <1>5, <2>1
<1> HIDE DEF d
<1> QED BY <1>1, <1>2, <1>3, <1>6, <1>7, <1>9, <1>10

(* What reinstated remembers: every account that becomes active again.       *)
LEMMA ReinstatedStep ==
  ASSUME [Next]_vars
  PROVE  /\ reinstated \subseteq reinstated'
         /\ \A u \in User : ~users[u].is_active /\ users'[u].is_active
                             => u \in reinstated'
<1>1. (users' = users /\ reinstated' = reinstated) \/ Reinstates
  BY DEF Next, Load, Authenticate, LoginView, AcceptInvitation, SelectRow,
     LogoutView, VisitPage, ProfileUpdate, PasswordChange, Respond, Crash, Suspend,
     Unsuspend, SetActive, Expire, OpenAdminForm, CloseBrowser, vars
<1> QED BY <1>1 DEF Reinstates

(* The step relation by what it does to the accounts behind the sessions.    *)
LEMMA AccountCases ==
  ASSUME RowInv, [Next]_vars
  PROVE  /\ joined \subseteq joined'
         /\ \/ \E r \in Request, b \in Browser, op \in Ops,
                  u \in User \cup {NoUser} : Load(r, b, op, u)
            \/ \E r \in Request :
                 \/ /\ req[r].phase \in {"loaded", "checked"} /\ SignIn(r)
                    /\ \/ /\ req[r].op \in {"login", "admin_login"}
                          /\ req[r].phase = "checked"
                       \/ req[r].op = "signup" /\ req[r].user \in joined'
                    /\ reinstated' = reinstated
                 \/ Advance(r) \/ LogoutView(r) \/ Flushes(r) \/ ProfileUpdate(r)
                 \/ PasswordChange(r) \/ Respond(r)
                 \/ /\ req' = [req EXCEPT ![r] = Idle]
                    /\ UNCHANGED <<sessions, history>>
            \/ /\ \/ sessions' = sessions
                  \/ \E k \in Key : sessions' = [sessions EXCEPT ![k].state = "expired"]
               /\ UNCHANGED <<history, req>>
<1>1. joined \subseteq joined'
  BY DEF Next, Load, Authenticate, LoginView, AcceptInvitation, SelectRow,
     LogoutView, VisitPage, ProfileUpdate, PasswordChange, Respond, Crash, Suspend,
     Unsuspend, SetActive, Expire, OpenAdminForm, CloseBrowser, vars
<1>2. ASSUME NEW r \in Request, AcceptInvitation(r)
      PROVE  \/ /\ req[r].phase = "loaded" /\ req[r].op = "signup" /\ SignIn(r)
                /\ req[r].user \in joined' /\ reinstated' = reinstated
             \/ req' = [req EXCEPT ![r] = Idle] /\ UNCHANGED <<sessions, history>>
  BY <1>2 DEF AcceptInvitation
<1>3. ASSUME NEW r \in Request, LoginView(r)
      PROVE  /\ req[r].phase = "checked" /\ req[r].op \in {"login", "admin_login"}
             /\ SignIn(r) /\ reinstated' = reinstated
  BY <1>3 DEF LoginView, RowInv, IInv, LoadedOK
<1>4. ASSUME NEW r \in Request, Authenticate(r) \/ SelectRow(r) \/ VisitPage(r)
      PROVE  \/ Advance(r) \/ Flushes(r)
             \/ req' = [req EXCEPT ![r] = Idle] /\ UNCHANGED <<sessions, history>>
  BY <1>4, MiddleCases DEF RowInv, IInv
<1>5. ASSUME NEW r \in Request, Crash(r)
      PROVE  req' = [req EXCEPT ![r] = Idle] /\ UNCHANGED <<sessions, history>>
  BY <1>5 DEF Crash
<1>6. ASSUME \/ \E u \in User : Suspend(u) \/ Unsuspend(u)
             \/ \E k \in Key : Expire(k)
             \/ \E b \in Browser : OpenAdminForm(b) \/ CloseBrowser(b)
             \/ UNCHANGED vars
      PROVE  /\ \/ sessions' = sessions
                \/ \E k \in Key : sessions' = [sessions EXCEPT ![k].state = "expired"]
             /\ UNCHANGED <<history, req>>
  BY <1>6 DEF Suspend, Unsuspend, SetActive, Expire, OpenAdminForm, CloseBrowser,
     vars
<1> QED BY <1>1, <1>2, <1>3, <1>4, <1>5, <1>6 DEF Next

(* A session row takes its account from itself or from a request.            *)
LEMMA SessionUserStep ==
  ASSUME RowInv, [Next]_vars, NEW k \in Key
  PROVE  \/ sessions'[k].data.user = NoUser
         \/ sessions'[k].data.user = sessions[k].data.user
         \/ \E r \in Request : /\ req[r] # Idle
                               /\ sessions'[k].data.user = req[r].data.user
<1> USE DEF RowInv, IInv
<1>1. ASSUME NEW S, \/ sessions' = WithoutKeys(S)
                    \/ \E r \in Request :
                         /\ req[r] # Idle
                         /\ sessions' = [WithoutKeys(S) EXCEPT
                                           ![nextKey] = Live(req[r].data)]
      PROVE  \/ sessions'[k].data.user = NoUser
             \/ sessions'[k].data.user = sessions[k].data.user
             \/ \E r \in Request : /\ req[r] # Idle
                                   /\ sessions'[k].data.user = req[r].data.user
  <2>1. \/ sessions'[k] = Absent \/ sessions'[k] = sessions[k]
        \/ \E r \in Request : req[r] # Idle /\ sessions'[k] = Live(req[r].data)
    BY <1>1 DEF WithoutKeys
  <2>2. Absent.data.user = NoUser /\ \A d : Live(d).data = d
    BY DEF Absent, Anonymous, Live
  <2> QED BY <2>1, <2>2
<1>2. ASSUME NEW r \in Request, SignIn(r), req[r].phase \in {"loaded", "checked"}
      PROVE  \E S : \/ sessions' = WithoutKeys(S)
                    \/ /\ req[r] # Idle
                       /\ sessions' = [WithoutKeys(S) EXCEPT
                                         ![nextKey] = Live(req[r].data)]
  BY <1>2, SignInCases, PhaseBusy
<1>3. ASSUME NEW r \in Request, LogoutView(r) \/ Flushes(r)
      PROVE  \E S : sessions' = WithoutKeys(S)
  BY <1>3 DEF LogoutView, Flushes
<1>4. ASSUME NEW r \in Request, PasswordChange(r)
      PROVE  \E S : /\ req[r] # Idle
                    /\ sessions' = [WithoutKeys(S) EXCEPT
                                      ![nextKey] = Live(req[r].data)]
  BY <1>4, PhaseBusy DEF PasswordChange
<1>5. ASSUME NEW r \in Request, Respond(r)
      PROVE  \/ sessions'[k] = sessions[k]
             \/ req[r] # Idle /\ sessions'[k] = Live(req[r].data)
  BY <1>5, PhaseBusy, RespondCases DEF Respond, TypeOK
<1>6. ASSUME NEW r \in Request, NEW b \in Browser, NEW op \in Ops,
             NEW u \in User \cup {NoUser}, Load(r, b, op, u) \/ ProfileUpdate(r)
      PROVE  sessions' = sessions
  BY <1>6 DEF Load, ProfileUpdate
<1>7. ASSUME NEW j \in Key, sessions' = [sessions EXCEPT ![j].state = "expired"]
      PROVE  sessions'[k].data = sessions[k].data
  BY <1>7 DEF TypeOK, Session
<1>8. ASSUME NEW r \in Request, ProfileUpdate(r) \/ Advance(r)
      PROVE  sessions' = sessions
  BY <1>8 DEF ProfileUpdate, Advance
<1>9. \A r \in Request : Live(req[r].data).data = req[r].data
  BY DEF Live
<1> QED
  BY <1>1, <1>2, <1>3, <1>4, <1>5, <1>6, <1>7, <1>8, <1>9, AccountCases

LEMMA KnownStep ==
  ASSUME RowInv, [Next]_vars
  PROVE  KnownAccounts'
<1> USE DEF RowInv, IInv
<1>0. joined \subseteq joined'
  BY AccountCases
<1>1. \A k \in Key : sessions'[k].data.user \in joined' \cup {NoUser}
  BY <1>0, SessionUserStep DEF KnownAccounts
<1>2. ASSUME NEW r \in Request, req[r] # Idle, NEW k, NEW d, Commit(r, k, d),
             d.user \in joined' \cup {NoUser}, NEW q \in Request, req'[q] # Idle
      PROVE  req'[q].data.user \in joined' \cup {NoUser}
  BY <1>0, <1>2, CommitFacts DEF KnownAccounts
<1>3. ASSUME NEW q \in Request, req'[q] # Idle
      PROVE  req'[q].data.user \in joined' \cup {NoUser}
  <2>1. ASSUME NEW r \in Request, NEW b \in Browser, NEW op \in Ops,
               NEW u \in User \cup {NoUser}, Load(r, b, op, u)
        PROVE  req'[q].data.user \in joined' \cup {NoUser}
    BY <1>0, <1>3, <2>1, LoadChecks, LoadFacts DEF KnownAccounts
  <2>2. ASSUME NEW r \in Request, req[r].phase \in {"loaded", "checked"}, SignIn(r),
               \/ req[r].op \in {"login", "admin_login"} /\ req[r].phase = "checked"
               \/ req[r].op = "signup" /\ req[r].user \in joined'
        PROVE  req'[q].data.user \in joined' \cup {NoUser}
    <3>1. req[r] # Idle /\ req[r].user \in joined'
      BY <1>0, <2>2, PhaseBusy DEF SignInChecked
    <3>2. LoginData(req[r]).user \in joined'
      BY <3>1 DEF LoginData
    <3> QED BY <1>2, <1>3, <2>2, <3>1, <3>2, SignInCases
  <2>3. ASSUME NEW r \in Request, LogoutView(r) \/ Flushes(r)
        PROVE  req'[q].data.user \in joined' \cup {NoUser}
    <3>1. req[r] # Idle /\ Commit(r, NoKey, Anonymous)
      BY <2>3, PhaseBusy DEF LogoutView, Flushes
    <3> QED BY <1>2, <1>3, <3>1 DEF Anonymous
  <2>4. ASSUME NEW r \in Request, ProfileUpdate(r)
        PROVE  req'[q].data.user \in joined' \cup {NoUser}
    <3>1. req[r] # Idle /\ Commit(r, req[r].key, req[r].data)
      BY <2>4, PhaseBusy DEF ProfileUpdate
    <3> QED BY <1>0, <1>2, <1>3, <3>1 DEF KnownAccounts
  <2>5. ASSUME NEW r \in Request, PasswordChange(r)
        PROVE  req'[q].data.user \in joined' \cup {NoUser}
    <3>1. /\ req[r] # Idle /\ req[r] \in Active
          /\ Commit(r, nextKey, SessionDataAfterChange(req[r]))
      BY <2>5, PhaseBusy DEF PasswordChange
    <3>2. SessionDataAfterChange(req[r]).user = req[r].data.user
      BY <3>1 DEF Active, Data, SessionDataAfterChange
    <3>3. SessionDataAfterChange(req[r]).user \in joined' \cup {NoUser}
      BY <1>0, <3>1, <3>2 DEF KnownAccounts
    <3> QED BY <1>2, <1>3, <3>1, <3>3
  <2>6. ASSUME NEW r \in Request, Respond(r) \/ req' = [req EXCEPT ![r] = Idle]
        PROVE  req'[q].data.user \in joined' \cup {NoUser}
    <3>1. req'[q] = req[q]
      BY <1>3, <2>6 DEF Respond, TypeOK
    <3> QED BY <1>0, <1>3, <3>1 DEF KnownAccounts
  <2>7. CASE req' = req
    BY <1>0, <1>3, <2>7 DEF KnownAccounts
  <2>8. ASSUME NEW r \in Request, Advance(r)
        PROVE  req'[q].data.user \in joined' \cup {NoUser}
    <3>1. req[q] # Idle /\ req'[q].data = req[q].data
      BY <1>3, <2>8, AdvanceFacts
    <3> QED BY <1>0, <3>1 DEF KnownAccounts
  <2> QED
    BY <2>1, <2>2, <2>3, <2>4, <2>5, <2>6, <2>7, <2>8, AccountCases
<1> QED BY <1>1, <1>3 DEF KnownAccounts

LEMMA CheckedStep ==
  ASSUME RowInv, [Next]_vars
  PROVE  SignInChecked'
<1> USE DEF RowInv, IInv
<1>0. /\ joined \subseteq joined' /\ reinstated \subseteq reinstated'
      /\ \A u \in User : ~users[u].is_active /\ users'[u].is_active => u \in reinstated'
  BY AccountCases, ReinstatedStep
<1> DEFINE Checked(q) ==
      /\ q.phase \in {"loaded", "checked"} =>
           /\ q.op = "admin_login" => q.user \in Staff
           /\ q.op = "signup" => q.data.user # q.user
      /\ q.phase = "loaded" =>
           /\ q.op \in {"login", "admin_login", "signup", "profile", "password",
                        "logout", "visit"}
           /\ q.op = "login" /\ q.data.user = q.user
                => ~users'[q.user].is_active \/ q.user \in reinstated'
      /\ q.phase = "checked" =>
           /\ q.user \in joined'
           /\ q.op = "login" /\ q.data.user = q.user => q.user \in reinstated'
<1>1. ASSUME NEW q \in Request, req'[q] = req[q] PROVE Checked(req'[q])
  <2>1. req[q].phase = "loaded" /\ req[q].op = "login" => req[q].user \in User
    BY DEF LoadedOK
  <2>2. req[q].phase = "loaded" /\ req[q].op = "login" /\ req[q].data.user = req[q].user
          => ~users'[req[q].user].is_active \/ req[q].user \in reinstated'
    BY <1>0, <2>1 DEF SignInChecked
  <2>3. /\ req[q].phase \in {"loaded", "checked"} =>
             /\ req[q].op = "admin_login" => req[q].user \in Staff
             /\ req[q].op = "signup" => req[q].data.user # req[q].user
        /\ req[q].phase = "loaded" =>
             req[q].op \in {"login", "admin_login", "signup", "profile", "password",
                           "logout", "visit"}
    BY DEF SignInChecked
  <2>4. req[q].phase = "checked" =>
          /\ req[q].user \in joined'
          /\ req[q].op = "login" /\ req[q].data.user = req[q].user
               => req[q].user \in reinstated'
    BY <1>0 DEF SignInChecked
  <2> QED BY <1>1, <2>2, <2>3, <2>4
<1>2. ASSUME NEW q \in Request, req'[q].phase \notin {"loaded", "checked"}
      PROVE  Checked(req'[q])
  BY <1>2
<1>3. ASSUME NEW r \in Request, NEW b \in Browser, NEW op \in Ops,
             NEW u \in User \cup {NoUser}, Load(r, b, op, u)
      PROVE  Checked(req'[r])
  <2>1. users' = users
    BY <1>3 DEF Load
  <2> QED BY <1>3, <2>1, LoadChecks
<1>4. ASSUME NEW r \in Request, Advance(r) PROVE Checked(req'[r])
  <2>1. CASE req'[r].phase = "checked"
    <3>1. /\ req'[r].op = req[r].op /\ req'[r].user = req[r].user
          /\ req'[r].data = req[r].data /\ req[r].phase = "loaded"
          /\ req[r].user \in joined /\ users[req[r].user].is_active
          /\ req[r].op \in {"login", "admin_login"}
      BY <1>4, <2>1, AdvanceFacts DEF Advance
    <3>2. req[r].op = "login" /\ req[r].data.user = req[r].user
            => req[r].user \in reinstated
      BY <3>1 DEF SignInChecked
    <3>3. req[r].op = "admin_login" => req[r].user \in Staff
      BY <3>1 DEF SignInChecked
    <3> QED BY <1>0, <2>1, <3>1, <3>2, <3>3
  <2>2. CASE req'[r].phase = "selected"
    BY <1>2, <2>2
  <2> QED BY <1>4, <2>1, <2>2, AdvanceFacts
<1> HIDE DEF Checked
<1>5. ASSUME NEW r \in Request, Checked(req'[r]),
             \A q \in Request : q # r => req'[q] = req[q]
      PROVE  \A q \in Request : Checked(req'[q])
  BY <1>1, <1>5
<1>6. ASSUME NEW r \in Request, req[r] # Idle, NEW k, NEW d, Commit(r, k, d)
      PROVE  \A q \in Request : Checked(req'[q])
  <2>1. req'[r].phase = "committed" /\ \A q \in Request : q # r => req'[q] = req[q]
    BY <1>6, CommitFacts
  <2> QED BY <1>2, <1>5, <2>1
<1>7. ASSUME NEW r \in Request, req' = [req EXCEPT ![r] = Idle]
      PROVE  \A q \in Request : Checked(req'[q])
  <2>1. req'[r] = Idle /\ \A q \in Request : q # r => req'[q] = req[q]
    BY <1>7 DEF TypeOK
  <2>2. Idle.phase = "idle"
    BY DEF Idle
  <2> QED BY <1>2, <1>5, <2>1, <2>2
<1>8. ASSUME NEW r \in Request,
             \/ req[r].phase \in {"loaded", "checked"} /\ SignIn(r)
             \/ LogoutView(r) \/ Flushes(r) \/ ProfileUpdate(r) \/ PasswordChange(r)
      PROVE  req[r] # Idle /\ \E k, d : Commit(r, k, d)
  BY <1>8, PhaseBusy, SignInCases DEF LogoutView, Flushes, ProfileUpdate,
     PasswordChange
<1>9. ASSUME NEW r \in Request, Respond(r)
      PROVE  req' = [req EXCEPT ![r] = Idle]
  BY <1>9 DEF Respond
<1>10. ASSUME NEW r \in Request, NEW b \in Browser, NEW op \in Ops,
              NEW u \in User \cup {NoUser}, Load(r, b, op, u)
       PROVE  \A q \in Request : Checked(req'[q])
  BY <1>3, <1>5, <1>10, LoadFacts
<1>11. ASSUME NEW r \in Request, Advance(r)
       PROVE  \A q \in Request : Checked(req'[q])
  BY <1>4, <1>5, <1>11, AdvanceFacts
<1>12. ASSUME req' = req PROVE \A q \in Request : Checked(req'[q])
  BY <1>1, <1>12
<1>13. \A q \in Request : Checked(req'[q])
  BY <1>6, <1>7, <1>8, <1>9, <1>10, <1>11, <1>12, AccountCases
<1> QED BY <1>13, Zenon DEF SignInChecked, Checked

---------------------------------------------------------------------------
(* One history row per session *)

(* The row a sign-in appends: no earlier row has its key, unless a staff     *)
(* account or one that was let back in signs in over its own session.        *)
LEMMA NewRowKey ==
  ASSUME RowInv, NEW r \in Request, req[r].phase \in {"loaded", "checked"}, SignIn(r),
         \/ req[r].op \in {"login", "admin_login"} /\ req[r].phase = "checked"
         \/ req[r].op = "signup"
  PROVE  \E k \in KeyOrNone :
    /\ OpenRow(req[r].user, k) \in LoginRow
    /\ history' = Append(history, OpenRow(req[r].user, k))
    /\ \/ k = NoKey
       \/ \A i \in DOMAIN history : history[i].session_key # k
       \/ /\ req[r].user \in Staff \cup reinstated
          /\ k \in Key => Claims(k, req[r].user)
<1> USE DEF RowInv, IInv
<1>1. PICK k \in KeyOrNone :
        /\ req[r] \in Active /\ req[r].user \in User
        /\ OpenRow(req[r].user, k) \in LoginRow
        /\ history' = Append(history, OpenRow(req[r].user, k))
        /\ \/ req[r].data.user = req[r].user /\ k = req[r].key
           \/ k = NoKey
           \/ k = nextKey /\ nextKey \in Key
  BY SignInRow
<1>2. CASE req[r].data.user = req[r].user /\ k = req[r].key
  <2>1. req[r].user \in Staff \cup reinstated
    BY <1>2 DEF SignInChecked
  <2>2. Claims(k, req[r].user)
    BY <1>2, PhaseBusy DEF Claims
  <2> QED BY <1>1, <2>1, <2>2
<1>3. CASE k = nextKey
  <2>1. nextKey \in Nat /\ \A i \in DOMAIN history : history[i].session_key < nextKey
    BY ConstantsAssumption DEF KeysIssued, TypeOK
  <2>2. \A i \in DOMAIN history : history[i].session_key # k
    BY <1>3, <2>1
  <2> QED BY <1>1, <2>2
<1> QED BY <1>1, <1>2, <1>3

(* Rows of one session belong to one account.                                *)
LEMMA RowsOfOneOwner ==
  ASSUME IInv, NEW i \in DOMAIN history, NEW u \in User, NEW k \in Key,
         history[i].session_key = k, Claims(k, u)
  PROVE  history[i].user = u
<1>1. history[i] \in LoginRow
  BY DEF IInv, TypeOK
<1>2. history[i].user \in User /\ Claims(k, history[i].user)
  BY <1>1 DEF Claims, LoginRow
<1> QED BY <1>2 DEF IInv, OneOwner

LEMMA RowsStep ==
  ASSUME RowInv, [Next]_vars
  PROVE  OneRowPerSession'
<1> USE DEF RowInv, IInv
<1>1. ASSUME DOMAIN history' = DOMAIN history,
             \A i \in DOMAIN history : /\ history'[i].user = history[i].user
                                       /\ history'[i].session_key = history[i].session_key
      PROVE  OneRowPerSession'
  BY <1>1, ReinstatedStep DEF OneRowPerSession
<1>2. ASSUME NEW r \in Request, req[r].phase \in {"loaded", "checked"}, SignIn(r),
             \/ req[r].op \in {"login", "admin_login"} /\ req[r].phase = "checked"
             \/ req[r].op = "signup",
             reinstated' = reinstated
      PROVE  OneRowPerSession'
  <2>1. PICK k \in KeyOrNone :
          /\ OpenRow(req[r].user, k) \in LoginRow
          /\ history' = Append(history, OpenRow(req[r].user, k))
          /\ \/ k = NoKey
             \/ \A i \in DOMAIN history : history[i].session_key # k
             \/ /\ req[r].user \in Staff \cup reinstated
                /\ k \in Key => Claims(k, req[r].user)
    BY <1>2, NewRowKey
  <2> DEFINE n == Len(history) + 1
  <2>2. /\ DOMAIN history' = 1..n /\ DOMAIN history = 1..Len(history)
        /\ history'[n] = OpenRow(req[r].user, k)
        /\ \A i \in DOMAIN history : history'[i] = history[i]
        /\ Len(history) \in Nat
    BY <2>1, AppendProperties DEF TypeOK
  <2>3. \A i \in DOMAIN history' : i \in DOMAIN history \/ i = n
    BY <2>2
  <2>4. OpenRow(req[r].user, k).user = req[r].user
        /\ OpenRow(req[r].user, k).session_key = k /\ req[r].user \in User
    BY <2>1 DEF OpenRow, LoginRow
  <2>5. ASSUME NEW i \in DOMAIN history, history[i].session_key = k, k # NoKey
        PROVE  /\ history[i].user \in Staff \cup reinstated
               /\ req[r].user \in Staff \cup reinstated
    <3>1. k \in Key
      BY <2>5, ConstantsAssumption DEF KeyOrNone, Key, NoKey
    <3>2. req[r].user \in Staff \cup reinstated /\ Claims(k, req[r].user)
      BY <2>1, <2>5, <3>1
    <3> QED BY <2>4, <2>5, <3>1, <3>2, RowsOfOneOwner
  <2> SUFFICES ASSUME NEW i \in DOMAIN history', NEW j \in DOMAIN history', i # j,
                      history'[i].session_key # NoKey,
                      history'[i].user \notin Staff \cup reinstated
               PROVE  history'[i].session_key # history'[j].session_key
    BY <1>2 DEF OneRowPerSession
  <2> HIDE DEF n
  <2>6. CASE i \in DOMAIN history /\ j \in DOMAIN history
    BY <2>2, <2>6 DEF OneRowPerSession
  <2>7. CASE i \in DOMAIN history /\ j = n
    BY <2>2, <2>4, <2>5, <2>7
  <2>8. CASE i = n /\ j \in DOMAIN history
    BY <2>2, <2>4, <2>5, <2>8
  <2> QED BY <2>3, <2>6, <2>7, <2>8
<1>3. ASSUME NEW r \in Request, LogoutView(r)
      PROVE  OneRowPerSession'
  BY <1>1, <1>3, LogoutFacts
<1>4. CASE history' = history
  BY <1>1, <1>4
<1>5. ASSUME NEW r \in Request, NEW b \in Browser, NEW op \in Ops,
             NEW u \in User \cup {NoUser}, Load(r, b, op, u)
      PROVE  history' = history
  BY <1>5 DEF Load
<1>6. ASSUME NEW r \in Request,
             \/ Advance(r) \/ Flushes(r) \/ ProfileUpdate(r) \/ PasswordChange(r)
             \/ Respond(r)
      PROVE  history' = history
  BY <1>6 DEF Advance, Flushes, ProfileUpdate, PasswordChange, Respond
<1> QED BY <1>2, <1>3, <1>4, <1>5, <1>6, AccountCases

LEMMA RowInvariance == Spec => []RowInv
<1>1. Init => KnownAccounts /\ SignInChecked /\ OneRowPerSession
  BY DEF Init, KnownAccounts, SignInChecked, OneRowPerSession, Idle, Absent, Anonymous
<1>2. RowInv /\ IInv' /\ [Next]_vars => RowInv'
  BY KnownStep, CheckedStep, RowsStep DEF RowInv
<1>3. Init => RowInv \/ ~IInv
  BY <1>1 DEF RowInv
<1> QED BY <1>2, <1>3, Invariance, PTL DEF Spec

(* models.py:197, "One row per session", with any number of requests in      *)
(* flight: two history rows never name one session, staff accounts and those *)
(* let back in after a suspension aside.                                     *)
THEOREM RowPerSession == Spec => []OneRowPerSession
BY RowInvariance, PTL DEF RowInv

---------------------------------------------------------------------------
(* Password changes, one request at a time                                   *)

(* A loaded request still holds the password in force, and a password change *)
(* on its way out holds the session that verifies against the new one, under *)
(* a key no browser has yet.                                                 *)
FreshRow ==
  \A r \in Request :
    req[r].phase = "loaded" /\ req[r].op \in {"profile", "password"}
      => req[r].row.password = users[req[r].user].password

ChangeInFlight ==
  \A r \in Request : req[r] # Idle /\ req[r].op = "password" =>
    /\ req[r].user \in User /\ req[r].data.user = req[r].user
    /\ req[r].phase = "committed" =>
         /\ req[r].key \in Key
         /\ req[r].data.hash = users[req[r].user].password
         /\ \A b \in Browser : cookie[b] # req[r].key

AloneInv == IInv /\ FreshRow /\ ChangeInFlight

(* What reaches a password: a change, or a profile form that was stale.      *)
LEMMA PasswordCases ==
  ASSUME IInv, FreshRow \/ "profile" \notin Ops, [Next]_vars
  PROVE  \/ \E r \in Request :
              /\ PasswordChange(r)
              /\ \A u \in User : u # req[r].user => users'[u] = users[u]
              /\ users'[req[r].user].password = nextHash
         \/ \A u \in User : users'[u].password = users[u].password
<1> USE DEF IInv
<1>1. ASSUME NEW r \in Request, PasswordChange(r)
      PROVE  /\ \A u \in User : u # req[r].user => users'[u] = users[u]
             /\ users'[req[r].user].password = nextHash
  <2>1. req[r] \in Active /\ req[r].user \in User
    BY <1>1, PhaseBusy DEF PasswordChange, LoadedOK
  <2>2. req[r].row \in UserRow
    BY <2>1 DEF Active
  <2>3. [req[r].row EXCEPT !.password = nextHash].password = nextHash
    BY <2>2 DEF UserRow
  <2> QED BY <1>1, <2>1, <2>3 DEF PasswordChange, TypeOK
<1>2. ASSUME NEW r \in Request, ProfileUpdate(r)
      PROVE  \A u \in User : users'[u].password = users[u].password
  <2>1. "profile" \in Ops
    BY <1>2, PhaseBusy DEF ProfileUpdate, Active
  <2>2. req[r].row.password = users[req[r].user].password
    BY <1>2, <2>1 DEF ProfileUpdate, FreshRow, LoadedOK
  <2> QED BY <1>2, <2>2 DEF ProfileUpdate, SavedRow, TypeOK
<1>3. ASSUME NEW u \in User, NEW a \in BOOLEAN, SetActive(u, a)
      PROVE  \A v \in User : users'[v].password = users[v].password
  BY <1>3 DEF SetActive, TypeOK, UserRow
<1>4. ASSUME users' = users
      PROVE  \A u \in User : users'[u].password = users[u].password
  BY <1>4
<1>5. \/ users' = users
      \/ \E r \in Request : PasswordChange(r) \/ ProfileUpdate(r)
      \/ \E u \in User, a \in BOOLEAN : SetActive(u, a)
  BY DEF Next, Load, Authenticate, LoginView, AcceptInvitation, SelectRow,
     LogoutView, VisitPage, Respond, Crash, Suspend, Unsuspend, Expire,
     OpenAdminForm, CloseBrowser, vars
<1> QED BY <1>1, <1>2, <1>3, <1>4, <1>5

(* What Load hands to a password change and to everybody else.               *)
LEMMA LoadFresh ==
  ASSUME AloneInv, NEW r \in Request, NEW b \in Browser, NEW op \in Ops,
         NEW u \in User \cup {NoUser}, Load(r, b, op, u)
  PROVE  /\ req'[r].phase = "loaded" /\ req'[r].op = op /\ req'[r].user = u
         /\ op \in {"profile", "password"} => req'[r].row = users[u]
         /\ op = "password" => u \in User /\ req'[r].data.user = u
<1> DEFINE d == LoadedData(b)
<1> USE ConstantsAssumption DEF AloneInv, IInv
<1>1. /\ req'[r].phase = "loaded" /\ req'[r].op = op /\ req'[r].user = u
      /\ op \in {"profile", "password"} => req'[r].row = users[u]
      /\ op = "password" /\ ~Stale(d) => req'[r].data = d
  BY DEF Load, TypeOK
<1>2. op = "password" => u # NoUser /\ u = Me(d)
  BY DEF Load, MayStart
<1>3. op = "password" => d.user = u /\ ~Stale(d)
  BY <1>2 DEF Me, Verifies, Stale
<1> HIDE DEF d
<1> QED BY <1>1, <1>2, <1>3

(* A request that is alone commits or answers: what is left is its own.      *)
LEMMA AloneStep ==
  ASSUME AloneInv, [Next]_vars, \A q, r \in Request : q = r
  PROVE  FreshRow' /\ ChangeInFlight'
<1> USE ConstantsAssumption DEF AloneInv, IInv
<1>1. ASSUME NEW r \in Request, NEW b \in Browser, NEW op \in Ops,
             NEW u \in User \cup {NoUser}, Load(r, b, op, u)
      PROVE  FreshRow' /\ ChangeInFlight'
  <2>1. users' = users
    BY <1>1 DEF Load
  <2> QED BY <1>1, <2>1, LoadFresh DEF FreshRow, ChangeInFlight
<1>2. ASSUME NEW r \in Request, PasswordChange(r)
      PROVE  FreshRow' /\ ChangeInFlight'
  <2>1. req[r] \in Active /\ req[r] # Idle /\ req[r].user \in User
        /\ req[r].data.user = req[r].user
    BY <1>2, PhaseBusy DEF PasswordChange, ChangeInFlight
  <2>2. /\ req'[r].phase = "committed" /\ req'[r].key = nextKey
        /\ req'[r].user = req[r].user
        /\ req'[r].data = SessionDataAfterChange(req[r])
    BY <1>2, <2>1, CommitFacts DEF PasswordChange
  <2>3. /\ SessionDataAfterChange(req[r]).user = req[r].user
        /\ SessionDataAfterChange(req[r]).hash = nextHash
    BY <2>1 DEF Active, Data, SessionDataAfterChange
  <2>4. users'[req[r].user].password = nextHash
    <3>1. [req[r].row EXCEPT !.password = nextHash].password = nextHash
      BY <2>1 DEF Active, UserRow
    <3> QED BY <1>2, <2>1, <3>1 DEF PasswordChange, TypeOK
  <2>5. nextKey \in Key /\ \A b \in Browser : cookie'[b] # nextKey
    BY <1>2 DEF PasswordChange, KeysIssued, TypeOK
  <2> QED BY <2>1, <2>2, <2>3, <2>4, <2>5 DEF FreshRow, ChangeInFlight
<1>3. ASSUME NEW r \in Request, req[r] # Idle, req[r].op # "password",
             NEW k, NEW d, Commit(r, k, d)
      PROVE  FreshRow' /\ ChangeInFlight'
  <2>1. req'[r].phase = "committed" /\ req'[r].op = req[r].op
    BY <1>3, CommitFacts
  <2> QED BY <1>3, <2>1 DEF FreshRow, ChangeInFlight
<1>4. ASSUME NEW r \in Request, req' = [req EXCEPT ![r] = Idle]
      PROVE  FreshRow' /\ ChangeInFlight'
  <2>1. req'[r] = Idle
    BY <1>4 DEF TypeOK
  <2>2. Idle.phase = "idle"
    BY DEF Idle
  <2> QED BY <2>1, <2>2 DEF FreshRow, ChangeInFlight
<1>5. ASSUME req' = req, \A u \in User : users'[u].password = users[u].password,
             \A b \in Browser : cookie'[b] \in {cookie[b], NoKey}
      PROVE  FreshRow' /\ ChangeInFlight'
  <2>1. NoKey \notin Key
    BY DEF NoKey, Key
  <2>2. FreshRow'
    BY <1>5 DEF FreshRow, LoadedOK
  <2>3. ChangeInFlight'
    BY <1>5, <2>1 DEF ChangeInFlight
  <2> QED BY <2>2, <2>3
<1>6. ASSUME NEW r \in Request,
             \/ LoginView(r) \/ AcceptInvitation(r) \/ LogoutView(r) \/ Flushes(r)
             \/ ProfileUpdate(r) \/ Respond(r) \/ Crash(r)
      PROVE  \/ req' = [req EXCEPT ![r] = Idle]
             \/ /\ req[r] # Idle /\ req[r].op # "password"
                /\ \E k, d : Commit(r, k, d)
  <2>1. LogoutView(r) => req[r].op # "password"
    BY DEF LogoutView, LoadedOK
  <2> QED BY <1>6, <2>1, PhaseBusy, SignInCases DEF LoginView, AcceptInvitation,
        LogoutView, Flushes, ProfileUpdate, Respond, Crash, LoadedOK
<1>8. ASSUME NEW r \in Request, Advance(r)
      PROVE  FreshRow' /\ ChangeInFlight'
  <2>1. /\ req'[r].phase # "loaded" /\ req'[r].op # "password"
        /\ \A q \in Request : q # r => req'[q] = req[q]
    BY <1>8, AdvanceFacts
  <2> QED BY <2>1, <1>8 DEF Advance, FreshRow, ChangeInFlight
<1>9. ASSUME NEW r \in Request, Authenticate(r) \/ SelectRow(r) \/ VisitPage(r)
      PROVE  FreshRow' /\ ChangeInFlight'
  BY <1>3, <1>4, <1>6, <1>8, <1>9, MiddleCases
<1>7. ASSUME \/ \E u \in User : Suspend(u) \/ Unsuspend(u)
             \/ \E k \in Key : Expire(k)
             \/ \E b \in Browser : OpenAdminForm(b) \/ CloseBrowser(b)
             \/ UNCHANGED vars
      PROVE  /\ req' = req
             /\ \A u \in User : users'[u].password = users[u].password
             /\ \A b \in Browser : cookie'[b] \in {cookie[b], NoKey}
  <2>1. req' = req /\ \A b \in Browser : cookie'[b] \in {cookie[b], NoKey}
    BY <1>7 DEF Suspend, Unsuspend, SetActive, Expire, OpenAdminForm, CloseBrowser,
       vars, TypeOK
  <2>2. ASSUME NEW r \in Request, PasswordChange(r) PROVE FALSE
    <3>1. req[r].phase = "loaded" /\ req[r] \in Active
      BY <2>2, PhaseBusy DEF PasswordChange
    <3>2. req'[r].phase = "committed"
      BY <2>2, <3>1, PhaseBusy, CommitFacts DEF PasswordChange
    <3> QED BY <2>1, <3>1, <3>2
  <2> QED BY <2>1, <2>2, PasswordCases DEF AloneInv
<1> QED BY <1>1, <1>2, <1>3, <1>4, <1>5, <1>6, <1>7, <1>9 DEF Next

(* While the browsers have at most one request in flight between them.       *)
LEMMA AloneInvariance ==
  ASSUME \A q, r \in Request : q = r
  PROVE  Spec => []AloneInv
<1>1. Init => FreshRow /\ ChangeInFlight
  BY DEF Init, FreshRow, ChangeInFlight, Idle
<1>2. AloneInv /\ IInv' /\ [Next]_vars => AloneInv'
  BY AloneStep DEF AloneInv
<1>3. Init => AloneInv \/ ~IInv
  BY <1>1 DEF AloneInv
<1> QED BY <1>2, <1>3, Invariance, PTL DEF Spec

(* A replaced password never comes back (views.py:39) unless two requests    *)
(* are in flight and one of them saves the profile form: with any number of  *)
(* password changes, sign-ins and sign-outs interleaved, whatever changes a  *)
(* password hash installs the one just chosen.                               *)
THEOREM ReplacedPasswordStaysReplaced ==
  ASSUME (\A q, r \in Request : q = r) \/ "profile" \notin Ops
  PROVE  Spec => PasswordChangeSticks
<1>1. IInv /\ (FreshRow \/ "profile" \notin Ops) /\ [Next]_vars =>
        [\A u \in User : users'[u].password # users[u].password
           => users'[u].password = nextHash]_vars
  BY PasswordCases
<1>2. CASE \A q, r \in Request : q = r
  <2>1. Spec => []AloneInv
    BY <1>2, AloneInvariance
  <2>2. AloneInv /\ [Next]_vars =>
          [\A u \in User : users'[u].password # users[u].password
             => users'[u].password = nextHash]_vars
    BY <1>1 DEF AloneInv
  <2> QED BY <2>1, <2>2, PTL DEF Spec, PasswordChangeSticks
<1>3. CASE "profile" \notin Ops
  <2>1. IInv /\ [Next]_vars =>
          [\A u \in User : users'[u].password # users[u].password
             => users'[u].password = nextHash]_vars
    BY <1>1, <1>3
  <2> QED BY <2>1, Invariance, PTL DEF Spec, PasswordChangeSticks
<1> QED BY <1>2, <1>3

(* The session that answers a password change verifies against the new       *)
(* password (views.py:40), one request at a time: whoever changed it stays   *)
(* signed in.                                                                *)
THEOREM ChangeKeepsSession ==
  ASSUME \A q, r \in Request : q = r
  PROVE  Spec => ChangerStaysSignedIn
<1> DEFINE Answered(r) ==
      LET q == req[r] IN
      /\ q # Idle /\ q.phase = "committed" /\ q.op = "password"
      /\ req'[r] = Idle
      /\ cookie'[q.browser] = q.key
      => sessions'[q.key].data.hash = users[q.user].password
<1>1. ASSUME AloneInv, [Next]_vars, NEW r \in Request,
             req[r] # Idle, req[r].phase = "committed", req[r].op = "password",
             req'[r] = Idle, cookie'[req[r].browser] = req[r].key
      PROVE  sessions'[req[r].key].data.hash = users[req[r].user].password
  <2>1. /\ req[r] \in Active /\ req[r].browser \in Browser
        /\ req[r].user \in User /\ req[r].data.user = req[r].user
        /\ req[r].key \in Key
        /\ req[r].data.hash = users[req[r].user].password
        /\ cookie[req[r].browser] # req[r].key
    BY <1>1, BusyRequest DEF AloneInv, IInv, ChangeInFlight, Active
  <2>2. cookie' # cookie /\ req' # req
    BY <1>1, <2>1
  <2>3. \E q \in Request : Respond(q)
    BY <1>1, <2>2 DEF Next, Load, Authenticate, LoginView, AcceptInvitation,
       SelectRow, LogoutView, VisitPage, ProfileUpdate, PasswordChange, Crash,
       Suspend, Unsuspend, SetActive, Expire, OpenAdminForm, CloseBrowser, vars
  <2>4. Respond(r)
    <3>1. PICK q \in Request : Respond(q)
      BY <2>3
    <3>2. q = r
      BY <1>1, <3>1 DEF Respond, AloneInv, IInv, TypeOK
    <3> QED BY <3>1, <3>2
  <2>5. req[r].data.user # NoUser /\ req[r].key # NoKey
    BY <2>1, ConstantsAssumption DEF Key, NoKey
  <2>6. sessions' = [sessions EXCEPT ![req[r].key] = Live(req[r].data)]
    BY <2>2, <2>4, <2>5 DEF Respond
  <2>7. sessions'[req[r].key].data = req[r].data
    BY <1>1, <2>1, <2>6 DEF AloneInv, IInv, TypeOK, Live
  <2> QED BY <2>1, <2>7
<1>2. AloneInv /\ [Next]_vars => \A r \in Request : Answered(r)
  BY <1>1
<1>3. AloneInv /\ [Next]_vars => [\A r \in Request : Answered(r)]_vars
  BY <1>2
<1> QED BY <1>3, AloneInvariance, PTL DEF Spec, ChangerStaysSignedIn
=============================================================================
