------------------------ MODULE LoginSessionsProofs ------------------------
(* Proofs about LoginSessions for any users, browsers, requests and bounds.  *)
EXTENDS LoginSessions, SequenceTheorems, TLAPS

---------------------------------------------------------------------------
(* The inductive invariant *)

(* What a view may rely on before it commits: it has an account where it     *)
(* needs one, and a signed-in logout has a session key.                      *)
LoadedOK ==
  \A r \in Request :
    /\ req[r].phase \in {"loaded", "checked"} /\ req[r].op \notin {"logout", "visit"}
         => req[r].user \in User
    /\ req[r].phase = "loaded" /\ req[r].op = "logout" /\ req[r].user # NoUser
         => req[r].key # NoKey
    /\ req[r].phase = "checked" => req[r].op \in {"login", "admin_login"}
    /\ req[r].phase = "selected" => req[r].op = "logout"

(* The history row a logout selected is one of the session it will end.      *)
SelectedOK ==
  \A r \in Request : req[r].phase = "selected" /\ req[r].entry # 0 =>
    /\ req[r].entry \in DOMAIN history
    /\ req[r].key \in Key
    /\ history[req[r].entry].session_key = req[r].key

(* Keys are handed out in order: none is in use before it is issued.         *)
KeysIssued ==
  /\ \A k \in Key : k >= nextKey => sessions[k] = Absent
  /\ \A b \in Browser : cookie[b] < nextKey
  /\ \A r \in Request : req[r] # Idle => req[r].key < nextKey
  /\ \A i \in DOMAIN history : history[i].session_key < nextKey

(* Everything that ties an account to a session key agrees on the account.   *)
Claims(k, u) ==
  \/ sessions[k].data.user = u
  \/ \E r \in Request : /\ req[r] # Idle
                        /\ req[r].key = k /\ req[r].data.user = u
  \/ \E i \in DOMAIN history : /\ history[i].session_key = k
                               /\ history[i].user = u
OneOwner ==
  \A k \in Key, u \in User, v \in User : Claims(k, u) /\ Claims(k, v) => u = v

IInv == /\ TypeOK /\ LoadedOK /\ SelectedOK
        /\ KeysIssued /\ OneOwner /\ ClosedRowHasNoSession

---------------------------------------------------------------------------
(* What the actions do *)

(* The three ways auth.login treats the session it finds. *)
LEMMA SignInCases ==
  ASSUME NEW r \in Request, SignIn(r)
  PROVE  \E k :
    /\ history' = Append(history, OpenRow(req[r].user, k))
    /\ Commit(r, k, LoginData(req[r]))
    /\ \/ /\ req[r].data = LoginData(req[r])
          /\ k = req[r].key
          /\ sessions' = WithoutKeys({req[r].drop})
          /\ nextKey' = nextKey
       \/ /\ k = NoKey
          /\ sessions' = WithoutKeys({req[r].drop, req[r].key})
          /\ nextKey' = nextKey
       \/ /\ req[r].data.user = NoUser
          /\ k = nextKey /\ nextKey \in Key
          /\ sessions' = [WithoutKeys({req[r].drop, req[r].key}) EXCEPT
                            ![nextKey] = Live(req[r].data)]
          /\ nextKey' = nextKey + 1
  BY DEF SignIn, RecordedKey, KeepsSession

(* The three ways the middleware leaves the session table.                   *)
LEMMA RespondCases ==
  ASSUME NEW r \in Request, Respond(r)
  PROVE  \/ /\ sessions' = sessions /\ nextKey' = nextKey
            /\ Deliver(r, NoKey) \/ UNCHANGED <<cookie, adminForm>>
         \/ /\ nextKey \in Key
            /\ sessions' = [sessions EXCEPT ![nextKey] = Live(req[r].data)]
            /\ nextKey' = nextKey + 1
            /\ Deliver(r, nextKey)
         \/ /\ req[r].key # NoKey /\ sessions[req[r].key].state # "absent"
            /\ sessions' = [sessions EXCEPT ![req[r].key] = Live(req[r].data)]
            /\ nextKey' = nextKey
            /\ Deliver(r, req[r].key)
  BY DEF Respond, RowStillThere

LEMMA BusyRequest ==
  ASSUME TypeOK, NEW r \in Request, req[r] # Idle
  PROVE  req[r] \in Active
  BY DEF TypeOK

LEMMA PhaseBusy ==
  ASSUME TypeOK, NEW r \in Request,
         req[r].phase \in {"loaded", "checked", "selected", "committed"}
  PROVE  req[r] # Idle /\ req[r] \in Active
  BY DEF TypeOK, Idle

LEMMA CommitFacts ==
  ASSUME TypeOK, NEW r \in Request, req[r] # Idle, NEW k, NEW d, Commit(r, k, d)
  PROVE  /\ req'[r] # Idle /\ req'[r].phase = "committed"
         /\ req'[r].key = k /\ req'[r].data = d
         /\ req'[r].op = req[r].op /\ req'[r].user = req[r].user
         /\ req'[r].browser = req[r].browser
         /\ \A q \in Request : q # r => req'[q] = req[q]
<1>1. req[r] \in Active
  BY BusyRequest
<1>2. LET c == Committed(req[r], k, d)
      IN  /\ c.phase = "committed" /\ c.op = req[r].op /\ c.browser = req[r].browser
          /\ c.key = k /\ c.data = d /\ c.user = req[r].user
  BY <1>1 DEF Active, Committed
<1>3. req'[r] = Committed(req[r], k, d)
  BY DEF Commit, TypeOK
<1>4. \A q \in Request : q # r => req'[q] = req[q]
  BY DEF Commit, TypeOK
<1>5. Idle.phase # "committed"
  BY DEF Idle
<1> QED BY <1>2, <1>3, <1>4, <1>5

LEMMA CommitTyped ==
  ASSUME TypeOK, NEW r \in Request, req[r] \in Active,
         NEW k \in KeyOrNone, NEW d \in Data, Commit(r, k, d)
  PROVE  req' \in [Request -> {Idle} \cup Active]
<1>1. NewRow \in UserRow /\ NoKey \in KeyOrNone /\ 0 \in Nat
  BY ConstantsAssumption DEF NewRow, UserRow, NoKey, KeyOrNone
<1>2. Committed(req[r], k, d) \in Active
  BY <1>1 DEF Active, Committed
<1> QED BY <1>2 DEF Commit, TypeOK

(* What a request does between Load and its commit: a sign-in is checked or  *)
(* a logout selects its row.  Nothing but the request changes.               *)
Advance(r) ==
  /\ req[r].phase = "loaded"
  /\ \/ /\ req[r].op \in {"login", "admin_login"}
        /\ req[r].user \in joined /\ users[req[r].user].is_active
        /\ req' = [req EXCEPT ![r].phase = "checked",
                              ![r].row = users[req[r].user]]
     \/ /\ req[r].op = "logout"
        /\ \E i \in DOMAIN history \cup {0} :
             /\ i # 0 => i \in OpenRows(req[r].user, req[r].key)
             /\ i # 0 => req[r].user # NoUser
             /\ req' = [req EXCEPT ![r].phase = "selected", ![r].entry = i]
  /\ UNCHANGED <<users, joined, sessions, history, cookie, adminForm, nextKey,
                 nextHash, reinstated>>

(* A request that commits nothing but the end of the sessions it dropped.    *)
Flushes(r) ==
  /\ req[r].phase = "loaded" /\ req[r].op \in {"login", "admin_login", "visit"}
  /\ \E S : sessions' = WithoutKeys(S)
  /\ Commit(r, NoKey, Anonymous)
  /\ UNCHANGED <<users, joined, history, cookie, adminForm, nextKey, nextHash,
                 reinstated>>

LEMMA NothingDropped ==
  ASSUME TypeOK
  PROVE  WithoutKeys({NoKey}) = sessions
<1>1. NoKey \notin Key
  BY DEF NoKey, Key
<1> QED BY <1>1 DEF TypeOK, WithoutKeys

(* The four ways authenticate and the logout query leave a request.          *)
LEMMA MiddleCases ==
  ASSUME TypeOK, NEW r \in Request,
         Authenticate(r) \/ SelectRow(r) \/ VisitPage(r)
  PROVE  \/ Advance(r) \/ Flushes(r)
         \/ /\ req' = [req EXCEPT ![r] = Idle]
            /\ UNCHANGED <<users, joined, sessions, history, cookie, adminForm,
                           nextKey, nextHash, reinstated>>
<1>1. CASE VisitPage(r)
  BY <1>1 DEF VisitPage, Flushes
<1>2. CASE SelectRow(r)
  BY <1>2 DEF SelectRow, Advance, OpenRows
<1>3. CASE Authenticate(r)
  BY <1>3, NothingDropped DEF Authenticate, Authenticates, Advance, Flushes
<1> QED BY <1>1, <1>2, <1>3

LEMMA AdvanceFacts ==
  ASSUME TypeOK, NEW r \in Request, Advance(r)
  PROVE  /\ req[r] # Idle /\ req'[r] # Idle
         /\ req'[r].phase \in {"checked", "selected"}
         /\ req'[r].phase = "checked" => /\ req[r].op \in {"login", "admin_login"}
                                         /\ req[r].user \in joined
                                         /\ users[req[r].user].is_active
         /\ req'[r].phase = "selected" =>
              /\ req[r].op = "logout"
              /\ req'[r].entry # 0 =>
                   /\ req'[r].entry \in OpenRows(req[r].user, req[r].key)
                   /\ req[r].user # NoUser
         /\ req'[r].key = req[r].key /\ req'[r].data = req[r].data
         /\ req'[r].op = req[r].op /\ req'[r].user = req[r].user
         /\ req'[r].browser = req[r].browser
         /\ \A q \in Request : q # r => req'[q] = req[q]
<1>1. req[r] # Idle /\ req[r] \in Active
  BY PhaseBusy DEF Advance
<1>2. Idle.phase = "idle"
  BY DEF Idle
<1>3. CASE req' = [req EXCEPT ![r].phase = "checked", ![r].row = users[req[r].user]]
  <2>1. req'[r] = [req[r] EXCEPT !.phase = "checked", !.row = users[req[r].user]]
    BY <1>3 DEF TypeOK
  <2>2. LET c == [req[r] EXCEPT !.phase = "checked", !.row = users[req[r].user]]
        IN  /\ c.phase = "checked" /\ c.op = req[r].op /\ c.user = req[r].user
            /\ c.browser = req[r].browser /\ c.key = req[r].key
            /\ c.data = req[r].data
    BY <1>1 DEF Active
  <2>3. \A q \in Request : q # r => req'[q] = req[q]
    BY <1>3 DEF TypeOK
  <2>4. req'[r].phase = "checked"
    BY <2>1, <2>2
  <2>5. req[r].op # "logout"
    <3>1. CASE req[r].op = "logout"
      <4>1. PICK i : req' = [req EXCEPT ![r].phase = "selected", ![r].entry = i]
        BY <3>1 DEF Advance
      <4>2. req'[r] = [req[r] EXCEPT !.phase = "selected", !.entry = i]
        BY <4>1 DEF TypeOK
      <4>3. [req[r] EXCEPT !.phase = "selected", !.entry = i].phase = "selected"
        BY <1>1 DEF Active
      <4> QED BY <2>4, <4>2, <4>3
    <3> QED BY <3>1
  <2>6. /\ req[r].op \in {"login", "admin_login"}
        /\ req[r].user \in joined /\ users[req[r].user].is_active
    BY <2>5 DEF Advance
  <2> QED BY <1>1, <1>2, <2>1, <2>2, <2>3, <2>6
<1>4. ASSUME NEW i, req' = [req EXCEPT ![r].phase = "selected", ![r].entry = i],
             i # 0 => i \in OpenRows(req[r].user, req[r].key) /\ req[r].user # NoUser,
             req[r].op = "logout"
      PROVE  /\ req'[r].phase = "selected" /\ req'[r].entry = i
             /\ req'[r].key = req[r].key /\ req'[r].data = req[r].data
             /\ req'[r].op = req[r].op /\ req'[r].user = req[r].user
             /\ req'[r].browser = req[r].browser
             /\ \A q \in Request : q # r => req'[q] = req[q]
  <2>1. req'[r] = [req[r] EXCEPT !.phase = "selected", !.entry = i]
    BY <1>4 DEF TypeOK
  <2>2. LET c == [req[r] EXCEPT !.phase = "selected", !.entry = i]
        IN  /\ c.phase = "selected" /\ c.op = req[r].op /\ c.user = req[r].user
            /\ c.browser = req[r].browser /\ c.key = req[r].key
            /\ c.data = req[r].data /\ c.entry = i
    BY <1>1 DEF Active
  <2>3. \A q \in Request : q # r => req'[q] = req[q]
    BY <1>4 DEF TypeOK
  <2> QED BY <2>1, <2>2, <2>3
<1>5. CASE ~(req' = [req EXCEPT ![r].phase = "checked",
                                ![r].row = users[req[r].user]])
  BY <1>1, <1>2, <1>4, <1>5 DEF Advance
<1> QED BY <1>3, <1>5

LEMMA DroppedTyped ==
  ASSUME TypeOK, NEW S
  PROVE  WithoutKeys(S) \in [Key -> Session]
  BY ConstantsAssumption DEF TypeOK, WithoutKeys, Session, Absent, Anonymous, Data

LEMMA LoadedStep ==
  ASSUME TypeOK, LoadedOK, [Next]_vars
  PROVE  LoadedOK'
<1>1. ASSUME NEW r \in Request, NEW b \in Browser, NEW op \in Ops,
             NEW u \in User \cup {NoUser}, Load(r, b, op, u)
      PROVE  LoadedOK'
  <2>1. op = "logout" /\ u # NoUser =>
          ~Stale(LoadedData(b)) /\ LoadedKey(b) # NoKey
    BY <1>1, ConstantsAssumption DEF Load, MayStart, Me, Verifies, Stale,
       LoadedData, Anonymous
  <2>2. op \notin {"logout", "visit"} => u \in User
    BY <1>1, ConstantsAssumption DEF Load, MayStart, TypeOK
  <2>3. /\ req'[r].op = op /\ req'[r].user = u /\ req'[r].phase = "loaded"
        /\ op = "logout" /\ u # NoUser => req'[r].key = LoadedKey(b)
    BY <1>1, <2>1 DEF Load, TypeOK
  <2>4. \A q \in Request : q # r => req'[q] = req[q]
    BY <1>1 DEF Load, TypeOK
  <2> QED BY <2>1, <2>2, <2>3, <2>4 DEF LoadedOK
<1>2. ASSUME NEW r \in Request, req[r] # Idle, NEW k, NEW d, Commit(r, k, d)
      PROVE  LoadedOK'
  BY <1>2, CommitFacts DEF LoadedOK
<1>3. ASSUME NEW r \in Request, req' = [req EXCEPT ![r] = Idle]
      PROVE  LoadedOK'
  <2>1. req'[r] = Idle /\ \A q \in Request : q # r => req'[q] = req[q]
    BY <1>3 DEF TypeOK
  <2>2. Idle.phase = "idle"
    BY DEF Idle
  <2> QED BY <2>1, <2>2 DEF LoadedOK
<1>4. ASSUME req' = req PROVE LoadedOK'
  BY <1>4 DEF LoadedOK
<1>5. ASSUME NEW r \in Request, LoginView(r) \/ AcceptInvitation(r)
      PROVE  LoadedOK'
  BY <1>2, <1>3, <1>5, PhaseBusy, SignInCases DEF LoginView, AcceptInvitation
<1>6. ASSUME NEW r \in Request,
             LogoutView(r) \/ ProfileUpdate(r) \/ PasswordChange(r) \/ Flushes(r)
      PROVE  LoadedOK'
  BY <1>2, <1>6, PhaseBusy DEF LogoutView, Flushes, ProfileUpdate, PasswordChange
<1>9. ASSUME NEW r \in Request, Advance(r) PROVE LoadedOK'
  <2>1. /\ req'[r].phase = "checked" => req[r].op \in {"login", "admin_login"}
        /\ req'[r].phase = "selected" => req[r].op = "logout"
        /\ req'[r].phase # "loaded"
        /\ req'[r].op = req[r].op /\ req'[r].user = req[r].user
        /\ \A q \in Request : q # r => req'[q] = req[q]
    BY <1>9, AdvanceFacts
  <2>2. req[r].phase = "loaded"
    BY <1>9 DEF Advance
  <2> QED BY <2>1, <2>2 DEF LoadedOK
<1>7. ASSUME NEW r \in Request, Respond(r) \/ Crash(r)
      PROVE  LoadedOK'
  BY <1>3, <1>7 DEF Respond, Crash
<1>8. ASSUME \/ \E u \in User : Suspend(u) \/ Unsuspend(u)
             \/ \E k \in Key : Expire(k)
             \/ \E b \in Browser : OpenAdminForm(b) \/ CloseBrowser(b)
             \/ UNCHANGED vars
      PROVE  LoadedOK'
  BY <1>4, <1>8 DEF Suspend, Unsuspend, SetActive, Expire, OpenAdminForm,
     CloseBrowser, vars
<1> QED
  BY <1>1, <1>3, <1>5, <1>6, <1>7, <1>8, <1>9, MiddleCases DEF Next

LEMMA StampTyped ==
  ASSUME history \in Seq(LoginRow), NEW i,
         history' = [history EXCEPT ![i] = Stamped(history[i])]
  PROVE  history' \in Seq(LoginRow)
<1>1. \A row \in LoginRow : Stamped(row) \in LoginRow
  BY DEF LoginRow, Stamped
<1>2. CASE i \in 1..Len(history)
  <2>1. history[i] \in LoginRow
    BY <1>2
  <2> QED BY <1>1, <1>2, <2>1, ExceptSeq
<1>3. CASE i \notin 1..Len(history)
  <2>1. history' = history
    BY <1>3
  <2> QED BY <2>1
<1> QED BY <1>2, <1>3

(* The row a login appends and the session it commits.                       *)
LEMMA SignInRow ==
  ASSUME TypeOK, LoadedOK, NEW r \in Request,
         req[r].phase \in {"loaded", "checked"},
         req[r].op \notin {"logout", "visit"}, SignIn(r)
  PROVE  \E k \in KeyOrNone :
    /\ req[r] \in Active /\ req[r].user \in User
    /\ OpenRow(req[r].user, k) \in LoginRow
    /\ history' = Append(history, OpenRow(req[r].user, k))
    /\ Commit(r, k, LoginData(req[r]))
    /\ \/ /\ req[r].data.user = req[r].user
          /\ k = req[r].key
          /\ sessions' = WithoutKeys({req[r].drop})
          /\ nextKey' = nextKey
       \/ /\ k = NoKey
          /\ sessions' = WithoutKeys({req[r].drop, req[r].key})
          /\ nextKey' = nextKey
       \/ /\ req[r].data.user = NoUser
          /\ k = nextKey /\ nextKey \in Key
          /\ sessions' = [WithoutKeys({req[r].drop, req[r].key}) EXCEPT
                            ![nextKey] = Live(req[r].data)]
          /\ nextKey' = nextKey + 1
<1>1. req[r] \in Active
  BY PhaseBusy
<1>2. req[r].user \in User
  BY DEF LoadedOK
<1>3. req[r].key \in KeyOrNone /\ NoKey \in KeyOrNone /\ Key \subseteq KeyOrNone
  BY <1>1, ConstantsAssumption DEF Active, NoKey, KeyOrNone, Key
<1>4. \A k \in KeyOrNone : OpenRow(req[r].user, k) \in LoginRow
  BY <1>2 DEF OpenRow, LoginRow
<1>5. PICK k :
    /\ history' = Append(history, OpenRow(req[r].user, k))
    /\ Commit(r, k, LoginData(req[r]))
    /\ \/ /\ req[r].data = LoginData(req[r])
          /\ k = req[r].key
          /\ sessions' = WithoutKeys({req[r].drop})
          /\ nextKey' = nextKey
       \/ /\ k = NoKey
          /\ sessions' = WithoutKeys({req[r].drop, req[r].key})
          /\ nextKey' = nextKey
       \/ /\ req[r].data.user = NoUser
          /\ k = nextKey /\ nextKey \in Key
          /\ sessions' = [WithoutKeys({req[r].drop, req[r].key}) EXCEPT
                            ![nextKey] = Live(req[r].data)]
          /\ nextKey' = nextKey + 1
  BY SignInCases
<1>6. k \in KeyOrNone
  BY <1>3, <1>5
<1>7. req[r].data = LoginData(req[r])
        => req[r].data.user = req[r].user
  BY DEF LoginData
<1> QED BY <1>1, <1>2, <1>4, <1>5, <1>6, <1>7

LEMMA TypeStep ==
  ASSUME TypeOK, LoadedOK, [Next]_vars
  PROVE  TypeOK'
<1> USE ConstantsAssumption
<1>1. ASSUME NEW r \in Request, NEW b \in Browser, NEW op \in Ops,
             NEW u \in User \cup {NoUser}, Load(r, b, op, u)
      PROVE TypeOK'
  <2>1. LoadedKey(b) \in KeyOrNone /\ LoadedData(b) \in Data
    BY DEF TypeOK, LoadedKey, LoadedData, Session, Data, Anonymous, NoKey, Key,
       KeyOrNone
  <2>2. NewRow \in UserRow /\ Anonymous \in Data /\ NoKey \in KeyOrNone
    BY DEF NewRow, UserRow, Anonymous, Data, NoKey, KeyOrNone
  <2>3. op \in {"profile", "password"} => users[u] \in UserRow
    BY <1>1 DEF Load, MayStart, TypeOK
  <2>4. req' \in [Request -> {Idle} \cup Active]
    BY <1>1, <2>1, <2>2, <2>3 DEF Load, TypeOK, Active
  <2> QED BY <1>1, <2>4 DEF Load, TypeOK
<1>2. ASSUME NEW r \in Request, req[r].phase \in {"loaded", "checked"},
             req[r].op \notin {"logout", "visit"}, SignIn(r)
      PROVE /\ sessions' \in [Key -> Session] /\ history' \in Seq(LoginRow)
            /\ req' \in [Request -> {Idle} \cup Active]
            /\ nextKey' \in 1..MaxKey + 1
  <2>1. PICK k \in KeyOrNone :
          /\ req[r] \in Active /\ req[r].user \in User
          /\ OpenRow(req[r].user, k) \in LoginRow
          /\ history' = Append(history, OpenRow(req[r].user, k))
          /\ Commit(r, k, LoginData(req[r]))
          /\ \/ (\E S : sessions' = WithoutKeys(S)) /\ nextKey' = nextKey
             \/ /\ \E S : sessions' = [WithoutKeys(S) EXCEPT
                                         ![nextKey] = Live(req[r].data)]
                /\ nextKey \in Key /\ nextKey' = nextKey + 1
    BY <1>2, SignInRow
  <2>2. LoginData(req[r]) \in Data
    BY <2>1 DEF Active, Data, UserRow, LoginData
  <2>3. Live(req[r].data) \in Session
    BY <2>1 DEF Live, Session, Active
  <2>4. sessions' \in [Key -> Session]
    BY <2>1, <2>3, DroppedTyped
  <2>5. nextKey' \in 1..MaxKey + 1
    BY <2>1 DEF TypeOK, Key
  <2> QED BY <2>1, <2>2, <2>4, <2>5, CommitTyped DEF TypeOK
<1>3. ASSUME NEW r \in Request, LoginView(r) PROVE TypeOK'
  BY <1>2, <1>3 DEF LoginView, LoadedOK, TypeOK
<1>4. ASSUME NEW r \in Request, AcceptInvitation(r) PROVE TypeOK'
  <2>1. req[r].user \in User
    BY <1>4 DEF AcceptInvitation, LoadedOK
  <2>2. CASE req[r].user \in joined
    BY <1>4, <2>2 DEF AcceptInvitation, TypeOK
  <2>3. CASE req[r].user \notin joined
    BY <1>2, <1>4, <2>1, <2>3 DEF AcceptInvitation, TypeOK
  <2> QED BY <2>2, <2>3
<1>5. Anonymous \in Data /\ NoKey \in KeyOrNone
  BY DEF Anonymous, Data, NoKey, KeyOrNone
<1>6. ASSUME NEW r \in Request, LogoutView(r) PROVE TypeOK'
  <2>1. req' \in [Request -> {Idle} \cup Active]
    BY <1>5, <1>6, PhaseBusy, CommitTyped DEF LogoutView
  <2>2. history' \in Seq(LoginRow)
    <3>1. \/ history' = history
          \/ \E i : history' = [history EXCEPT ![i] = Stamped(history[i])]
      BY <1>6 DEF LogoutView
    <3> QED BY <3>1, StampTyped DEF TypeOK
  <2> QED BY <1>6, <2>1, <2>2, DroppedTyped DEF LogoutView, TypeOK
<1>7. ASSUME NEW r \in Request, Flushes(r) PROVE TypeOK'
  <2>1. req' \in [Request -> {Idle} \cup Active]
    BY <1>5, <1>7, PhaseBusy, CommitTyped DEF Flushes
  <2> QED BY <1>7, <2>1, DroppedTyped DEF Flushes, TypeOK
<1>8. ASSUME NEW r \in Request, ProfileUpdate(r) PROVE TypeOK'
  <2>1. req[r] \in Active
    BY <1>8, PhaseBusy DEF ProfileUpdate
  <2>2. req' \in [Request -> {Idle} \cup Active]
    BY <1>8, <2>1, CommitTyped DEF ProfileUpdate, Active
  <2> QED BY <1>8, <2>1, <2>2 DEF ProfileUpdate, TypeOK, Active, SavedRow, Reinstates
<1>9. ASSUME NEW r \in Request, PasswordChange(r) PROVE TypeOK'
  <2>1. req[r] \in Active
    BY <1>9, PhaseBusy DEF PasswordChange
  <2>2. SessionDataAfterChange(req[r]) \in Data /\ nextKey \in KeyOrNone
    <3>1. req[r].data \in Data
      BY <2>1 DEF Active
    <3>2. nextHash \in 0..MaxHash /\ nextKey \in KeyOrNone
      BY <1>9 DEF PasswordChange, Key, KeyOrNone
    <3> QED BY <3>1, <3>2 DEF Data, SessionDataAfterChange
  <2>3. req' \in [Request -> {Idle} \cup Active]
    BY <1>9, <2>1, <2>2, CommitTyped DEF PasswordChange
  <2>4. [req[r].row EXCEPT !.password = nextHash] \in UserRow
    BY <1>9, <2>1 DEF PasswordChange, Active, UserRow
  <2>5. Live(req[r].data) \in Session
    BY <2>1 DEF Live, Session, Active
  <2>6. sessions' \in [Key -> Session]
    BY <1>9, <2>5, DroppedTyped DEF PasswordChange
  <2>7. nextKey' \in 1..MaxKey + 1 /\ nextHash' \in 2..MaxHash + 1
    BY <1>9 DEF PasswordChange, TypeOK, Key
  <2>8. users' \in [User -> UserRow]
    BY <1>9, <2>4 DEF PasswordChange, TypeOK
  <2> QED BY <1>9, <2>3, <2>6, <2>7, <2>8 DEF PasswordChange, TypeOK, Reinstates
<1>10. ASSUME NEW r \in Request, Respond(r) PROVE TypeOK'
  <2>1. req[r] \in Active
    BY <1>10, PhaseBusy DEF Respond
  <2>2. Live(req[r].data) \in Session /\ req[r].browser \in Browser
    BY <2>1 DEF Live, Session, Active
  <2>3. nextKey' \in 1..MaxKey + 1
    BY <1>10, RespondCases DEF TypeOK, Key
  <2>4. sessions' \in [Key -> Session]
    BY <1>10, <2>2, RespondCases DEF TypeOK
  <2>5. \A k \in KeyOrNone : Deliver(r, k) \/ UNCHANGED <<cookie, adminForm>> =>
          cookie' \in [Browser -> KeyOrNone] /\ adminForm' \subseteq Browser
    BY <2>2 DEF Deliver, TypeOK
  <2>6. cookie' \in [Browser -> KeyOrNone] /\ adminForm' \subseteq Browser
    BY <1>5, <1>10, <2>1, <2>5, RespondCases DEF Active, Key, KeyOrNone
  <2> QED BY <1>10, <2>3, <2>4, <2>6 DEF Respond, TypeOK
<1>11. ASSUME NEW r \in Request, Crash(r) PROVE TypeOK'
  BY <1>11 DEF Crash, TypeOK
<1>12. ASSUME NEW u \in User, NEW a \in BOOLEAN, SetActive(u, a) PROVE TypeOK'
  BY <1>12 DEF SetActive, TypeOK, UserRow, Reinstates
<1>13. ASSUME NEW k \in Key, Expire(k) PROVE TypeOK'
  BY <1>13 DEF Expire, TypeOK, Session
<1>14. ASSUME NEW b \in Browser, OpenAdminForm(b) \/ CloseBrowser(b)
       PROVE  TypeOK'
  BY <1>5, <1>14 DEF OpenAdminForm, CloseBrowser, TypeOK
<1>15. CASE UNCHANGED vars
  BY <1>15 DEF vars, TypeOK
<1>16. ASSUME NEW r \in Request, req' = [req EXCEPT ![r] = Idle],
              UNCHANGED <<users, joined, sessions, history, cookie, adminForm,
                          nextKey, nextHash, reinstated>>
       PROVE  TypeOK'
  BY <1>16 DEF TypeOK
<1>17. ASSUME NEW r \in Request, Advance(r) PROVE TypeOK'
  <2>1. req[r] \in Active
    BY <1>17, PhaseBusy DEF Advance
  <2>2. req[r].user \in joined => users[req[r].user] \in UserRow
    BY DEF TypeOK
  <2>3. req[r].user \in joined =>
          [req[r] EXCEPT !.phase = "checked", !.row = users[req[r].user]] \in Active
    BY <2>1, <2>2 DEF Active
  <2>4. \A i \in Nat :
          [req[r] EXCEPT !.phase = "selected", !.entry = i] \in Active
    BY <2>1 DEF Active
  <2>5. DOMAIN history \cup {0} \subseteq Nat
    BY DEF TypeOK
  <2>6. \E q \in Active : req' = [req EXCEPT ![r] = q]
    <3>1. \/ /\ req[r].user \in joined
             /\ req' = [req EXCEPT ![r] = [req[r] EXCEPT !.phase = "checked",
                                                   !.row = users[req[r].user]]]
          \/ \E i \in Nat :
               req' = [req EXCEPT ![r] = [req[r] EXCEPT !.phase = "selected",
                                                   !.entry = i]]
      BY <1>17, <2>5 DEF Advance, TypeOK
    <3> QED BY <2>3, <2>4, <3>1
  <2>7. req' \in [Request -> {Idle} \cup Active]
    BY <2>6 DEF TypeOK
  <2> QED BY <1>17, <2>7 DEF Advance, TypeOK
<1> QED
  BY <1>1, <1>3, <1>4, <1>6, <1>7, <1>8, <1>9, <1>10, <1>11, <1>12, <1>13,
     <1>14, <1>15, <1>16, <1>17, MiddleCases DEF Next, Suspend, Unsuspend

---------------------------------------------------------------------------
(* Facts the remaining invariants share *)

LEMMA LoadFacts ==
  ASSUME TypeOK, NEW r \in Request, NEW b \in Browser, NEW op \in Ops,
         NEW u \in User \cup {NoUser}, Load(r, b, op, u)
  PROVE  /\ req'[r] # Idle /\ req'[r].browser = b
         /\ \/ req'[r].key = NoKey /\ req'[r].data = Anonymous
            \/ /\ req'[r].key \in Key /\ req'[r].key = cookie[b]
               /\ req'[r].data = sessions[req'[r].key].data
         /\ \A q \in Request : q # r => req'[q] = req[q]
<1>1. \/ LoadedKey(b) = NoKey /\ LoadedData(b) = Anonymous
      \/ /\ LoadedKey(b) \in Key /\ LoadedKey(b) = cookie[b]
         /\ LoadedData(b) = sessions[LoadedKey(b)].data
  BY DEF LoadedKey, LoadedData, Key, NoKey
<1>2. /\ req'[r].browser = b /\ req'[r].phase = "loaded"
      /\ \/ req'[r].key = NoKey /\ req'[r].data = Anonymous
         \/ req'[r].key = LoadedKey(b) /\ req'[r].data = LoadedData(b)
      /\ \A q \in Request : q # r => req'[q] = req[q]
  BY DEF Load, TypeOK
<1> QED BY <1>1, <1>2 DEF Idle

LEMMA AppendFacts ==
  ASSUME TypeOK, NEW row \in LoginRow, history' = Append(history, row)
  PROVE  \A i \in DOMAIN history' :
           (i \in DOMAIN history /\ history'[i] = history[i]) \/ history'[i] = row
  BY AppendProperties DEF TypeOK

(* A logout stamps the row it selected or none.                              *)
LEMMA LogoutFacts ==
  ASSUME TypeOK, SelectedOK, NEW r \in Request, LogoutView(r)
  PROVE  /\ DOMAIN history' = DOMAIN history
         /\ \A i \in DOMAIN history' :
              /\ i \in DOMAIN history
              /\ history'[i].user = history[i].user
              /\ history'[i].session_key = history[i].session_key
              /\ \/ history'[i].logged_out = history[i].logged_out
                 \/ history[i].session_key = req[r].key /\ req[r].key \in Key
<1> DEFINE e == req[r].entry
<1>1. CASE history' = history
  BY <1>1
<1>2. CASE e # 0 /\ history' = [history EXCEPT ![e] = Stamped(history[e])]
  <2>1. /\ e \in DOMAIN history /\ req[r].key \in Key
        /\ history[e].session_key = req[r].key
    BY <1>2 DEF SelectedOK, LogoutView
  <2>2. history[e] \in LoginRow
    BY <2>1 DEF TypeOK
  <2>3. /\ Stamped(history[e]).user = history[e].user
        /\ Stamped(history[e]).session_key = history[e].session_key
    BY <2>2 DEF LoginRow, Stamped
  <2> HIDE DEF e
  <2> QED BY <1>2, <2>1, <2>3
<1> QED BY <1>1, <1>2 DEF LogoutView

(* The step relation by what it touches, for case splits.                    *)
LEMMA StepCases ==
  ASSUME IInv, [Next]_vars
  PROVE  \/ \E r \in Request, b \in Browser, op \in Ops, u \in User \cup {NoUser} :
              Load(r, b, op, u)
         \/ \E r \in Request :
              \/ /\ req[r].phase \in {"loaded", "checked"}
                 /\ req[r].op \notin {"logout", "visit"}
                 /\ SignIn(r) /\ UNCHANGED cookie
              \/ Advance(r) \/ LogoutView(r) \/ Flushes(r) \/ ProfileUpdate(r)
              \/ PasswordChange(r) \/ Respond(r)
              \/ /\ req' = [req EXCEPT ![r] = Idle]
                 /\ UNCHANGED <<sessions, history, cookie, nextKey>>
         \/ /\ \/ sessions' = sessions
               \/ \E k \in Key : sessions' = [sessions EXCEPT ![k].state = "expired"]
                                 /\ sessions[k].state = "live"
            /\ \/ cookie' = cookie
               \/ \E b \in Browser : cookie' = [cookie EXCEPT ![b] = NoKey]
            /\ UNCHANGED <<history, req, nextKey>>
<1>1. ASSUME NEW r \in Request, LoginView(r)
      PROVE  /\ req[r].phase \in {"loaded", "checked"}
             /\ req[r].op \notin {"logout", "visit"}
             /\ SignIn(r) /\ UNCHANGED cookie
  BY <1>1 DEF LoginView, IInv, LoadedOK
<1>2. ASSUME NEW r \in Request, AcceptInvitation(r)
      PROVE  \/ /\ req[r].phase \in {"loaded", "checked"}
                /\ req[r].op \notin {"logout", "visit"}
                /\ SignIn(r) /\ UNCHANGED cookie
             \/ /\ req' = [req EXCEPT ![r] = Idle]
                /\ UNCHANGED <<sessions, history, cookie, nextKey>>
  BY <1>2 DEF AcceptInvitation
<1>3. ASSUME NEW r \in Request, Authenticate(r) \/ SelectRow(r) \/ VisitPage(r)
      PROVE  \/ Advance(r) \/ Flushes(r)
             \/ /\ req' = [req EXCEPT ![r] = Idle]
                /\ UNCHANGED <<sessions, history, cookie, nextKey>>
  BY <1>3, MiddleCases DEF IInv
<1>4. ASSUME NEW r \in Request, Crash(r)
      PROVE  /\ req' = [req EXCEPT ![r] = Idle]
             /\ UNCHANGED <<sessions, history, cookie, nextKey>>
  BY <1>4 DEF Crash
<1>5. ASSUME \/ \E u \in User : Suspend(u) \/ Unsuspend(u)
             \/ \E k \in Key : Expire(k)
             \/ \E b \in Browser : OpenAdminForm(b) \/ CloseBrowser(b)
             \/ UNCHANGED vars
      PROVE  /\ \/ sessions' = sessions
                \/ \E k \in Key : sessions' = [sessions EXCEPT ![k].state = "expired"]
                                  /\ sessions[k].state = "live"
             /\ \/ cookie' = cookie
                \/ \E b \in Browser : cookie' = [cookie EXCEPT ![b] = NoKey]
             /\ UNCHANGED <<history, req, nextKey>>
  BY <1>5 DEF Suspend, Unsuspend, SetActive, Expire, OpenAdminForm, CloseBrowser,
     vars
<1> QED BY <1>1, <1>2, <1>3, <1>4, <1>5 DEF Next

(* The row a logout selected keeps its key and its place.                    *)
LEMMA SelectedStep ==
  ASSUME IInv, [Next]_vars
  PROVE  SelectedOK'
<1> USE DEF IInv
<1> DEFINE Grows == \A i \in DOMAIN history :
              i \in DOMAIN history' /\ history'[i].session_key = history[i].session_key
<1>1. Grows
  <2>1. ASSUME NEW r \in Request, req[r].phase \in {"loaded", "checked"},
               req[r].op \notin {"logout", "visit"}, SignIn(r)
        PROVE  Grows
    <3>1. PICK row \in LoginRow : history' = Append(history, row)
      BY <2>1, SignInRow
    <3> QED BY <3>1, AppendProperties DEF TypeOK
  <2>2. ASSUME NEW r \in Request, LogoutView(r) PROVE Grows
    BY <2>2, LogoutFacts
  <2>3. CASE history' = history
    BY <2>3
  <2>4. ASSUME NEW r \in Request, NEW b \in Browser, NEW op \in Ops,
               NEW u \in User \cup {NoUser}, Load(r, b, op, u)
        PROVE  history' = history
    BY <2>4 DEF Load
  <2>5. ASSUME NEW r \in Request, \/ Advance(r) \/ Flushes(r) \/ ProfileUpdate(r)
                                  \/ PasswordChange(r) \/ Respond(r)
        PROVE  history' = history
    BY <2>5 DEF Advance, Flushes, ProfileUpdate, PasswordChange, Respond
  <2> HIDE DEF Grows
  <2> QED BY <2>1, <2>2, <2>3, <2>4, <2>5, StepCases
<1>2. ASSUME NEW q \in Request, req'[q] = req[q], req'[q].phase = "selected",
             req'[q].entry # 0
      PROVE  /\ req'[q].entry \in DOMAIN history'
             /\ req'[q].key \in Key
             /\ history'[req'[q].entry].session_key = req'[q].key
  BY <1>1, <1>2 DEF SelectedOK
<1>3. ASSUME NEW r \in Request, \A q \in Request : q # r => req'[q] = req[q],
             req'[r].phase # "selected"
      PROVE  SelectedOK'
  BY <1>2, <1>3 DEF SelectedOK
<1>4. ASSUME NEW r \in Request, req[r] # Idle, NEW k, NEW d, Commit(r, k, d)
      PROVE  SelectedOK'
  BY <1>3, <1>4, CommitFacts
<1>5. ASSUME NEW r \in Request, NEW b \in Browser, NEW op \in Ops,
             NEW u \in User \cup {NoUser}, Load(r, b, op, u)
      PROVE  SelectedOK'
  <2>1. req'[r].phase = "loaded" /\ \A q \in Request : q # r => req'[q] = req[q]
    BY <1>5 DEF Load, TypeOK
  <2> QED BY <1>3, <2>1
<1>6. ASSUME NEW r \in Request, req' = [req EXCEPT ![r] = Idle]
      PROVE  SelectedOK'
  <2>1. req'[r] = Idle /\ \A q \in Request : q # r => req'[q] = req[q]
    BY <1>6 DEF TypeOK
  <2>2. Idle.phase = "idle"
    BY DEF Idle
  <2> QED BY <1>3, <2>1, <2>2
<1>7. ASSUME NEW r \in Request, Advance(r) PROVE SelectedOK'
  <2>1. /\ req'[r].phase = "selected" /\ req'[r].entry # 0 =>
             /\ req[r].op = "logout" /\ req[r].user # NoUser
             /\ req'[r].entry \in OpenRows(req[r].user, req[r].key)
        /\ req'[r].key = req[r].key
        /\ \A q \in Request : q # r => req'[q] = req[q]
    BY <1>7, AdvanceFacts
  <2>2. history' = history /\ req[r].phase = "loaded" /\ req[r] \in Active
    BY <1>7, PhaseBusy DEF Advance
  <2>3. ASSUME req'[r].phase = "selected", req'[r].entry # 0
        PROVE  /\ req'[r].entry \in DOMAIN history'
               /\ req'[r].key \in Key
               /\ history'[req'[r].entry].session_key = req'[r].key
    <3>1. req[r].key # NoKey
      BY <2>1, <2>2, <2>3 DEF LoadedOK
    <3>2. req[r].key \in Key
      BY <2>2, <3>1, ConstantsAssumption DEF Active, KeyOrNone, Key, NoKey
    <3> QED BY <2>1, <2>2, <2>3, <3>1, <3>2 DEF OpenRows
  <2> QED BY <1>2, <2>1, <2>3 DEF SelectedOK
<1>8. CASE req' = req
  BY <1>2, <1>8 DEF SelectedOK
<1>9. ASSUME NEW r \in Request,
             \/ req[r].phase \in {"loaded", "checked"} /\ SignIn(r)
             \/ LogoutView(r) \/ Flushes(r) \/ ProfileUpdate(r) \/ PasswordChange(r)
      PROVE  req[r] # Idle /\ \E k, d : Commit(r, k, d)
  BY <1>9, PhaseBusy, SignInCases DEF LogoutView, Flushes, ProfileUpdate,
     PasswordChange
<1>10. ASSUME NEW r \in Request, Respond(r)
       PROVE  req' = [req EXCEPT ![r] = Idle]
  BY <1>10 DEF Respond
<1> HIDE DEF Grows
<1> QED BY <1>4, <1>5, <1>6, <1>7, <1>8, <1>9, <1>10, StepCases

LEMMA KeysStep ==
  ASSUME IInv, [Next]_vars
  PROVE  KeysIssued'
<1> USE ConstantsAssumption DEF IInv
<1>0. /\ nextKey \in Nat /\ MaxKey \in Nat /\ NoKey < nextKey /\ nextKey < nextKey + 1
      /\ Key \subseteq Nat
      /\ \A S, k : k \in Key /\ k >= nextKey => WithoutKeys(S)[k] = Absent
  BY DEF TypeOK, NoKey, Key, KeysIssued, WithoutKeys
<1>1. ASSUME NEW r \in Request, NEW b \in Browser, NEW op \in Ops,
             NEW u \in User \cup {NoUser}, Load(r, b, op, u)
      PROVE  KeysIssued'
  <2>1. req'[r].key < nextKey
    BY <1>0, <1>1, LoadFacts DEF KeysIssued
  <2> QED BY <1>1, <2>1, LoadFacts DEF KeysIssued, Load
<1>10. ASSUME NEW r \in Request, req[r] # Idle, NEW k, NEW d, Commit(r, k, d),
              nextKey' \in {nextKey, nextKey + 1}, k \in Nat, k < nextKey'
       PROVE  \A q \in Request : req'[q] # Idle => req'[q].key < nextKey'
  <2>1. \A q \in Request : req[q] # Idle => req[q].key \in Nat
    BY BusyRequest, <1>0 DEF Active, KeyOrNone
  <2> QED BY <1>0, <1>10, <2>1, CommitFacts DEF KeysIssued
<1>11. \A b \in Browser : cookie[b] \in Nat
  BY <1>0 DEF TypeOK, KeyOrNone
<1>12. \A i \in DOMAIN history : history[i].session_key \in Nat
  <2>1. \A i \in DOMAIN history : history[i] \in LoginRow
    BY DEF TypeOK
  <2> QED BY <2>1 DEF LoginRow, KeyOrNone
<1>13. ASSUME NEW S, NEW v,
              \/ sessions' = WithoutKeys(S) /\ nextKey' = nextKey
              \/ /\ sessions' = [WithoutKeys(S) EXCEPT ![nextKey] = v]
                 /\ nextKey' = nextKey + 1
       PROVE  \A k \in Key : k >= nextKey' => sessions'[k] = Absent
  <2>1. \A k \in Key : k >= nextKey' => k >= nextKey /\ k \in Nat
    BY <1>0, <1>13
  <2>2. \A k \in Key : k >= nextKey' => sessions'[k] = WithoutKeys(S)[k]
    <3>1. CASE nextKey' = nextKey + 1
      <4>1. \A k \in Key : k >= nextKey' => k # nextKey
        BY <1>0, <3>1
      <4> QED BY <1>13, <3>1, <4>1 DEF WithoutKeys
    <3> QED BY <1>13, <3>1
  <2> QED BY <1>0, <2>1, <2>2
<1>2. ASSUME NEW r \in Request, req[r].phase \in {"loaded", "checked"},
             req[r].op \notin {"logout", "visit"}, SignIn(r), UNCHANGED cookie
      PROVE  KeysIssued'
  <2>1. PICK k \in KeyOrNone :
          /\ req[r] \in Active /\ req[r].user \in User
          /\ OpenRow(req[r].user, k) \in LoginRow
          /\ history' = Append(history, OpenRow(req[r].user, k))
          /\ Commit(r, k, LoginData(req[r]))
          /\ \/ /\ k = req[r].key \/ k = NoKey
                /\ \E S : sessions' = WithoutKeys(S)
                /\ nextKey' = nextKey
             \/ /\ k = nextKey /\ nextKey \in Key
                /\ \E S : sessions' = [WithoutKeys(S) EXCEPT
                                         ![nextKey] = Live(req[r].data)]
                /\ nextKey' = nextKey + 1
    BY <1>2, SignInRow
  <2>2. req[r] # Idle /\ req[r].key < nextKey
    BY <1>2, PhaseBusy DEF KeysIssued
  <2>3. k \in Nat /\ k < nextKey' /\ nextKey' \in {nextKey, nextKey + 1}
    BY <1>0, <2>1, <2>2 DEF KeyOrNone
  <2>4. \A q \in Request : req'[q] # Idle => req'[q].key < nextKey'
    BY <1>10, <2>1, <2>2, <2>3
  <2>5. \A i \in DOMAIN history' : history'[i].session_key < nextKey'
    BY <1>0, <1>12, <2>1, <2>3, AppendFacts DEF KeysIssued, OpenRow
  <2>6. \A j \in Key : j >= nextKey' => sessions'[j] = Absent
    BY <1>13, <2>1
  <2>7. \A b \in Browser : cookie'[b] < nextKey'
    BY <1>0, <1>2, <1>11, <2>3 DEF KeysIssued
  <2> QED BY <2>4, <2>5, <2>6, <2>7 DEF KeysIssued
<1>3. ASSUME NEW r \in Request, LogoutView(r) PROVE KeysIssued'
  <2>1. req[r] # Idle
    BY <1>3, PhaseBusy DEF LogoutView
  <2>2. \A i \in DOMAIN history' : history'[i].session_key < nextKey'
    BY <1>3, LogoutFacts DEF LogoutView, KeysIssued
  <2>3. \A q \in Request : req'[q] # Idle => req'[q].key < nextKey'
    BY <1>0, <1>3, <1>10, <2>1 DEF LogoutView, NoKey
  <2> QED BY <1>0, <1>3, <2>2, <2>3 DEF LogoutView, KeysIssued
<1>4. ASSUME NEW r \in Request, Flushes(r) PROVE KeysIssued'
  <2>1. \A q \in Request : req'[q] # Idle => req'[q].key < nextKey'
    BY <1>0, <1>4, <1>10, PhaseBusy DEF Flushes, NoKey
  <2> QED BY <1>0, <1>4, <2>1 DEF Flushes, KeysIssued
<1>14. ASSUME NEW r \in Request, Advance(r) PROVE KeysIssued'
  <2>1. \A q \in Request : req'[q] # Idle => req'[q].key < nextKey'
    BY <1>14, AdvanceFacts DEF Advance, KeysIssued
  <2> QED BY <1>14, <2>1 DEF Advance, KeysIssued
<1>5. ASSUME NEW r \in Request, ProfileUpdate(r) PROVE KeysIssued'
  <2>1. \A q \in Request : req'[q] # Idle => req'[q].key < nextKey'
    BY <1>5, PhaseBusy, CommitFacts DEF ProfileUpdate, KeysIssued
  <2> QED BY <1>5, <2>1 DEF ProfileUpdate, KeysIssued
<1>6. ASSUME NEW r \in Request, PasswordChange(r) PROVE KeysIssued'
  <2>1. \A q \in Request : req'[q] # Idle => req'[q].key < nextKey'
    BY <1>0, <1>6, <1>10, PhaseBusy DEF PasswordChange
  <2>2. \A k \in Key : k >= nextKey' => sessions'[k] = Absent
    BY <1>6, <1>13 DEF PasswordChange
  <2> QED BY <1>0, <1>6, <1>11, <1>12, <2>1, <2>2 DEF PasswordChange, KeysIssued
<1>7. ASSUME NEW r \in Request, Respond(r) PROVE KeysIssued'
  <2>1. req[r] \in Active /\ req[r] # Idle
    BY <1>7, PhaseBusy DEF Respond
  <2>2. /\ req[r].key \in Nat /\ req[r].key < nextKey
        /\ req[r].browser \in Browser
    BY <1>0, <2>1 DEF KeysIssued, Active, KeyOrNone
  <2>3. nextKey' \in {nextKey, nextKey + 1}
    BY <1>7, RespondCases
  <2>4. \A k \in Key : k >= nextKey' => sessions'[k] = Absent
    <3>1. \A k \in Key : k >= nextKey' => k >= nextKey /\ k \in Nat
      BY <1>0, <2>3
    <3>2. \A k \in Key : k >= nextKey' => sessions'[k] = sessions[k]
      <4>1. CASE sessions' = [sessions EXCEPT ![nextKey] = Live(req[r].data)]
                 /\ nextKey' = nextKey + 1
        <5>1. \A k \in Key : k >= nextKey' => k # nextKey
          BY <1>0, <4>1
        <5> QED BY <4>1, <5>1 DEF TypeOK
      <4>2. CASE sessions' = [sessions EXCEPT ![req[r].key] = Live(req[r].data)]
                 /\ nextKey' = nextKey
        <5>1. \A k \in Key : k >= nextKey' => k # req[r].key
          BY <1>0, <2>2, <4>2
        <5> QED BY <4>2, <5>1 DEF TypeOK
      <4> QED BY <1>7, <4>1, <4>2, RespondCases
    <3> QED BY <3>1, <3>2 DEF KeysIssued
  <2>5. \A k \in Nat : Deliver(r, k) /\ k < nextKey' =>
          \A b \in Browser : cookie'[b] < nextKey'
    BY <1>0, <1>11, <2>3 DEF Deliver, KeysIssued, TypeOK
  <2>6. \A b \in Browser : cookie'[b] < nextKey'
    BY <1>0, <1>7, <1>11, <2>2, <2>3, <2>5, RespondCases DEF KeysIssued, NoKey
  <2>7. \A q \in Request : req'[q] # Idle => req'[q].key < nextKey'
    <3>1. \A q \in Request : req'[q] # Idle => req'[q] = req[q]
      BY <1>7 DEF Respond, TypeOK
    <3>2. \A q \in Request : req[q] # Idle => req[q].key \in Nat
      BY BusyRequest, <1>0 DEF Active, KeyOrNone
    <3> QED BY <1>0, <2>3, <3>1, <3>2 DEF KeysIssued
  <2>8. \A i \in DOMAIN history' : history'[i].session_key < nextKey'
    BY <1>0, <1>7, <1>12, <2>3 DEF Respond, KeysIssued
  <2> QED BY <2>4, <2>6, <2>7, <2>8 DEF KeysIssued
<1>8. ASSUME NEW r \in Request, req' = [req EXCEPT ![r] = Idle],
             UNCHANGED <<sessions, history, cookie, nextKey>>
      PROVE  KeysIssued'
  BY <1>8 DEF KeysIssued, TypeOK
<1>9. ASSUME \/ sessions' = sessions
             \/ \E k \in Key : sessions' = [sessions EXCEPT ![k].state = "expired"]
                               /\ sessions[k].state = "live",
             \/ cookie' = cookie
             \/ \E b \in Browser : cookie' = [cookie EXCEPT ![b] = NoKey],
             UNCHANGED <<history, req, nextKey>>
      PROVE  KeysIssued'
  <2>1. \A k \in Key : k >= nextKey => sessions'[k] = Absent
    BY <1>9 DEF KeysIssued, TypeOK, Absent
  <2>2. \A b \in Browser : cookie'[b] < nextKey
    BY <1>0, <1>9 DEF KeysIssued, TypeOK
  <2> QED BY <1>9, <2>1, <2>2 DEF KeysIssued
<1> QED
  BY <1>1, <1>2, <1>3, <1>4, <1>5, <1>6, <1>7, <1>8, <1>9, <1>14, StepCases

(* A session row is kept, deleted, saved by a request that holds its key, or *)
(* written under the next key.                                               *)
LEMMA SessionsStep ==
  ASSUME IInv, [Next]_vars, NEW k \in Key
  PROVE  \/ sessions'[k] = Absent
         \/ /\ sessions'[k].data = sessions[k].data
            /\ sessions'[k].state = "absent" \/ sessions[k].state # "absent"
         \/ /\ sessions[k].state # "absent"
            /\ \E r \in Request : /\ req[r] # Idle /\ req[r].key = k
                                  /\ sessions'[k] = Live(req[r].data)
         \/ k = nextKey /\ nextKey' = nextKey + 1
<1> USE DEF IInv
<1>1. ASSUME NEW S, sessions' = WithoutKeys(S)
      PROVE  sessions'[k] = Absent \/ sessions'[k] = sessions[k]
  BY <1>1 DEF WithoutKeys
<1>2. ASSUME NEW S, NEW v, sessions' = [WithoutKeys(S) EXCEPT ![nextKey] = v]
      PROVE  k = nextKey \/ sessions'[k] = Absent \/ sessions'[k] = sessions[k]
  BY <1>2 DEF WithoutKeys
<1>3. ASSUME NEW r \in Request, NEW b \in Browser, NEW op \in Ops,
             NEW u \in User \cup {NoUser}, Load(r, b, op, u)
      PROVE  sessions'[k] = sessions[k]
  BY <1>3 DEF Load
<1>4. ASSUME NEW r \in Request, Respond(r)
      PROVE  \/ sessions'[k] = sessions[k]
             \/ /\ sessions[k].state # "absent"
                /\ req[r] # Idle /\ req[r].key = k
                /\ sessions'[k] = Live(req[r].data)
             \/ k = nextKey /\ nextKey' = nextKey + 1
  <2>1. req[r] # Idle
    BY <1>4, PhaseBusy DEF Respond
  <2> QED BY <1>4, <2>1, RespondCases DEF TypeOK
<1>5. ASSUME NEW j \in Key, sessions' = [sessions EXCEPT ![j].state = "expired"],
             sessions[j].state = "live"
      PROVE  /\ sessions'[k].data = sessions[k].data
             /\ sessions'[k].state = "absent" \/ sessions[k].state # "absent"
  BY <1>5 DEF TypeOK, Session
<1>6. ASSUME NEW r \in Request, SignIn(r)
      PROVE  \/ sessions'[k] = Absent \/ sessions'[k] = sessions[k]
             \/ k = nextKey /\ nextKey' = nextKey + 1
  BY <1>1, <1>2, <1>6, SignInCases
<1>7. ASSUME NEW r \in Request,
             \/ LogoutView(r) \/ Flushes(r) \/ Advance(r) \/ ProfileUpdate(r)
             \/ PasswordChange(r)
      PROVE  \/ sessions'[k] = Absent \/ sessions'[k] = sessions[k]
             \/ k = nextKey /\ nextKey' = nextKey + 1
  BY <1>1, <1>2, <1>7 DEF LogoutView, Flushes, Advance, ProfileUpdate, PasswordChange
<1> QED
  BY <1>3, <1>4, <1>5, <1>6, <1>7, StepCases

(* A history row is kept, possibly closed by the logout that deletes its     *)
(* session, or appended open.                                                *)
LEMMA HistoryStep ==
  ASSUME IInv, [Next]_vars, NEW i \in DOMAIN history'
  PROVE  \/ /\ i \in DOMAIN history
            /\ history'[i].user = history[i].user
            /\ history'[i].session_key = history[i].session_key
            /\ \/ history'[i].logged_out = history[i].logged_out
               \/ \A k \in Key : history[i].session_key = k => sessions'[k] = Absent
         \/ history'[i].logged_out = 0
<1> USE DEF IInv
<1>1. ASSUME NEW r \in Request, req[r].phase \in {"loaded", "checked"},
             req[r].op \notin {"logout", "visit"}, SignIn(r)
      PROVE  \/ i \in DOMAIN history /\ history'[i] = history[i]
             \/ history'[i].logged_out = 0
  <2>1. PICK k : /\ OpenRow(req[r].user, k) \in LoginRow
                 /\ history' = Append(history, OpenRow(req[r].user, k))
    BY <1>1, SignInRow
  <2> QED BY <2>1, AppendFacts DEF OpenRow
<1>2. ASSUME NEW r \in Request, LogoutView(r)
      PROVE  \A k \in Key : req[r].key = k => sessions'[k] = Absent
  BY <1>2 DEF LogoutView, WithoutKeys
<1>3. CASE history' = history
  BY <1>3
<1>4. ASSUME NEW r \in Request, NEW b \in Browser, NEW op \in Ops,
             NEW u \in User \cup {NoUser}, Load(r, b, op, u)
      PROVE  history' = history
  BY <1>4 DEF Load
<1>5. ASSUME NEW r \in Request,
             \/ Advance(r) \/ Flushes(r) \/ ProfileUpdate(r) \/ PasswordChange(r)
             \/ Respond(r)
      PROVE  history' = history
  BY <1>5 DEF Advance, Flushes, ProfileUpdate, PasswordChange, Respond
<1> QED
  BY <1>1, <1>2, <1>3, <1>4, <1>5, LogoutFacts, StepCases

LEMMA ClosedStep ==
  ASSUME IInv, [Next]_vars
  PROVE  ClosedRowHasNoSession'
<1> SUFFICES ASSUME NEW i \in DOMAIN history', NEW k \in Key,
                    history'[i].logged_out # 0, history'[i].session_key = k
             PROVE  sessions'[k].state = "absent"
  BY DEF ClosedRowHasNoSession
<1>1. CASE sessions'[k] = Absent
  BY <1>1 DEF Absent
<1>2. CASE sessions'[k] # Absent
  <2>1. /\ i \in DOMAIN history /\ history[i].logged_out # 0
        /\ history[i].session_key = k
    BY <1>2, HistoryStep
  <2>2. sessions[k].state = "absent"
    BY <2>1 DEF IInv, ClosedRowHasNoSession
  <2>3. k # nextKey
    <3>1. nextKey \in Nat /\ history[i].session_key < nextKey
      BY <2>1 DEF IInv, KeysIssued, TypeOK
    <3> QED BY <2>1, <3>1
  <2> QED BY <1>2, <2>2, <2>3, SessionsStep
<1> QED BY <1>1, <1>2

(* Nobody has a claim on the key that is issued next.                        *)
LEMMA NextKeyFree ==
  ASSUME IInv, nextKey \in Key
  PROVE  \A u \in User : ~Claims(nextKey, u)
<1> USE ConstantsAssumption DEF IInv
<1>1. nextKey \in Nat
  BY DEF TypeOK
<1>2. sessions[nextKey] = Absent
  BY <1>1 DEF KeysIssued
<1>3. /\ \A r \in Request : req[r] # Idle => req[r].key # nextKey
      /\ \A i \in DOMAIN history : history[i].session_key # nextKey
  BY <1>1 DEF KeysIssued
<1> QED BY <1>2, <1>3 DEF Claims, Absent, Anonymous

(* Deleting and issuing sessions adds no account but the new session's.      *)
LEMMA SessionAccounts ==
  ASSUME NEW S, NEW d, NEW j \in Key, NEW u \in User,
         \/ sessions' = WithoutKeys(S)
         \/ sessions' = [WithoutKeys(S) EXCEPT ![nextKey] = Live(d)],
         sessions'[j].data.user = u
  PROVE  sessions[j].data.user = u \/ (j = nextKey /\ u = d.user)
<1>1. \/ sessions'[j] = Absent \/ sessions'[j] = sessions[j]
      \/ j = nextKey /\ sessions'[j] = Live(d)
  BY DEF WithoutKeys
<1>2. Absent.data.user # u /\ Live(d).data = d
  BY ConstantsAssumption DEF Absent, Anonymous, Live
<1> QED BY <1>1, <1>2

(* What a step adds to the claims on a key: at most one account, on the key  *)
(* it issues.                                                                *)
LEMMA ClaimsStep ==
  ASSUME IInv, [Next]_vars
  PROVE  \E w : \A k \in Key, u \in User :
           Claims(k, u)' => Claims(k, u) \/ (nextKey \in Key /\ k = nextKey /\ u = w)
<1> USE DEF IInv
<1> DEFINE Adds(w) == \A k \in Key, u \in User : Claims(k, u)' =>
             Claims(k, u) \/ (nextKey \in Key /\ k = nextKey /\ u = w)
<1> SUFFICES \E w : Adds(w)
  OBVIOUS
<1>0. \A u \in User : u # NoUser
  BY ConstantsAssumption
<1>1. ASSUME NEW r \in Request, NEW b \in Browser, NEW op \in Ops,
             NEW v \in User \cup {NoUser}, Load(r, b, op, v)
      PROVE  Adds(NoUser)
  <2>1. sessions' = sessions /\ history' = history
    BY <1>1 DEF Load
  <2>2. ASSUME NEW k \in Key, NEW u \in User, req'[r].key = k, req'[r].data.user = u
        PROVE  sessions[k].data.user = u
    BY <1>0, <1>1, <2>2, LoadFacts DEF Anonymous, NoKey, Key
  <2> QED BY <1>1, <2>1, <2>2, LoadFacts DEF Claims
<1>2. ASSUME NEW r \in Request, req[r].phase \in {"loaded", "checked"},
             req[r].op \notin {"logout", "visit"}, SignIn(r)
      PROVE  Adds(req[r].user)
  <2>1. PICK k \in KeyOrNone :
          /\ OpenRow(req[r].user, k) \in LoginRow
          /\ history' = Append(history, OpenRow(req[r].user, k))
          /\ Commit(r, k, LoginData(req[r]))
          /\ \/ req[r].data.user = req[r].user /\ k = req[r].key
             \/ k = NoKey
             \/ k = nextKey /\ nextKey \in Key
          /\ \/ \E S : sessions' = WithoutKeys(S)
             \/ /\ req[r].data.user = NoUser
                /\ \E S : sessions' = [WithoutKeys(S) EXCEPT
                                         ![nextKey] = Live(req[r].data)]
    BY <1>2, SignInRow
  <2>2. req[r] # Idle
    BY <1>2, PhaseBusy
  <2>3. \A j \in Key, u \in User : sessions'[j].data.user = u =>
          sessions[j].data.user = u
    BY <1>0, <2>1, SessionAccounts
  <2>4. \A j \in Key, u \in User : j = k /\ u = req[r].user =>
          Claims(j, u) \/ (nextKey \in Key /\ j = nextKey /\ u = req[r].user)
    BY <2>1, <2>2 DEF Claims, NoKey, Key
  <2>5. \A q \in Request, j \in Key, u \in User :
          req'[q] # Idle /\ req'[q].key = j /\ req'[q].data.user = u =>
            \/ req[q] # Idle /\ req[q].key = j /\ req[q].data.user = u
            \/ j = k /\ u = req[r].user
    BY <2>1, <2>2, CommitFacts DEF LoginData
  <2>6. \A i \in DOMAIN history' : \/ i \in DOMAIN history /\ history'[i] = history[i]
                                   \/ history'[i] = OpenRow(req[r].user, k)
    BY <2>1, AppendFacts
  <2> QED BY <2>3, <2>4, <2>5, <2>6 DEF Claims, OpenRow
<1>3. ASSUME NEW r \in Request, LogoutView(r)
      PROVE  Adds(NoUser)
  <2>1. req[r] # Idle /\ Commit(r, NoKey, Anonymous)
    BY <1>3, PhaseBusy DEF LogoutView
  <2>2. \A j \in Key, u \in User : sessions'[j].data.user = u =>
          sessions[j].data.user = u
    BY <1>0, <1>3 DEF LogoutView, WithoutKeys, Absent, Anonymous
  <2>3. \A q \in Request : (q = r /\ req'[q].key = NoKey) \/ req'[q] = req[q]
    BY <2>1, CommitFacts
  <2> QED BY <1>3, <2>2, <2>3, LogoutFacts DEF Claims, NoKey, Key
<1>10. ASSUME NEW r \in Request, Advance(r)
       PROVE  Adds(NoUser)
  <2>1. \A q \in Request : req'[q] # Idle =>
          req[q] # Idle /\ req'[q].key = req[q].key /\ req'[q].data = req[q].data
    BY <1>10, AdvanceFacts
  <2>2. sessions' = sessions /\ history' = history
    BY <1>10 DEF Advance
  <2> QED BY <2>1, <2>2 DEF Claims
<1>4. ASSUME NEW r \in Request, Flushes(r)
      PROVE  Adds(NoUser)
  <2>1. req[r] # Idle /\ Commit(r, NoKey, Anonymous) /\ history' = history
    BY <1>4, PhaseBusy DEF Flushes
  <2>2. \A j \in Key, u \in User : sessions'[j].data.user = u =>
          sessions[j].data.user = u
    BY <1>0, <1>4 DEF Flushes, WithoutKeys, Absent, Anonymous
  <2>3. \A q \in Request : (q = r /\ req'[q].key = NoKey) \/ req'[q] = req[q]
    BY <2>1, CommitFacts
  <2> QED BY <2>1, <2>2, <2>3 DEF Claims, NoKey, Key
<1>5. ASSUME NEW r \in Request, ProfileUpdate(r)
      PROVE  Adds(NoUser)
  <2>1. /\ req[r] # Idle /\ Commit(r, req[r].key, req[r].data)
        /\ history' = history /\ sessions' = sessions
    BY <1>5, PhaseBusy DEF ProfileUpdate
  <2> QED BY <2>1, CommitFacts DEF Claims
<1>6. ASSUME NEW r \in Request, PasswordChange(r)
      PROVE  Adds(req[r].data.user)
  <2>1. /\ req[r] # Idle /\ req[r] \in Active /\ history' = history
        /\ nextKey \in Key
        /\ Commit(r, nextKey, SessionDataAfterChange(req[r]))
    BY <1>6, PhaseBusy DEF PasswordChange
  <2>2. SessionDataAfterChange(req[r]).user = req[r].data.user
    BY <2>1 DEF Active, Data, SessionDataAfterChange
  <2>3. \A j \in Key, u \in User : sessions'[j].data.user = u =>
          sessions[j].data.user = u \/ (j = nextKey /\ u = req[r].data.user)
    <3>1. sessions' = [WithoutKeys({req[r].key}) EXCEPT ![nextKey] = Live(req[r].data)]
      BY <1>6 DEF PasswordChange
    <3> QED BY <3>1, SessionAccounts
  <2>4. \A q \in Request : \/ q = r /\ req'[q].key = nextKey
                              /\ req'[q].data.user = req[r].data.user
                           \/ req'[q] = req[q]
    <3>1. \E d : Commit(r, nextKey, d) /\ d.user = req[r].data.user
      BY <2>1, <2>2
    <3> QED BY <2>1, <3>1, CommitFacts
  <2> QED BY <2>1, <2>3, <2>4 DEF Claims
<1>7. ASSUME NEW r \in Request, Respond(r)
      PROVE  Adds(req[r].data.user)
  <2>1. /\ req[r] # Idle /\ history' = history
        /\ \A q \in Request : req'[q] # Idle => req'[q] = req[q]
    BY <1>7, PhaseBusy DEF Respond, TypeOK
  <2>2. \A j \in Key, u \in User : sessions'[j].data.user = u =>
          \/ sessions[j].data.user = u
          \/ req[r].key = j /\ req[r].data.user = u
          \/ nextKey \in Key /\ j = nextKey /\ u = req[r].data.user
    <3>1. \A j \in Key : \/ sessions'[j] = sessions[j]
                         \/ /\ j = req[r].key \/ (nextKey \in Key /\ j = nextKey)
                            /\ sessions'[j] = Live(req[r].data)
      BY <1>7, RespondCases DEF TypeOK
    <3> QED BY <3>1 DEF Live
  <2> QED BY <2>1, <2>2 DEF Claims
<1>8. ASSUME NEW r \in Request, req' = [req EXCEPT ![r] = Idle],
             UNCHANGED <<sessions, history>>
      PROVE  Adds(NoUser)
  BY <1>8 DEF Claims, TypeOK
<1>9. ASSUME \/ sessions' = sessions
             \/ \E k \in Key : sessions' = [sessions EXCEPT ![k].state = "expired"]
                               /\ sessions[k].state = "live",
             UNCHANGED <<history, req>>
      PROVE  Adds(NoUser)
  <2>1. \A j \in Key : sessions'[j].data = sessions[j].data
    BY <1>9 DEF TypeOK, Session
  <2> QED BY <1>9, <2>1 DEF Claims
<1> HIDE DEF Adds
<1> QED
  BY <1>1, <1>2, <1>3, <1>4, <1>5, <1>6, <1>7, <1>8, <1>9, <1>10, StepCases

LEMMA OwnerStep ==
  ASSUME IInv, [Next]_vars
  PROVE  OneOwner'
BY ClaimsStep, NextKeyFree DEF IInv, OneOwner

---------------------------------------------------------------------------
(* The theorems *)

(* The inductive invariant holds in every reachable state.                   *)
THEOREM Invariance == Spec => []IInv
<1>1. Init => IInv
  <2>1. Init => TypeOK /\ LoadedOK /\ SelectedOK
    BY ConstantsAssumption DEF Init, TypeOK, LoadedOK, SelectedOK, NewRow, UserRow, Session,
      Absent, Anonymous, Data, Key, KeyOrNone, NoKey, Idle
  <2>2. Init => KeysIssued /\ ClosedRowHasNoSession
    BY DEF Init, KeysIssued, ClosedRowHasNoSession, NoKey, Key
  <2>3. Init => \A k \in Key : \A u \in User : ~Claims(k, u)
    BY ConstantsAssumption DEF Init, Claims, Absent, Anonymous
  <2> QED BY <2>1, <2>2, <2>3 DEF IInv, OneOwner
<1>2. IInv /\ [Next]_vars => IInv'
  BY TypeStep, LoadedStep, SelectedStep, KeysStep, OwnerStep, ClosedStep DEF IInv
<1> QED BY <1>1, <1>2, PTL DEF Spec

(* TypeOK holds in every reachable state, whatever the bounds.               *)
THEOREM TypeCorrect == Spec => []TypeOK
BY Invariance, PTL DEF IInv

(* No history row ever names another account's session.                      *)
THEOREM HistoryNamesOwner == Spec => []RowMatchesSession
<1>1. IInv => RowMatchesSession
  <2> SUFFICES ASSUME IInv, NEW i \in DOMAIN history, NEW k \in Key,
                      history[i].session_key = k,
                      sessions[k].data.user # NoUser
               PROVE  sessions[k].data.user = history[i].user
    BY DEF RowMatchesSession
  <2>1. history[i] \in LoginRow /\ sessions[k] \in Session
    BY DEF IInv, TypeOK
  <2>2. history[i].user \in User /\ sessions[k].data.user \in User
    BY <2>1 DEF LoginRow, Session, Data
  <2>3. Claims(k, history[i].user) /\ Claims(k, sessions[k].data.user)
    BY DEF Claims
  <2> QED BY <2>2, <2>3 DEF IInv, OneOwner
<1> QED BY <1>1, Invariance, PTL

(* A session whose row carries a logout time is gone and stays gone.         *)
THEOREM LogoutIsFinal == Spec => []ClosedRowHasNoSession
BY Invariance, PTL DEF IInv

(* The rows logouts have selected and not stamped yet.                       *)
Found == [r \in Request |-> IF req[r].phase = "selected" THEN req[r].entry ELSE 0]

(* One step of the history and of the logouts: nothing, one open row more, a *)
(* logout that selects an open row or drops the one it had, or the row a     *)
(* logout selected stamped as its session is deleted.                        *)
LEMMA TrailStep ==
  ASSUME IInv, [Next]_vars
  PROVE  \/ history' = history /\ Found' = Found
         \/ /\ \E u \in User, k \in KeyOrNone :
                 history' = Append(history, OpenRow(u, k))
            /\ Found' = Found
         \/ \E r \in Request :
              \/ /\ history' = history
                 /\ \E i \in DOMAIN history :
                      /\ history[i].logged_out = 0
                      /\ Found' = [Found EXCEPT ![r] = i]
              \/ history' = history /\ Found' = [Found EXCEPT ![r] = 0]
              \/ /\ Found[r] # 0 /\ Found[r] \in DOMAIN history
                 /\ history' = [history EXCEPT ![Found[r]] = Stamped(history[Found[r]])]
                 /\ history[Found[r]].session_key \in Key
                 /\ history[Found[r]].session_key < nextKey
                 /\ sessions'[history[Found[r]].session_key] = Absent
                 /\ Found' = [Found EXCEPT ![r] = 0]
<1> USE DEF IInv
<1>1. ASSUME NEW r \in Request, \A q \in Request : q # r => req'[q] = req[q],
             req'[r].phase # "selected"
      PROVE  Found' = [Found EXCEPT ![r] = 0]
  BY <1>1 DEF Found
<1>2. ASSUME NEW r \in Request, \A q \in Request : q # r => req'[q] = req[q],
             req'[r].phase # "selected", req[r].phase # "selected"
      PROVE  Found' = Found
  BY <1>2 DEF Found
<1>3. ASSUME NEW r \in Request, req[r].phase \in {"loaded", "checked"},
             req[r].op \notin {"logout", "visit"}, SignIn(r)
      PROVE  /\ \E u \in User, k \in KeyOrNone :
                  history' = Append(history, OpenRow(u, k))
             /\ Found' = Found
  <2>1. PICK k \in KeyOrNone :
          /\ req[r].user \in User
          /\ history' = Append(history, OpenRow(req[r].user, k))
          /\ Commit(r, k, LoginData(req[r]))
    BY <1>3, SignInRow
  <2>2. req[r] # Idle
    BY <1>3, PhaseBusy
  <2>3. Found' = Found
    BY <1>2, <1>3, <2>1, <2>2, CommitFacts
  <2> QED BY <2>1, <2>3
<1>4. ASSUME NEW r \in Request, LogoutView(r), req[r].entry # 0
      PROVE  /\ Found[r] # 0 /\ Found[r] \in DOMAIN history
             /\ history' = [history EXCEPT ![Found[r]] = Stamped(history[Found[r]])]
             /\ history[Found[r]].session_key \in Key
             /\ history[Found[r]].session_key < nextKey
             /\ sessions'[history[Found[r]].session_key] = Absent
             /\ Found' = [Found EXCEPT ![r] = 0]
  <2>1. Found[r] = req[r].entry /\ req[r] # Idle /\ req[r].phase = "selected"
    BY <1>4, PhaseBusy DEF Found, LogoutView
  <2>2. /\ req[r].entry \in DOMAIN history /\ req[r].key \in Key
        /\ history[req[r].entry].session_key = req[r].key
    BY <1>4, <2>1 DEF SelectedOK
  <2>3. history[req[r].entry].session_key < nextKey
    BY <2>2 DEF KeysIssued
  <2>4. sessions'[req[r].key] = Absent
    BY <1>4, <2>2 DEF LogoutView, WithoutKeys
  <2>5. history' = [history EXCEPT ![req[r].entry] = Stamped(history[req[r].entry])]
    BY <1>4 DEF LogoutView
  <2>6. Found' = [Found EXCEPT ![r] = 0]
    BY <1>1, <1>4, <2>1, CommitFacts DEF LogoutView
  <2> QED BY <1>4, <2>1, <2>2, <2>3, <2>4, <2>5, <2>6
<1>5. ASSUME NEW r \in Request, LogoutView(r), req[r].entry = 0
      PROVE  history' = history /\ Found' = [Found EXCEPT ![r] = 0]
  <2>1. req[r] # Idle
    BY <1>5, PhaseBusy DEF LogoutView
  <2> QED BY <1>1, <1>5, <2>1, CommitFacts DEF LogoutView
<1>6. ASSUME NEW r \in Request, Flushes(r) \/ ProfileUpdate(r) \/ PasswordChange(r)
      PROVE  history' = history /\ Found' = Found
  <2>1. /\ req[r] # Idle /\ req[r].phase = "loaded" /\ history' = history
        /\ \E k, d : Commit(r, k, d)
    BY <1>6, PhaseBusy DEF Flushes, ProfileUpdate, PasswordChange
  <2> QED BY <1>2, <2>1, CommitFacts
<1>7. ASSUME NEW r \in Request, NEW b \in Browser, NEW op \in Ops,
             NEW u \in User \cup {NoUser}, Load(r, b, op, u)
      PROVE  history' = history /\ Found' = Found
  <2>1. /\ req'[r].phase = "loaded" /\ req[r] = Idle
        /\ \A q \in Request : q # r => req'[q] = req[q]
    BY <1>7 DEF Load, TypeOK
  <2>2. Idle.phase = "idle"
    BY DEF Idle
  <2> QED BY <1>2, <1>7, <2>1, <2>2 DEF Load
<1>8. ASSUME NEW r \in Request, req' = [req EXCEPT ![r] = Idle], history' = history
      PROVE  history' = history /\ Found' = [Found EXCEPT ![r] = 0]
  <2>1. req'[r] = Idle /\ \A q \in Request : q # r => req'[q] = req[q]
    BY <1>8 DEF TypeOK
  <2>2. Idle.phase = "idle"
    BY DEF Idle
  <2> QED BY <1>1, <1>8, <2>1, <2>2
<1>9. ASSUME NEW r \in Request, Respond(r)
      PROVE  req' = [req EXCEPT ![r] = Idle] /\ history' = history
  BY <1>9 DEF Respond
<1>10. ASSUME NEW r \in Request, Advance(r)
       PROVE  /\ history' = history
              /\ \/ Found' = Found
                 \/ \E i \in DOMAIN history :
                      /\ history[i].logged_out = 0
                      /\ Found' = [Found EXCEPT ![r] = i]
  <2>1. /\ history' = history /\ req[r].phase = "loaded"
        /\ \A q \in Request : q # r => req'[q] = req[q]
    BY <1>10, AdvanceFacts DEF Advance
  <2>2. CASE req'[r].phase = "selected" /\ req'[r].entry # 0
    <3>1. req'[r].entry \in OpenRows(req[r].user, req[r].key)
      BY <1>10, <2>2, AdvanceFacts
    <3>2. Found' = [Found EXCEPT ![r] = req'[r].entry]
      BY <2>1, <2>2 DEF Found
    <3> QED BY <2>1, <3>1, <3>2 DEF OpenRows
  <2>3. CASE ~(req'[r].phase = "selected" /\ req'[r].entry # 0)
    BY <2>1, <2>3 DEF Found
  <2> QED BY <2>2, <2>3
<1>11. ASSUME req' = req PROVE Found' = Found
  BY <1>11 DEF Found
<1> HIDE DEF IInv
<1> QED
  BY <1>3, <1>4, <1>5, <1>6, <1>7, <1>8, <1>9, <1>10, <1>11, StepCases

LEMMA CounterStep ==
  ASSUME IInv, [Next]_vars
  PROVE  nextKey' \in {nextKey, nextKey + 1}
<1>1. ASSUME NEW r \in Request, SignIn(r) \/ Respond(r)
      PROVE  nextKey' \in {nextKey, nextKey + 1}
  BY <1>1, SignInCases, RespondCases
<1>2. ASSUME NEW r \in Request,
             \/ Advance(r) \/ LogoutView(r) \/ Flushes(r) \/ ProfileUpdate(r)
             \/ PasswordChange(r)
      PROVE  nextKey' \in {nextKey, nextKey + 1}
  BY <1>2 DEF Advance, LogoutView, Flushes, ProfileUpdate, PasswordChange
<1>3. ASSUME NEW r \in Request, NEW b \in Browser, NEW op \in Ops,
             NEW u \in User \cup {NoUser}, Load(r, b, op, u)
      PROVE  nextKey' = nextKey
  BY <1>3 DEF Load
<1> QED BY <1>1, <1>2, <1>3, StepCases

(* The login history and the session table implement the audit trail.        *)
THEOREM ImplementsAuditTrail == Spec => AuditSpec
<1>1. Init => Audit!Init
  <2>1. Init => [r \in Request |-> IF req[r].phase = "selected" THEN req[r].entry
                                 ELSE 0] = [l \in Request |-> 0]
    BY DEF Init, Idle
  <2> QED BY <2>1 DEF Init, Audit!Init, Absent
<1>2. IInv /\ [Next]_vars => [Audit!Next]_Audit!vars
  <2> SUFFICES ASSUME IInv, [Next]_vars PROVE Audit!Next
    OBVIOUS
  <2>1. nextKey \in Nat /\ nextKey' \in {nextKey, nextKey + 1}
    BY CounterStep DEF IInv, TypeOK
  <2>2. Audit!Churn
    <3>1. ASSUME NEW k \in 1..nextKey - 1 PROVE k \in 1..nextKey' - 1
      <4>1. CASE nextKey' = nextKey
        BY <4>1
      <4>2. CASE nextKey' = nextKey + 1
        BY <2>1, <4>2
      <4> QED BY <2>1, <4>1, <4>2
    <3>2. ASSUME NEW k \in Key, sessions'[k].state # "absent",
                 sessions[k].state = "absent"
          PROVE  k \in (1..nextKey' - 1) \ (1..nextKey - 1)
      <4>1. sessions'[k] # Absent
        BY <3>2 DEF Absent
      <4>2. k = nextKey /\ nextKey' = nextKey + 1
        BY <3>2, <4>1, SessionsStep
      <4> QED BY <2>1, <4>2, ConstantsAssumption DEF Key
    <3> QED BY <3>1, <3>2 DEF Audit!Churn
  <2>3. CASE history' = history /\ Found' = Found
    BY <2>2, <2>3 DEF Audit!Next, Audit!Keep, Found
  <2>4. ASSUME NEW u \in User, NEW k \in KeyOrNone,
               history' = Append(history, OpenRow(u, k)), Found' = Found
        PROVE  Audit!Open
    <3>1. OpenRow(u, k) \in [user : User, session_key : KeyOrNone, logged_out : {0}]
      BY DEF OpenRow
    <3> QED BY <2>2, <2>4, <3>1 DEF Audit!Open, Found
  <2>5. ASSUME NEW r \in Request, history' = history, NEW i \in DOMAIN history,
               history[i].logged_out = 0, Found' = [Found EXCEPT ![r] = i]
        PROVE  Audit!Find(r)
    <3>1. history[i] \in [user : User, session_key : KeyOrNone, logged_out : {0}]
      <4>1. history[i] \in LoginRow
        BY DEF IInv, TypeOK
      <4> QED BY <2>5, <4>1 DEF LoginRow
    <3> QED BY <2>2, <2>5, <3>1 DEF Audit!Find, Found
  <2>6. ASSUME NEW r \in Request, history' = history,
               Found' = [Found EXCEPT ![r] = 0]
        PROVE  Audit!GiveUp(r)
    BY <2>2, <2>6 DEF Audit!GiveUp, Found
  <2>7. ASSUME NEW r \in Request, Found[r] # 0, Found[r] \in DOMAIN history,
               history' = [history EXCEPT ![Found[r]] = Stamped(history[Found[r]])],
               history[Found[r]].session_key \in Key,
               history[Found[r]].session_key < nextKey,
               sessions'[history[Found[r]].session_key] = Absent,
               Found' = [Found EXCEPT ![r] = 0]
        PROVE  Audit!Stamp(r)
    <3>1. history[Found[r]].session_key \in (1..nextKey - 1)
            \ {k \in Key : sessions'[k].state # "absent"}
      BY <2>1, <2>7, ConstantsAssumption DEF Absent, Key
    <3> QED BY <2>2, <2>7, <3>1, Zenon DEF Audit!Stamp, Found
  <2> QED BY <2>3, <2>4, <2>5, <2>6, <2>7, TrailStep DEF Audit!Next
<1> QED BY <1>1, <1>2, Invariance, PTL DEF Spec, AuditSpec, Audit!Spec
=============================================================================
