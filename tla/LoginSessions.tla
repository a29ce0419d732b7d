--------------------------- MODULE LoginSessions ---------------------------
(***************************************************************************)
(* Sign-in, sign-out, profile edits and password changes, with the session *)
(* rows, browser cookies and LoginHistory rows they touch.                 *)
(*                                                                         *)
(* Every view runs in one database transaction (ATOMIC_REQUESTS) and the   *)
(* session is written by the session middleware after that transaction.    *)
(* A request is therefore several steps that others interleave with: Load  *)
(* reads cookie, session row and user row; a sign-in reads the user row    *)
(* again to check it (Authenticate), a logout selects the history row it   *)
(* will stamp (SelectRow); a commit action applies what the view writes;   *)
(* Respond saves the session and sets the cookie.                          *)
(***************************************************************************)
EXTENDS Naturals, Sequences, FiniteSets

CONSTANTS User, Browser, Request,
          Staff,      \* users the admin site lets in
          Invited,    \* users with a pending invitation, not yet in the table
          NoUser,
          Ops,        \* the operations browsers perform
          MaxKey, MaxRow, MaxHash   \* bounds: session keys, rows, passwords

ASSUME ConstantsAssumption ==
  /\ NoUser \notin User
  /\ Staff \subseteq User /\ Invited \subseteq User
  /\ MaxKey \in Nat /\ MaxRow \in Nat /\ MaxHash \in Nat \ {0}

VARIABLES
  users,      \* core_user rows: password hash and is_active
  joined,     \* users whose row exists
  sessions,   \* django_session rows by key
  history,    \* core_loginhistory rows, oldest first
  cookie,     \* the session cookie each browser holds
  adminForm,  \* browsers showing /admin/login/ with a current CSRF token
  req,        \* requests in flight
  nextKey, nextHash,
  reinstated  \* auxiliary: accounts that were inactive and are active again

vars == <<users, joined, sessions, history, cookie, adminForm, req, nextKey,
          nextHash, reinstated>>

NoKey == 0
Key   == 1..MaxKey
KeyOrNone == 0..MaxKey
SignIns == {"login", "admin_login", "signup"}

Anonymous == [user |-> NoUser, hash |-> 0]
Absent    == [state |-> "absent", data |-> Anonymous]
Live(d)   == [state |-> "live", data |-> d]

UserRow == [password : 1..MaxHash, is_active : BOOLEAN]
NewRow  == [password |-> 1, is_active |-> TRUE]
Data    == [user : User \cup {NoUser}, hash : 0..MaxHash]
Session == [state : {"absent", "live", "expired"}, data : Data]

(* logged_out counts the times logged_out_at was written; 0 is null.         *)
LoginRow == [user : User, session_key : KeyOrNone, logged_out : Nat]
OpenRowNull(u, k) ==            \* mutant: signals.py:27 without `or ""`
  [user |-> u, session_key |-> IF k = 0 THEN NoUser ELSE k, logged_out |-> 0]
OpenRow(u, k) == [user |-> u, session_key |-> k, logged_out |-> 0]

Idle == [phase |-> "idle"]
Active == [phase : {"loaded", "checked", "selected", "committed"}, op : Ops,
           browser : Browser, key : KeyOrNone, drop : KeyOrNone, data : Data,
           user : User \cup {NoUser}, row : UserRow, entry : Nat]

TypeOK ==
  /\ users \in [User -> UserRow]
  /\ joined \subseteq User
  /\ sessions \in [Key -> Session]
  /\ history \in Seq(LoginRow)
  /\ cookie \in [Browser -> KeyOrNone]
  /\ adminForm \subseteq Browser
  /\ req \in [Request -> {Idle} \cup Active]
  /\ nextKey \in 1..MaxKey + 1
  /\ nextHash \in 2..MaxHash + 1
  /\ reinstated \subseteq User

Init ==
  /\ users = [u \in User |-> NewRow]
  /\ joined = User \ Invited
  /\ sessions = [k \in Key |-> Absent]
  /\ history = <<>>
  /\ cookie = [b \in Browser |-> NoKey]
  /\ adminForm = {}
  /\ req = [r \in Request |-> Idle]
  /\ nextKey = 1
  /\ nextHash = 2
  /\ reinstated = {}

---------------------------------------------------------------------------
(* Reading the session *)

(* SessionStore.load: an unknown or expired key reads as no session at all. *)
LoadedKey(b) == IF cookie[b] \in Key /\ sessions[cookie[b]].state = "live"
                THEN cookie[b] ELSE NoKey
LoadedData(b) == IF LoadedKey(b) = NoKey THEN Anonymous
                 ELSE sessions[LoadedKey(b)].data

(* auth.get_user: an inactive user is anonymous but keeps the session; a     *)
(* session whose hash no longer verifies is flushed.                         *)
SessionUserActive(d) == d.user # NoUser /\ users[d.user].is_active
Verifies(d) == SessionUserActive(d) /\ d.hash = users[d.user].password
Stale(d)    == SessionUserActive(d) /\ d.hash # users[d.user].password
Me(d)       == IF Verifies(d) THEN d.user ELSE NoUser

(* login_view sends a signed-in visitor home instead.                        *)
MayLoginAlways(d) == TRUE       \* mutant: views.py:53 dropped
MayLogin(d) == Me(d) = NoUser

(* EmailOrPhoneBackend.authenticate, for whoever knows the password.          *)
Authenticates(u) == u \in joined /\ users[u].is_active

(* Which operation a browser may submit, for which account, given its session *)
MayStart(op, b, u, d) ==
  \/ op = "login" /\ MayLogin(d) /\ u \in User
  \/ op = "admin_login" /\ b \in adminForm /\ u \in Staff
  \/ op = "signup" /\ u \in User \ joined
  \/ op \in {"profile", "password"} /\ u # NoUser /\ u = Me(d)
  \/ op = "logout" /\ u = Me(d)
  \/ op = "visit" /\ Stale(d) /\ u = NoUser

Load(r, b, op, u) ==
  LET d == LoadedData(b)
      stale == op # "signup" /\ Stale(d)
  IN /\ req[r] = Idle
     /\ MayStart(op, b, u, d)
     /\ req' = [req EXCEPT ![r] =
          [phase |-> "loaded", op |-> op, browser |-> b,
           key |-> IF stale THEN NoKey ELSE LoadedKey(b),
           drop |-> IF stale THEN LoadedKey(b) ELSE NoKey,
           data |-> IF stale THEN Anonymous ELSE d,
           user |-> u,
           row |-> IF op \in {"profile", "password"} THEN users[u] ELSE NewRow,
           entry |-> 0]]
     /\ UNCHANGED <<users, joined, sessions, history, cookie, adminForm,
                    nextKey, nextHash, reinstated>>

(* GET /admin/login/ shows the form to whoever lacks admin rights. *)
OpenAdminForm(b) ==
  /\ "admin_login" \in Ops
  /\ Me(LoadedData(b)) \notin Staff
  /\ adminForm' = adminForm \cup {b}
  /\ UNCHANGED <<users, joined, sessions, history, cookie, req, nextKey,
                 nextHash, reinstated>>

---------------------------------------------------------------------------
(* What the views commit *)

WithoutKeys(S) == [k \in Key |-> IF k \in S THEN Absent ELSE sessions[k]]

Committed(q, key, data) ==
  [q EXCEPT !.phase = "committed", !.key = key, !.data = data,
            !.drop = NoKey, !.row = NewRow, !.entry = 0]
Commit(r, key, data) == req' = [req EXCEPT ![r] = Committed(req[r], key, data)]

(* authenticate reads the account's row again, after request.user was; a      *)
(* refusal (or a wrong password) shows the form once more, and a stale        *)
(* session is gone by then.                                                   *)
Authenticate(r) ==
  LET q == req[r]
      Granted == /\ Authenticates(q.user)
                 /\ req' = [req EXCEPT ![r].phase = "checked",
                                       ![r].row = users[q.user]]
                 /\ UNCHANGED sessions
      Refused == /\ IF q.drop = NoKey THEN req' = [req EXCEPT ![r] = Idle]
                    ELSE Commit(r, NoKey, Anonymous)
                 /\ sessions' = WithoutKeys({q.drop})
  IN /\ q.phase = "loaded" /\ q.op \in {"login", "admin_login"}
     /\ Granted \/ Refused
     /\ UNCHANGED <<users, joined, history, cookie, adminForm, nextKey, nextHash,
                    reinstated>>

(* The session auth.login leaves in place: this account's, hash included.    *)
LoginData(q) == [user |-> q.user, hash |-> q.row.password]
KeepsSession(q) == q.data = LoginData(q)

(* record_login stores the key the session has by then, not the cookie's.    *)
CookieKey(r, k) == cookie[req[r].browser]     \* mutant: the request's cookie
RecordedKey(r, k) == k

(* auth.login: the same account keeps its key, another one's session is      *)
(* flushed (no key until the response), an anonymous session gets a new key; *)
(* then record_login writes the row.                                         *)
SignIn(r) ==
  LET q == req[r]
      Row(k) == /\ history' = Append(history, OpenRow(q.user, RecordedKey(r, k)))
                /\ Commit(r, k, LoginData(q))
      Keep  == /\ KeepsSession(q)
               /\ sessions' = WithoutKeys({q.drop})
               /\ Row(q.key)
               /\ UNCHANGED nextKey
      Flush == /\ q.data.user # NoUser /\ ~KeepsSession(q)
               /\ sessions' = WithoutKeys({q.drop, q.key})
               /\ Row(NoKey)
               /\ UNCHANGED nextKey
      Cycle == /\ q.data.user = NoUser /\ nextKey \in Key
               /\ sessions' = [WithoutKeys({q.drop, q.key}) EXCEPT
                                 ![nextKey] = Live(q.data)]
               /\ nextKey' = nextKey + 1
               /\ Row(nextKey)
  IN /\ Len(history) < MaxRow
     /\ Keep \/ Flush \/ Cycle

LoginView(r) ==
  /\ req[r].phase = "checked"
  /\ SignIn(r)
  /\ UNCHANGED <<users, joined, cookie, adminForm, nextHash, reinstated>>

AcceptInvitation(r) ==
  /\ req[r].phase = "loaded" /\ req[r].op = "signup"
  /\ IF req[r].user \in joined       \* IntegrityError: everything rolls back
     THEN /\ req' = [req EXCEPT ![r] = Idle]
          /\ UNCHANGED <<joined, sessions, history, nextKey>>
     ELSE /\ joined' = joined \cup {req[r].user}
          /\ SignIn(r)
  /\ UNCHANGED <<users, cookie, adminForm, nextHash, reinstated>>

OpenRowsOfUser(u, key) ==      \* mutant: signals.py:43 dropped
  {i \in DOMAIN history : history[i].user = u /\ history[i].logged_out = 0}
(* record_logout's queryset: open rows of this user, of this session if any. *)
OpenRows(u, key) == {i \in DOMAIN history :
                       /\ history[i].user = u /\ history[i].logged_out = 0
                       /\ key # NoKey => history[i].session_key = key}

(* record_logout selects the latest of them, without a lock ...               *)
SelectRow(r) ==
  LET q == req[r]
      rows == IF q.user = NoUser THEN {} ELSE OpenRows(q.user, q.key)
  IN /\ q.phase = "loaded" /\ q.op = "logout"
     /\ \E i \in rows \cup {0} :
          /\ i = 0 => rows = {}
          /\ \A j \in rows : j <= i
          /\ req' = [req EXCEPT ![r].phase = "selected", ![r].entry = i]
     /\ UNCHANGED <<users, joined, sessions, history, cookie, adminForm,
                    nextKey, nextHash, reinstated>>

(* ... and saves the logout time in it, whatever was saved there since; the   *)
(* session is flushed in the same transaction.                                *)
Stamped(row) == [row EXCEPT !.logged_out = @ + 1]

LogoutView(r) ==
  LET q == req[r]
  IN /\ q.phase = "selected"
     /\ history' = IF q.entry = 0 THEN history
                   ELSE [history EXCEPT ![q.entry] = Stamped(@)]
     /\ sessions' = WithoutKeys({q.drop, q.key})
     /\ Commit(r, NoKey, Anonymous)
     /\ UNCHANGED <<users, joined, cookie, adminForm, nextKey, nextHash,
                    reinstated>>

(* A page that only looks at request.user: a stale session is flushed. *)
VisitPage(r) ==
  /\ req[r].phase = "loaded" /\ req[r].op = "visit"
  /\ sessions' = WithoutKeys({req[r].drop})
  /\ Commit(r, NoKey, Anonymous)
  /\ UNCHANGED <<users, joined, history, cookie, adminForm, nextKey, nextHash,
                 reinstated>>

(* Kept for OneRowPerSession: which accounts this step makes active again.   *)
Reinstates ==
  reinstated' = reinstated \cup
    {u \in User : ~users[u].is_active /\ users'[u].is_active}

(* ProfileForm.save writes every column of the row read at Load. *)
SavedRowReset(q) == [q.row EXCEPT !.password = 1]   \* mutant: a password field
SavedRow(q) == q.row

ProfileUpdate(r) ==
  /\ req[r].phase = "loaded" /\ req[r].op = "profile"
  /\ users' = [users EXCEPT ![req[r].user] = SavedRow(req[r])]
  /\ Reinstates
  /\ Commit(r, req[r].key, req[r].data)
  /\ UNCHANGED <<joined, sessions, history, cookie, adminForm, nextKey,
                 nextHash>>

(* SetPasswordForm.save, also a full save, then update_session_auth_hash:    *)
(* cycle_key copies the session to a new key, the hash changes in memory.    *)
OldSessionData(q) == q.data     \* mutant: views.py:41 dropped
SessionDataAfterChange(q) == [q.data EXCEPT !.hash = nextHash]

PasswordChange(r) ==
  LET q == req[r]
  IN /\ q.phase = "loaded" /\ q.op = "password"
     /\ nextHash \in 1..MaxHash /\ nextKey \in Key
     /\ users' = [users EXCEPT ![q.user] = [q.row EXCEPT !.password = nextHash]]
     /\ Reinstates
     /\ sessions' = [WithoutKeys({q.key}) EXCEPT ![nextKey] = Live(q.data)]
     /\ Commit(r, nextKey, SessionDataAfterChange(q))
     /\ nextKey' = nextKey + 1
     /\ nextHash' = nextHash + 1
     /\ UNCHANGED <<joined, history, cookie, adminForm>>

---------------------------------------------------------------------------
(* The session middleware on the way out *)

(* SessionStore.save updates an existing row, it never inserts one again.    *)
RowStillThere(key) == sessions[key].state # "absent"

(* The browser takes the cookie, or never sees the response. *)
Deliver(r, key) ==
  LET b == req[r].browser
  IN \/ /\ cookie' = [cookie EXCEPT ![b] = key]
        /\ adminForm' = IF req[r].op \in SignIns THEN adminForm \ {b}
                        ELSE adminForm
     \/ UNCHANGED <<cookie, adminForm>>

Respond(r) ==
  LET q == req[r]
      Empty  == /\ q.data.user = NoUser
                /\ Deliver(r, NoKey)
                /\ UNCHANGED <<sessions, nextKey>>
      Create == /\ q.data.user # NoUser /\ q.key = NoKey
                /\ nextKey \in Key
                /\ sessions' = [sessions EXCEPT ![nextKey] = Live(q.data)]
                /\ nextKey' = nextKey + 1
                /\ Deliver(r, nextKey)
      Update == /\ q.data.user # NoUser /\ q.key # NoKey
                /\ RowStillThere(q.key)
                /\ sessions' = [sessions EXCEPT ![q.key] = Live(q.data)]
                /\ Deliver(r, q.key)
                /\ UNCHANGED nextKey
      Interrupted ==                         \* UpdateError: 400, no cookie
                /\ q.data.user # NoUser /\ q.key # NoKey
                /\ ~RowStillThere(q.key)
                /\ UNCHANGED <<sessions, nextKey, cookie, adminForm>>
  IN /\ q.phase = "committed"
     /\ Empty \/ Create \/ Update \/ Interrupted
     /\ req' = [req EXCEPT ![r] = Idle]
     /\ UNCHANGED <<users, joined, history, nextHash, reinstated>>

(* A worker dies with the request in it: an open transaction rolls back, a   *)
(* committed one stays, and the session is never saved.                      *)
Crash(r) ==
  /\ req[r] # Idle
  /\ req' = [req EXCEPT ![r] = Idle]
  /\ UNCHANGED <<users, joined, sessions, history, cookie, adminForm, nextKey,
                 nextHash, reinstated>>

---------------------------------------------------------------------------
(* Outside the browser's control *)

SetActive(u, active) ==
  /\ u \in joined /\ users[u].is_active # active
  /\ users' = [users EXCEPT ![u].is_active = active]
  /\ Reinstates
  /\ UNCHANGED <<joined, sessions, history, cookie, adminForm, req, nextKey,
                 nextHash>>
Suspend(u)   == SetActive(u, FALSE)
Unsuspend(u) == SetActive(u, TRUE)

Expire(k) ==
  /\ sessions[k].state = "live"
  /\ sessions' = [sessions EXCEPT ![k].state = "expired"]
  /\ UNCHANGED <<users, joined, history, cookie, adminForm, req, nextKey,
                 nextHash, reinstated>>

CloseBrowser(b) ==
  /\ cookie[b] # NoKey \/ b \in adminForm
  /\ cookie' = [cookie EXCEPT ![b] = NoKey]
  /\ adminForm' = adminForm \ {b}
  /\ UNCHANGED <<users, joined, sessions, history, req, nextKey, nextHash,
                 reinstated>>

Next ==
  \/ \E r \in Request :
       \/ \E b \in Browser, op \in Ops, u \in User \cup {NoUser} :
            Load(r, b, op, u)
       \/ Authenticate(r) \/ LoginView(r) \/ AcceptInvitation(r)
       \/ SelectRow(r) \/ LogoutView(r)
       \/ VisitPage(r) \/ ProfileUpdate(r) \/ PasswordChange(r)
       \/ Respond(r) \/ Crash(r)
  \/ \E u \in User : Suspend(u) \/ Unsuspend(u)
  \/ \E k \in Key : Expire(k)
  \/ \E b \in Browser : OpenAdminForm(b) \/ CloseBrowser(b)

Spec == Init /\ [][Next]_vars

---------------------------------------------------------------------------
(* Properties *)

(* A login-history row that names a session names that session's account,    *)
(* whatever logins, flushes, key changes and late session saves happen: the  *)
(* audit page never attributes one person's session to another               *)
(* (signals.py record_login, auth.login).                                    *)
RowMatchesSession ==
  \A i \in DOMAIN history : \A k \in Key :
    /\ history[i].session_key = k
    /\ sessions[k].data.user # NoUser
    => sessions[k].data.user = history[i].user

(* A row stamped with a logout time names a session that is gone for good: a *)
(* response still in flight cannot save the session back (signals.py         *)
(* record_logout, session middleware).                                       *)
ClosedRowHasNoSession ==
  \A i \in DOMAIN history : \A k \in Key :
    history[i].logged_out # 0 /\ history[i].session_key = k
      => sessions[k].state = "absent"

(* The history and the session table implement the audit trail: append-only, *)
(* a row is stamped only by a logout that selected it while it was open, and *)
(* together with the end of the session it names, which never comes back     *)
(* (signals.py record_logout: two logouts that overlap both stamp the row).  *)
Audit == INSTANCE AuditTrail WITH
  Row <- [user : User, session_key : KeyOrNone, logged_out : {0}],
  Logout <- Request,
  rows <- history,
  alive <- {k \in Key : sessions[k].state # "absent"},
  issued <- 1..nextKey - 1,
  found <- [r \in Request |-> IF req[r].phase = "selected" THEN req[r].entry
                             ELSE 0]
AuditSpec == Audit!Spec

(* record_logout's docstring: an explicit logout stamps the open row of the  *)
(* session it ends (signals.py:33).                                          *)
LogoutStampsRow ==
  [][\A r \in Request :
       /\ LogoutView(r)
       /\ req[r].user # NoUser
       /\ sessions[req[r].key].state # "absent"
       => history' # history]_vars

(* models.py:197, "One row per session", for every account but staff, whose   *)
(* admin login form keeps the session of whoever is signed in already, and    *)
(* accounts once let back in: such a visitor is nobody to views.py:53 while   *)
(* suspended and may be active by views.py:63, and login keeps the session.   *)
OneRowPerSession ==
  \A i, j \in DOMAIN history :
    /\ i # j /\ history[i].session_key # NoKey
    /\ history[i].user \notin Staff \cup reinstated
    => history[i].session_key # history[j].session_key

(* A password that was replaced never comes back (views.py:39; the test      *)
(* test_change_password asserts the new one is in force).                    *)
PasswordChangeSticks ==
  [][\A u \in User : users'[u].password # users[u].password
       => users'[u].password = nextHash]_vars

(* views.py:40, "Keep the user signed in after the password hash changes":   *)
(* the session saved by the response that hands out the new cookie verifies. *)
ChangerStaysSignedIn ==
  [][\A r \in Request :
       LET q == req[r] IN
       /\ q # Idle /\ q.phase = "committed" /\ q.op = "password"
       /\ req'[r] = Idle
       /\ cookie'[q.browser] = q.key
       => sessions'[q.key].data.hash = users[q.user].password]_vars

(* views.py:24, the profile form edits "ancillary details": it changes        *)
(* neither the password nor whether the account is active.                   *)
ProfileEditIsAncillary ==
  [][\A r \in Request : ProfileUpdate(r) =>
       users'[req[r].user] = users[req[r].user]]_vars
=============================================================================
