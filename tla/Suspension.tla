----------------------------- MODULE Suspension -----------------------------
(***************************************************************************)
(* One account with the right password: suspension, the two sign-in        *)
(* backends and API tokens.  Its row is written by suspend and unsuspend,  *)
(* by its own POSTs and by admin pages that may have read it long ago, and *)
(* read by a login some time before its session or tokens are given.       *)
(* Times are what is left until them, so a tick takes one from each.       *)
(***************************************************************************)
EXTENDS Naturals

CONSTANTS Request, Page,           \* POSTs and admin pages open at a time
          Attempt,                 \* logins and token requests in flight at a time
          AccessAge, RefreshAge,   \* lifetimes of tokens, in ticks
          MaxSpan,                 \* bound: longest suspension with an end
          None

ASSUME AgesAssumption == /\ AccessAge \in Nat \ {0} /\ RefreshAge \in Nat \ {0}
                         /\ MaxSpan \in Nat

VARIABLES row,        \* the committed columns
          request,    \* the row each POST in flight has read
          page,       \* the row each open admin page shows
          attempt,    \* the logins and token requests that were let in
          session,    \* is a browser signed in?
          access, refresh,  \* lifetimes left of the tokens that are out
          quiet       \* ticks since the account was inactive with no earlier
                      \* attempt in flight (auxiliary, at most RefreshAge)

grants == <<session, access, refresh>>
vars == <<row, request, page, attempt, grants, quiet>>

(* suspended_at is set or null; suspended_until is over at 0.                *)
NoEnd == MaxSpan + 1               \* a null suspended_until
Row == [is_active : BOOLEAN, suspended_at : BOOLEAN, suspended_until : 0..NoEnd,
        byHand : BOOLEAN]          \* an admin has typed into these (ghost)
Clear == [is_active |-> TRUE, suspended_at |-> FALSE, suspended_until |-> NoEnd,
          byHand |-> FALSE]

Allowed == [gives : {"session", "tokens"},
            active : BOOLEAN]      \* was the row that was read active? (auxiliary)

ASSUME NoneAssumption == None \notin Row /\ None \notin Allowed

TypeOK ==
  /\ row \in Row
  /\ request \in [Request -> Row \cup {None}]
  /\ page \in [Page -> Row \cup {None}]
  /\ attempt \in [Attempt -> Allowed \cup {None}]
  /\ session \in BOOLEAN
  /\ access \in SUBSET (1..AccessAge) /\ refresh \in SUBSET (1..RefreshAge)
  /\ quiet \in 0..RefreshAge

Init ==
  /\ row = Clear
  /\ request = [r \in Request |-> None] /\ page = [p \in Page |-> None]
  /\ attempt = [a \in Attempt |-> None]
  /\ session = FALSE /\ access = {} /\ refresh = {} /\ quiet = 0

---------------------------------------------------------------------------
(* quiet counts while nobody is let in any more and nobody let in before is  *)
(* still waiting.                                                            *)
Settled == ~row.is_active /\ \A a \in Attempt : attempt[a] = None \/ ~attempt[a].active
Count   == quiet' = IF Settled' THEN quiet ELSE 0

---------------------------------------------------------------------------
(* User.suspend and User.unsuspend save these columns and no other.          *)

SuspendKeepsActive(until) ==       \* mutant: is_active not in update_fields
  [row EXCEPT !.suspended_at = TRUE, !.suspended_until = until, !.byHand = FALSE]
SuspendedTooLong(until) ==         \* mutant: off by one
  [is_active |-> FALSE, suspended_at |-> TRUE, suspended_until |-> until + 1,
   byHand |-> FALSE]
Suspended(until) ==
  [is_active |-> FALSE, suspended_at |-> TRUE, suspended_until |-> until,
   byHand |-> FALSE]
suspend(until) == row' = Suspended(until) /\ UNCHANGED <<request, page, attempt, grants>> /\ Count
unsuspend      == row' = Clear /\ UNCHANGED <<request, page, attempt, grants>> /\ Count

---------------------------------------------------------------------------
(* Signing in: EmailOrPhoneBackend, then ModelBackend.                       *)

Identifier == {"username", "email", "phone"}
is_suspended(u) == u.suspended_at /\ u.suspended_until # 0

user_can_authenticate(u) == u.is_active

EmailOrPhoneBackend(u) == ~is_suspended(u) /\ user_can_authenticate(u)
ModelBackend(u, by)    == by = "username" /\ u.is_active
authenticate(u, by)    == EmailOrPhoneBackend(u) \/ ModelBackend(u, by)

(* A view reads the row and lets the attempt in; it saves the session or     *)
(* mints the tokens later and does not look at the row again.                *)
LetIn(a, gives) ==
  /\ attempt[a] = None
  /\ attempt' = [attempt EXCEPT ![a] = [gives |-> gives, active |-> row.is_active]]
  /\ UNCHANGED <<row, request, page, grants>>
  /\ Count
Answered(a) ==
  /\ attempt' = [attempt EXCEPT ![a] = None]
  /\ UNCHANGED <<row, request, page>>
  /\ Count

SignIn(a, by) == authenticate(row, by) /\ LetIn(a, "session")

SaveSession(a) ==
  /\ attempt[a] # None /\ attempt[a].gives = "session"
  /\ session' = TRUE /\ UNCHANGED <<access, refresh>>
  /\ Answered(a)

SignOut == /\ session' = FALSE
           /\ UNCHANGED <<row, request, page, attempt, access, refresh, quiet>>

---------------------------------------------------------------------------
(* Tokens.  Refreshing gives two new ones, and the old refresh token stays   *)
(* good: without the blacklist app BLACKLIST_AFTER_ROTATION does nothing.    *)
(* Lifetimes count from here, and from a refresh's start a little earlier.   *)

GrantTokens(a) ==
  /\ attempt[a] # None /\ attempt[a].gives = "tokens"
  /\ access' = access \cup {AccessAge} /\ refresh' = refresh \cup {RefreshAge}
  /\ UNCHANGED session
  /\ Answered(a)

AnyUser == TRUE                    \* mutant: only the credentials are checked
AuthenticationRule == row.is_active

ObtainTokens(a, by) == authenticate(row, by) /\ AuthenticationRule /\ LetIn(a, "tokens")
RefreshTokens(a)    == refresh # {} /\ AuthenticationRule /\ LetIn(a, "tokens")

(* A worker dies, or the session's row is gone: nothing is given.            *)
GiveUp(a) == attempt[a] # None /\ Answered(a) /\ UNCHANGED grants

---------------------------------------------------------------------------
(* The account's own POSTs save the whole row as they read it, an admin page *)
(* these columns as it showed them or as the admin has changed them.         *)

Load(r) ==
  /\ request[r] = None /\ session /\ row.is_active
  /\ request' = [request EXCEPT ![r] = row]
  /\ UNCHANGED <<row, page, attempt, grants, quiet>>

Respond(r) ==
  /\ request[r] # None
  /\ row' \in {row, request[r]}    \* an invalid form saves nothing
  /\ request' = [request EXCEPT ![r] = None]
  /\ UNCHANGED <<page, attempt, grants>>
  /\ Count

Open(p) ==
  /\ page[p] = None
  /\ page' = [page EXCEPT ![p] = row]
  /\ UNCHANGED <<row, request, attempt, grants, quiet>>

Typed == [is_active : BOOLEAN, suspended_at : BOOLEAN,
          suspended_until : 0..NoEnd, byHand : {TRUE}]
Submit(p) ==
  /\ page[p] # None
  /\ row' \in {row, page[p]} \cup Typed   \* closed, saved as it was, edited
  /\ page' = [page EXCEPT ![p] = None]
  /\ UNCHANGED <<request, attempt, grants>>
  /\ Count

---------------------------------------------------------------------------
(* Time.  A token is refused from the moment nothing of its lifetime is left. *)

Later(u) == IF u = None \/ u.suspended_until \in {0, NoEnd} THEN u
            ELSE [u EXCEPT !.suspended_until = @ - 1]
Aged(tokens) == {t - 1 : t \in tokens \ {1}}

Tick ==
  /\ row' = Later(row)
  /\ request' = [r \in Request |-> Later(request[r])]
  /\ page' = [p \in Page |-> Later(page[p])]
  /\ access' = Aged(access) /\ refresh' = Aged(refresh)
  /\ quiet' = IF Settled /\ quiet < RefreshAge THEN quiet + 1 ELSE quiet
  /\ UNCHANGED <<attempt, session>>

Next ==
  \/ \E until \in 0..NoEnd : suspend(until)
  \/ unsuspend
  \/ \E a \in Attempt, by \in Identifier : SignIn(a, by) \/ ObtainTokens(a, by)
  \/ \E a \in Attempt : \/ RefreshTokens(a)
                        \/ SaveSession(a) \/ GrantTokens(a) \/ GiveUp(a)
  \/ SignOut
  \/ \E r \in Request : Load(r) \/ Respond(r)
  \/ \E p \in Page : Open(p) \/ Submit(p)
  \/ Tick

Spec == Init /\ [][Next]_vars

(* Time passes; nobody has to do anything.                                   *)
FairSpec == Spec /\ WF_vars(Tick)

---------------------------------------------------------------------------
(* Properties *)

(* As long as no admin has typed into the columns, both backends and every   *)
(* identifier give one answer, is_active: saves of old rows keep the columns *)
(* together, and a suspension that has run out, which is_suspended no longer *)
(* sees, still keeps its account out (models.py:163-187, backends.py:44-51).  *)
BackendsAgree ==
  ~row.byHand => \A by \in Identifier : authenticate(row, by) <=> row.is_active

(* The longer an account has been inactive, the less is left of its tokens,  *)
(* whoever refreshes, signs in with any identifier at any backend, saves an  *)
(* old row or is suspended again: only what was let in while the account was *)
(* active can still be given to it, and quiet counts from the last of those  *)
(* (base.py:83-86 and 271-276, backends.py:49, api_urls.py:18-19).            *)
TokensRunDown ==
  /\ \A left \in access  : left + quiet <= AccessAge
  /\ \A left \in refresh : left + quiet <= RefreshAge

(* An account that stays inactive loses its tokens: rotation, which renews a *)
(* refresh token for as long as somebody asks, ends with is_active           *)
(* (base.py:271-276, api_urls.py:19).                                         *)
TokensDieOut ==
  <>[](~row.is_active) => <>[](access = {} /\ refresh = {})

(* backends.py:14, "Suspended users are denied even with valid credentials". *)
SuspendedAreDenied ==
  [][\A a \in Attempt : attempt[a] = None /\ attempt'[a] # None /\ is_suspended(row)
                          => attempt'[a].gives # "session"]_vars
=============================================================================
