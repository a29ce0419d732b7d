------------------------------ MODULE Accounts ------------------------------
(***************************************************************************)
(* Invitations, sign-up and the identifiers of accounts.                   *)
(*                                                                         *)
(* A POST reads rows when it starts, checks its form with further reads    *)
(* and writes at the end; no row is locked, so requests interleave between *)
(* these steps and only the database constraints see the final values.     *)
(***************************************************************************)
EXTENDS Naturals, Sequences, FiniteSets

CONSTANTS Invite, Request, Email,
          Phone,            \* the numbers the site's own forms accept
          TypedName, TypedPhone,   \* texts admins type as usernames, as phones
          NoPhone, NoInvite,
          Fold(_),          \* a text in lower case
          LocalPart(_),     \* what stands before the @ of an address
          Numbered(_, _),   \* a base name, followed by a number from 2 on
          Ops               \* the operations requests perform

ASSUME ConstantsAssumption ==
  /\ NoInvite \notin Invite
  /\ NoPhone \notin Phone
  /\ Email # {} /\ \A e \in Email : Fold(e) \in Email

VARIABLES accounts,      \* core_user rows in the order of their ids
          invitations,   \* core_invitation rows by token
          req,           \* requests in flight
          moved,         \* auxiliary: accounts that have changed their address
          edited         \* auxiliary: invitations saved in the admin

vars == <<accounts, invitations, req, moved, edited>>

WholeName(e, n) == Numbered(e, n)       \* mutant: no split at the @
Name(e, n) == Numbered(LocalPart(e), n)
SignUpName == {Name(e, n) : e \in Email, n \in 1..Len(accounts) + 1}

(* Two fields are no columns: `invitation` remembers where an account came   *)
(* from, `typed` that an admin typed the username or the phone.              *)
AccountOf(names, phones, typed) ==
  [username : names, email : Email, phone : phones \cup {NoPhone},
   invitation : Invite \cup {NoInvite}, typed : {typed}]
Account == AccountOf(SignUpName, Phone, FALSE)
             \cup AccountOf(SignUpName \cup TypedName,
                               Phone \cup TypedPhone, TRUE)
Invitation == [state : {"unsent", "sent", "deleted"}, email : Email,
               expired : BOOLEAN, accepted : BOOLEAN]
Unsent == [state |-> "unsent", email |-> CHOOSE e \in Email : TRUE,
           expired |-> FALSE, accepted |-> FALSE]

Idle == [phase |-> "idle"]
Offered == [phase : {"opened"}, op : {"accept", "edit_invitation"},
           invite : Invite, offer : Invitation]
Filled == [phase : {"checked"}, op : {"accept"}, invite : Invite,
           row : Account]
Edit   == [phase : {"opened", "checked"}, op : {"profile", "edit_user"},
           id : Nat \ {0}, row : Account]

TypeOK ==
  /\ accounts \in Seq(Account)
  /\ invitations \in [Invite -> Invitation]
  /\ req \in [Request -> {Idle} \cup Offered \cup Filled \cup Edit]
  /\ moved \subseteq Nat /\ edited \subseteq Invite

Init ==
  /\ accounts = <<>>
  /\ invitations = [i \in Invite |-> Unsent]
  /\ req = [r \in Request |-> Idle]
  /\ moved = {} /\ edited = {}

---------------------------------------------------------------------------
(* Queries *)

Others(self) == DOMAIN accounts \ {self}
EmailInUse(e, self) == \E a \in Others(self) : Fold(accounts[a].email) = Fold(e)
PhoneInUse(p, self) == \E a \in Others(self) : accounts[a].phone = p
UsernameInUse(name) == \E a \in DOMAIN accounts : accounts[a].username = name

(* The unique columns username, email and, when set, phone.                  *)
ClashesWithoutEmail(row, self) ==       \* mutant: models.py:57, no unique=True
  \E a \in Others(self) :
    \/ accounts[a].username = row.username
    \/ row.phone # NoPhone /\ accounts[a].phone = row.phone
ClashesWithoutUsername(row, self) ==    \* mutant: a username that is not unique
  \E a \in Others(self) :
    \/ accounts[a].email = row.email
    \/ row.phone # NoPhone /\ accounts[a].phone = row.phone
ClashesWithoutPhone(row, self) ==       \* mutant: models.py:114-118 dropped
  \E a \in Others(self) : \/ accounts[a].username = row.username
                          \/ accounts[a].email = row.email
Clashes(row, self) ==
  \E a \in Others(self) :
    \/ accounts[a].username = row.username
    \/ accounts[a].email = row.email
    \/ row.phone # NoPhone /\ accounts[a].phone = row.phone

(* EmailOrPhoneBackend: the account an identifier names, the oldest of       *)
(* several, 0 if there is none.                                              *)
Matches(text, a) ==
  \/ Fold(accounts[a].username) = Fold(text)
  \/ Fold(accounts[a].email) = Fold(text)
  \/ accounts[a].phone = text
Resolve(text) ==
  LET hits == {a \in DOMAIN accounts : Matches(text, a)}
  IN IF hits = {} THEN 0 ELSE CHOOSE a \in hits : \A b \in hits : a <= b

---------------------------------------------------------------------------
(* Invitations *)

Send(i, e) ==
  /\ invitations[i].state = "unsent"
  /\ invitations' = [invitations EXCEPT ![i].state = "sent", ![i].email = e]
  /\ UNCHANGED <<accounts, req, moved, edited>>

(* manage.py invite_user lowers the address and refuses one in use.          *)
InviteUser(i, e) == ~EmailInUse(e, 0) /\ Send(i, Fold(e))

(* The admin site takes any address as typed.                                *)
InviteInAdmin(i, e) == "edit_invitation" \in Ops /\ Send(i, e)

Expire(i) ==
  /\ invitations[i].state = "sent" /\ ~invitations[i].expired
  /\ invitations' = [invitations EXCEPT ![i].expired = TRUE]
  /\ UNCHANGED <<accounts, req, moved, edited>>

DeleteInvitation(i) ==
  /\ invitations[i].state = "sent"
  /\ invitations' = [invitations EXCEPT ![i].state = "deleted"]
  /\ UNCHANGED <<accounts, req, moved, edited>>

(* The admin change form: the row is read, then every column is written,     *)
(* accepted_at too although it is read-only, as a new row if need be.        *)
OpenInvitationForm(r, i) ==
  /\ req[r] = Idle /\ "edit_invitation" \in Ops
  /\ invitations[i].state = "sent"
  /\ req' = [req EXCEPT ![r] = [phase |-> "opened", op |-> "edit_invitation",
                                invite |-> i, offer |-> invitations[i]]]
  /\ UNCHANGED <<accounts, invitations, moved, edited>>

StampedInvitation(offer, e, expired) ==     \* mutant: accepted_at auto_now
  [state |-> "sent", email |-> e, expired |-> expired, accepted |-> TRUE]
EditedInvitation(offer, e, expired) ==
  [state |-> "sent", email |-> e, expired |-> expired,
   accepted |-> offer.accepted]

SaveInvitationForm(r, e, expired) ==
  /\ req[r].phase = "opened" /\ req[r].op = "edit_invitation"
  /\ invitations' = [invitations EXCEPT ![req[r].invite] =
                       EditedInvitation(req[r].offer, e, expired)]
  /\ edited' = edited \cup {req[r].invite}
  /\ req' = [req EXCEPT ![r] = Idle]
  /\ UNCHANGED <<accounts, moved>>

---------------------------------------------------------------------------
(* Sign-up *)

IsValid(i) == invitations[i].state = "sent" /\ ~invitations[i].expired
              /\ ~invitations[i].accepted

OpenInvitation(r, i) ==
  /\ req[r] = Idle /\ "accept" \in Ops
  /\ IsValid(i)
  /\ req' = [req EXCEPT ![r] = [phase |-> "opened", op |-> "accept",
                                invite |-> i, offer |-> invitations[i]]]
  /\ UNCHANGED <<accounts, invitations, moved, edited>>

(* The address's local part, numbered from 2 while the name is taken.        *)
LocalPartOnly(e, n) == n = 1            \* mutant: the while loop dropped
FirstFree(e, n) == /\ ~UsernameInUse(Name(e, n))
                   /\ \A k \in 1..n - 1 : UsernameInUse(Name(e, k))

(* The columns of the new account; a blank phone is the empty text.          *)
NullPhone(q, p, name) ==                \* mutant: `or None` for a blank phone
  [username |-> name, email |-> q.offer.email,
   phone |-> IF p = NoPhone THEN NoInvite ELSE p, invitation |-> q.invite,
   typed |-> FALSE]
NewAccount(q, p, name) ==
  [username |-> name, email |-> q.offer.email, phone |-> p,
   invitation |-> q.invite, typed |-> FALSE]

(* The form's phone check, then the username, from what the table holds now. *)
CheckSignUp(r, p) ==
  LET q == req[r] IN
  /\ q.phase = "opened" /\ q.op = "accept"
  /\ p = NoPhone \/ ~PhoneInUse(p, 0)
  /\ \E n \in 1..Len(accounts) + 1 :
       /\ FirstFree(q.offer.email, n)
       /\ req' = [req EXCEPT ![r] =
            [phase |-> "checked", op |-> "accept", invite |-> q.invite,
             row |-> NewAccount(q, p, Name(q.offer.email, n))]]
  /\ UNCHANGED <<accounts, invitations, moved, edited>>

(* save(update_fields=...) of a row that was deleted is an error.            *)
StampSucceeds(i) == invitations[i].state = "sent"

(* Insert the account, then stamp the invitation; one transaction, so there  *)
(* is no account without the stamp.                                          *)
Stamps(q) == ~Clashes(q.row, 0) /\ StampSucceeds(q.invite)
CreatesAlone(q) == ~Clashes(q.row, 0)   \* mutant: ATOMIC_REQUESTS dropped
Creates(q) == Stamps(q)

CreateAccount(r) ==
  LET q == req[r] IN
  /\ q.phase = "checked" /\ q.op = "accept"
  /\ accounts' = IF Creates(q) THEN Append(accounts, q.row) ELSE accounts
  /\ invitations' = IF Stamps(q)
                    THEN [invitations EXCEPT ![q.invite].accepted = TRUE]
                    ELSE invitations
  /\ req' = [req EXCEPT ![r] = Idle]
  /\ UNCHANGED <<moved, edited>>

---------------------------------------------------------------------------
(* Accounts after sign-up *)

(* The admin's add form takes any free username, also somebody's address,   *)
(* and any phone; the superuser of the first start is made the same way.     *)
AddUser(name, e, p) ==
  LET row == [username |-> name, email |-> e, phone |-> p,
              invitation |-> NoInvite, typed |-> TRUE]
  IN /\ "add_user" \in Ops
     /\ ~Clashes(row, 0)
     /\ \A a \in DOMAIN accounts : Fold(accounts[a].username) # Fold(name)
     /\ accounts' = Append(accounts, row)
     /\ UNCHANGED <<invitations, req, moved, edited>>

OpenAccount(r, op, a) ==
  /\ req[r] = Idle /\ op \in Ops \cap {"profile", "edit_user"}
  /\ req' = [req EXCEPT ![r] = [phase |-> "opened", op |-> op, id |-> a,
                                row |-> accounts[a]]]
  /\ UNCHANGED <<accounts, invitations, moved, edited>>

CheckForm(r, op, row, accepted) ==
  /\ req[r].phase = "opened" /\ req[r].op = op
  /\ accepted
  /\ req' = [req EXCEPT ![r].phase = "checked", ![r].row = row]
  /\ UNCHANGED <<accounts, invitations, moved, edited>>

(* ProfileForm takes phone numbers only and compares addresses in any case.  *)
CheckProfile(r, e, p) ==
  CheckForm(r, "profile", [req[r].row EXCEPT !.email = e, !.phone = p],
            ~EmailInUse(e, req[r].id) /\ (p = NoPhone \/ ~PhoneInUse(p, req[r].id)))

(* The admin form has the username too, takes any text for it and for the    *)
(* phone, and compares them and the address as they are.                     *)
CheckUserForm(r, name, e, p) ==
  LET old == req[r].row
      row == [old EXCEPT !.username = name, !.email = e, !.phone = p,
                         !.typed = @ \/ name # old.username \/ p # old.phone]
  IN CheckForm(r, "edit_user", row, ~Clashes(row, req[r].id))

SaveAccount(r) ==
  LET q == req[r]
      Save == /\ ~Clashes(q.row, q.id)
              /\ accounts' = [accounts EXCEPT ![q.id] = q.row]
              /\ moved' = IF q.row.email = accounts[q.id].email THEN moved
                          ELSE moved \cup {q.id}
      Fail == Clashes(q.row, q.id) /\ UNCHANGED <<accounts, moved>>
  IN /\ q.phase = "checked" /\ q.op \in {"profile", "edit_user"}
     /\ Save \/ Fail
     /\ req' = [req EXCEPT ![r] = Idle]
     /\ UNCHANGED <<invitations, edited>>

(* The form shows errors, or the worker dies: nothing was written.           *)
Abandon(r) ==
  /\ req[r] # Idle
  /\ req' = [req EXCEPT ![r] = Idle]
  /\ UNCHANGED <<accounts, invitations, moved, edited>>

Next ==
  \/ \E i \in Invite :
       \/ \E e \in Email : InviteUser(i, e) \/ InviteInAdmin(i, e)
       \/ Expire(i) \/ DeleteInvitation(i)
       \/ \E r \in Request : OpenInvitation(r, i) \/ OpenInvitationForm(r, i)
  \/ \E name \in TypedName, e \in Email,
        p \in Phone \cup TypedPhone \cup {NoPhone} : AddUser(name, e, p)
  \/ \E r \in Request :
       \/ \E e \in Email, expired \in BOOLEAN : SaveInvitationForm(r, e, expired)
       \/ \E p \in Phone \cup {NoPhone} : CheckSignUp(r, p)
       \/ CreateAccount(r)
       \/ \E a \in DOMAIN accounts, op \in Ops : OpenAccount(r, op, a)
       \/ \E e \in Email, p \in Phone \cup {NoPhone} : CheckProfile(r, e, p)
       \/ /\ req[r] # Idle /\ req[r].op = "edit_user"
          /\ \E name \in TypedName \cup {req[r].row.username}, e \in Email,
               p \in Phone \cup TypedPhone \cup {NoPhone} :
                 CheckUserForm(r, name, e, p)
       \/ SaveAccount(r) \/ Abandon(r)

Spec == Init /\ [][Next]_vars

(* A view is a bounded run of queries: it answers or its worker dies.        *)
(* Whoever holds a valid link keeps trying, without a phone number, and not  *)
(* every attempt dies.                                                       *)
Opens(i)   == \E r \in Request : OpenInvitation(r, i)
Fills(i)   == \E r \in Request : CheckSignUp(r, NoPhone) /\ req[r].invite = i
Submits(i) == \E r \in Request : /\ CreateAccount(r)
                                 /\ req[r].invite = i
                                 /\ req[r].row.phone = NoPhone
Fairness ==
  /\ \A r \in Request : WF_vars(Abandon(r))
  /\ \A i \in Invite : SF_vars(Opens(i)) /\ SF_vars(Fills(i)) /\ SF_vars(Submits(i))
FairSpec == Spec /\ Fairness

---------------------------------------------------------------------------
(* Properties *)

(* No two accounts share a username, an address or the text of a phone,      *)
(* however sign-ups and edits that passed their checks overlap (models.py    *)
(* unique columns and unique_phone_when_set).                                *)
IdentifiersDistinct ==
  \A a, b \in DOMAIN accounts : a # b =>
    /\ accounts[a].username # accounts[b].username
    /\ accounts[a].email # accounts[b].email
    /\ accounts[a].phone = accounts[b].phone => accounts[a].phone = NoPhone

(* An invitation shown as accepted has produced an account, whatever failed  *)
(* sign-ups and admin edits do, and an account never comes without the stamp *)
(* on its invitation (invitation_views.py:33-46, base.py:45): only a save in *)
(* the admin, which writes an old accepted_at back, can take it off again.   *)
Made(i) == \E a \in DOMAIN accounts : accounts[a].invitation = i
AcceptedHasAccount ==
  \A i \in Invite : /\ invitations[i].accepted => Made(i)
                    /\ Made(i) /\ i \notin edited => invitations[i].accepted

(* A link makes a second account only after the first one changed its        *)
(* address, or after an admin saved the invitation: of two visitors who found *)
(* it valid together, and of whoever retries, one gets an account            *)
(* (invitation_views.py:19 reads it, :46 stamps it).                         *)
OneAccountPerInvitation ==
  \A a, b \in DOMAIN accounts :
    /\ a < b /\ accounts[a].invitation = accounts[b].invitation
    /\ accounts[a].invitation \notin {NoInvite} \cup edited
    => a \in moved

(* Signing in with an address finds an account that has it, or one to which  *)
(* an admin gave that text as a username or phone (backends.py:27-42): no    *)
(* sign-up and no profile edit ever catches somebody else's address, and an  *)
(* address one account gave up and another took belongs to the new one.      *)
GivenByAdmin(text, b) ==
  /\ accounts[b].typed
  /\ Fold(accounts[b].username) = Fold(text) \/ accounts[b].phone = text
AddressReachesItsHolder ==
  \A a \in DOMAIN accounts :
    LET b == Resolve(accounts[a].email)
    IN \/ Fold(accounts[b].email) = Fold(accounts[a].email)
       \/ GivenByAdmin(accounts[a].email, b)

(* Whoever holds a valid link gets an account in the end, unless the link    *)
(* expires or is deleted or the address is taken: concurrent sign-ups for    *)
(* the same username do not starve each other.                               *)
AddressTaken(i) == \E a \in DOMAIN accounts :
                     accounts[a].email = invitations[i].email
InvitationsSettle ==
  \A i \in Invite : IsValid(i) ~> ~IsValid(i) \/ AddressTaken(i)
=============================================================================
