--------------------------- MODULE AccountsProofs ---------------------------
(* Proofs about Accounts for any invitations, addresses, phones, requests.   *)
EXTENDS Accounts, FiniteSetTheorems, TLAPS

---------------------------------------------------------------------------
(* The inductive invariant *)

(* A sign-up in flight will credit the invitation it was opened with.        *)
RowsNameTheirInvitation ==
  \A r \in Request : req[r] \in Filled => req[r].row.invitation = req[r].invite

(* An edit in flight keeps where the account it will overwrite came from.    *)
EditsKeepOrigin ==
  \A r \in Request : req[r] \in Edit =>
    /\ req[r].id \in DOMAIN accounts
    /\ req[r].row.invitation = accounts[req[r].id].invitation

(* What a form read from an invitation is no further than the accounts are.  *)
OffersHaveAccount ==
  \A r \in Request : req[r] \in Offered /\ req[r].offer.accepted =>
    \E a \in DOMAIN accounts : accounts[a].invitation = req[r].invite

(* A link nobody edited stands for one address: the accounts made from it    *)
(* have it until they move, and the forms opened from it carry it.           *)
LinkAddress ==
  \A i \in Invite : i \notin edited =>
    /\ \A a \in DOMAIN accounts : accounts[a].invitation = i /\ a \notin moved
         => accounts[a].email = invitations[i].email
    /\ \A r \in Request : req[r] \in Offered /\ req[r].invite = i
         => req[r].offer.email = invitations[i].email
    /\ \A r \in Request : req[r] \in Filled /\ req[r].invite = i
         => req[r].row.email = invitations[i].email

(* Nothing comes from an invitation before it is sent.                       *)
UnsentUnused ==
  \A i \in Invite : invitations[i].state = "unsent" =>
    /\ \A a \in DOMAIN accounts : accounts[a].invitation # i
    /\ \A r \in Request :
         req[r] \in Offered \cup Filled => req[r].invite # i

IInv == /\ TypeOK
        /\ IdentifiersDistinct
        /\ RowsNameTheirInvitation
        /\ EditsKeepOrigin
        /\ OffersHaveAccount
        /\ AcceptedHasAccount
        /\ LinkAddress
        /\ UnsentUnused
        /\ OneAccountPerInvitation

---------------------------------------------------------------------------
(* Requests *)

(* The phase and operation of a request tell which record it is.             *)
LEMMA RequestShapes ==
  ASSUME TypeOK, NEW r \in Request
  PROVE  /\ req[r] # Idle /\ req[r].phase = "opened"
              /\ req[r].op \in {"accept", "edit_invitation"} => req[r] \in Offered
         /\ req[r].phase = "checked" /\ req[r].op = "accept" => req[r] \in Filled
         /\ req[r] # Idle /\ req[r].op \in {"profile", "edit_user"}
              => req[r] \in Edit
         /\ req[r].phase \in {"opened", "checked"} => req[r] # Idle
  BY DEF TypeOK, Idle, Offered, Filled, Edit

(* Names given out so far stay names as accounts are added.                  *)
LEMMA NamesGrow ==
  ASSUME TypeOK, NEW row \in Account, accounts' = Append(accounts, row)
  PROVE  Account \subseteq Account'
<1>1. Len(accounts') = Len(accounts) + 1 /\ Len(accounts) \in Nat
  BY DEF TypeOK
<1>2. SignUpName \subseteq SignUpName'
  BY <1>1 DEF SignUpName
<1> QED BY <1>2 DEF Account, AccountOf

(* Accounts of the same number keep the same names.                          *)
LEMMA NamesKept ==
  ASSUME Len(accounts') = Len(accounts)
  PROVE  Account' = Account
  BY DEF Account, AccountOf, SignUpName

(* The columns of an account have their types.                               *)
LEMMA AccountFields ==
  ASSUME NEW row \in Account
  PROVE  /\ row.email \in Email /\ row.invitation \in Invite \cup {NoInvite}
         /\ row.username \in SignUpName \cup TypedName
         /\ row.phone \in Phone \cup TypedPhone \cup {NoPhone}
         /\ ~row.typed => /\ row.username \in SignUpName
                          /\ row.phone \in Phone \cup {NoPhone}
  BY DEF Account, AccountOf

LEMMA AppendTyped ==
  ASSUME TypeOK, NEW row \in Account, accounts' = Append(accounts, row)
  PROVE  /\ accounts' \in Seq(Account')
         /\ Filled \subseteq Filled' /\ Edit \subseteq Edit'
<1>1. accounts \in Seq(Account') /\ row \in Account'
  BY NamesGrow DEF TypeOK
<1>2. Filled \subseteq Filled' /\ Edit \subseteq Edit'
  BY NamesGrow DEF Filled, Edit
<1> QED BY <1>1, <1>2

(* An action that leaves the accounts alone leaves the types alone.          *)
LEMMA SameAccountTypes ==
  ASSUME accounts' = accounts
  PROVE  Account' = Account /\ Filled' = Filled /\ Edit' = Edit
  BY NamesKept DEF Filled, Edit

(* Typing a step that leaves the accounts alone and sets one request.        *)
LEMMA RequestTyped ==
  ASSUME TypeOK, accounts' = accounts, NEW r \in Request,
         NEW q \in {Idle} \cup Offered \cup Filled \cup Edit,
         req' = [req EXCEPT ![r] = q], invitations' \in [Invite -> Invitation],
         moved' = moved, edited' \subseteq Invite
  PROVE  TypeOK'
  BY SameAccountTypes DEF TypeOK, Offered, Idle

LEMMA SendTyped ==
  ASSUME TypeOK, NEW i \in Invite, NEW e \in Email, Send(i, e)
  PROVE  TypeOK'
<1>1. invitations' \in [Invite -> Invitation]
  BY DEF Send, TypeOK, Invitation
<1> QED BY <1>1, SameAccountTypes DEF Send, TypeOK, Offered, Idle

(* A form submitted for an account, in the profile or in the admin site.     *)
FormStep(r) ==
  \/ \E e \in Email, p \in Phone \cup {NoPhone} : CheckProfile(r, e, p)
  \/ /\ req[r] # Idle /\ req[r].op = "edit_user"
     /\ \E name \in TypedName \cup {req[r].row.username}, e \in Email,
          p \in Phone \cup TypedPhone \cup {NoPhone} :
            CheckUserForm(r, name, e, p)

Filling(r, row) ==
  /\ req[r] \in Edit /\ req[r] # Idle
  /\ row.invitation = req[r].row.invitation
  /\ req' = [req EXCEPT ![r].phase = "checked", ![r].row = row]
  /\ UNCHANGED <<accounts, invitations, moved, edited>>

(* What a form may fill in is a row again: a text the site's own forms would *)
(* not take is there only because an admin typed it.                         *)
LEMMA FormCases ==
  ASSUME TypeOK, NEW r \in Request, FormStep(r)
  PROVE  \E row \in Account : Filling(r, row)
<1>1. ASSUME NEW e \in Email, NEW p \in Phone \cup {NoPhone}, CheckProfile(r, e, p)
      PROVE  \E row \in Account : Filling(r, row)
  <2> DEFINE old == req[r].row
             row == [old EXCEPT !.email = e, !.phone = p]
  <2>1. req[r] \in Edit /\ req[r] # Idle
    BY <1>1, RequestShapes DEF CheckProfile, CheckForm
  <2>2. old \in Account
    BY <2>1 DEF Edit
  <2>3. row \in Account /\ row.invitation = old.invitation
    BY <2>2 DEF Account, AccountOf
  <2> QED BY <1>1, <2>1, <2>3 DEF CheckProfile, CheckForm, Filling
<1>2. ASSUME NEW name \in TypedName \cup {req[r].row.username}, NEW e \in Email,
             NEW p \in Phone \cup TypedPhone \cup {NoPhone},
             req[r] # Idle, CheckUserForm(r, name, e, p)
      PROVE  \E row \in Account : Filling(r, row)
  <2> DEFINE old == req[r].row
             typed == old.typed \/ name # old.username \/ p # old.phone
             row == [old EXCEPT !.username = name, !.email = e, !.phone = p,
                                !.typed = typed]
  <2>1. req[r] \in Edit /\ req[r] # Idle
    BY <1>2, RequestShapes DEF CheckUserForm, CheckForm
  <2>2. old \in Account
    BY <2>1 DEF Edit
  <2>3. /\ row.username = name /\ row.email = e /\ row.phone = p
        /\ row.invitation = old.invitation /\ row.typed = typed
        /\ DOMAIN row = {"username", "email", "phone", "invitation", "typed"}
    BY <2>2 DEF Account, AccountOf
  <2>4. row \in Account
    <3>1. CASE typed
      <4>1. name \in SignUpName \cup TypedName
        BY <2>2, AccountFields
      <4> QED BY <2>2, <3>1, <4>1 DEF Account, AccountOf
    <3>2. CASE ~typed
      BY <2>2, <3>2 DEF Account, AccountOf
    <3> QED BY <3>1, <3>2
  <2> QED BY <1>2, <2>1, <2>3, <2>4 DEF CheckUserForm, CheckForm, Filling
<1> QED BY <1>1, <1>2 DEF FormStep

LEMMA TypeStep ==
  ASSUME TypeOK, [Next]_vars
  PROVE  TypeOK'
<1> USE ConstantsAssumption
<1>1. ASSUME NEW i \in Invite, NEW e \in Email,
             InviteUser(i, e) \/ InviteInAdmin(i, e)
      PROVE  TypeOK'
  BY <1>1, SendTyped DEF InviteUser, InviteInAdmin
<1>2. ASSUME NEW i \in Invite, Expire(i) \/ DeleteInvitation(i)
      PROVE  TypeOK'
  <2>1. invitations' \in [Invite -> Invitation]
    BY <1>2 DEF Expire, DeleteInvitation, TypeOK, Invitation
  <2> QED BY <1>2, <2>1, SameAccountTypes
          DEF Expire, DeleteInvitation, TypeOK, Offered, Idle
<1>3. ASSUME NEW r \in Request, NEW i \in Invite,
             OpenInvitation(r, i) \/ OpenInvitationForm(r, i)
      PROVE  TypeOK'
  <2>1. invitations[i] \in Invitation BY DEF TypeOK
  <2>2. PICK q \in Offered : req' = [req EXCEPT ![r] = q]
    BY <1>3, <2>1 DEF OpenInvitation, OpenInvitationForm, Offered
  <2> QED BY <1>3, <2>2, RequestTyped
          DEF OpenInvitation, OpenInvitationForm, TypeOK
<1>4. ASSUME NEW name \in TypedName, NEW e \in Email,
             NEW p \in Phone \cup TypedPhone \cup {NoPhone}, AddUser(name, e, p)
      PROVE  TypeOK'
  <2>1. PICK row \in Account : accounts' = Append(accounts, row)
    BY <1>4 DEF AddUser, Account, AccountOf
  <2> QED BY <1>4, <2>1, AppendTyped DEF AddUser, TypeOK, Offered, Idle
<1>5. ASSUME NEW r \in Request, NEW e \in Email, NEW expired \in BOOLEAN,
             SaveInvitationForm(r, e, expired)
      PROVE  TypeOK'
  <2>1. req[r] \in Offered
    BY <1>5, RequestShapes DEF SaveInvitationForm
  <2>2. EditedInvitation(req[r].offer, e, expired) \in Invitation
    BY <2>1 DEF EditedInvitation, Offered, Invitation
  <2>3. invitations' \in [Invite -> Invitation]
    BY <1>5, <2>2 DEF SaveInvitationForm, TypeOK
  <2>4. edited' \subseteq Invite
    BY <1>5, <2>1 DEF SaveInvitationForm, Offered, TypeOK
  <2> QED BY <1>5, <2>3, <2>4, RequestTyped DEF SaveInvitationForm
<1>6. ASSUME NEW r \in Request, NEW p \in Phone \cup {NoPhone},
             CheckSignUp(r, p)
      PROVE  TypeOK'
  <2>1. req[r] \in Offered
    BY <1>6, RequestShapes DEF CheckSignUp
  <2>2. PICK n \in 1..Len(accounts) + 1 :
          req' = [req EXCEPT ![r] =
            [phase |-> "checked", op |-> "accept", invite |-> req[r].invite,
             row |-> NewAccount(req[r], p, Name(req[r].offer.email, n))]]
    BY <1>6 DEF CheckSignUp
  <2>3. NewAccount(req[r], p, Name(req[r].offer.email, n)) \in Account
    BY <2>1 DEF NewAccount, Account, AccountOf, SignUpName, Offered, Invitation
  <2>4. [phase |-> "checked", op |-> "accept", invite |-> req[r].invite,
         row |-> NewAccount(req[r], p, Name(req[r].offer.email, n))] \in Filled
    BY <2>1, <2>3 DEF Filled, Offered
  <2> QED BY <1>6, <2>2, <2>4, RequestTyped DEF CheckSignUp, TypeOK
<1>7. ASSUME NEW r \in Request, CreateAccount(r)
      PROVE  TypeOK'
  <2>1. req[r] \in Filled
    BY <1>7, RequestShapes DEF CreateAccount
  <2>2. req[r].row \in Account /\ req[r].invite \in Invite
    BY <2>1 DEF Filled
  <2>3. CASE UNCHANGED <<accounts, invitations>>
    BY <1>7, <2>3, RequestTyped DEF CreateAccount, TypeOK
  <2>4. CASE accounts' = Append(accounts, req[r].row)
    <3>1. invitations' \in [Invite -> Invitation]
      BY <1>7, <2>2 DEF CreateAccount, TypeOK, Invitation
    <3> QED BY <1>7, <2>2, <2>4, <3>1, AppendTyped
            DEF CreateAccount, TypeOK, Offered, Idle
  <2> QED BY <1>7, <2>3, <2>4 DEF CreateAccount, Creates, Stamps
<1>8. ASSUME NEW r \in Request, NEW a \in DOMAIN accounts, NEW op \in Ops,
             OpenAccount(r, op, a)
      PROVE  TypeOK'
  <2>1. accounts[a] \in Account /\ a \in Nat \ {0} BY DEF TypeOK
  <2>2. [phase |-> "opened", op |-> op, id |-> a, row |-> accounts[a]] \in Edit
    BY <1>8, <2>1 DEF OpenAccount, Edit
  <2> QED BY <1>8, <2>2, RequestTyped DEF OpenAccount, TypeOK
<1>9. ASSUME NEW r \in Request, FormStep(r)
      PROVE  TypeOK'
  <2>1. PICK row \in Account : Filling(r, row)
    BY <1>9, FormCases
  <2>2. req' = [req EXCEPT ![r] = [req[r] EXCEPT !.phase = "checked", !.row = row]]
        /\ req[r] \in Edit
    BY <2>1 DEF Filling, TypeOK
  <2>3. [req[r] EXCEPT !.phase = "checked", !.row = row] \in Edit
    BY <2>2 DEF Edit
  <2> QED BY <2>1, <2>2, <2>3, RequestTyped DEF Filling, TypeOK
<1>10. ASSUME NEW r \in Request, SaveAccount(r)
       PROVE  TypeOK'
  <2>1. req[r] \in Edit
    BY <1>10, RequestShapes DEF SaveAccount
  <2>2. accounts' \in Seq(Account) /\ Len(accounts') = Len(accounts)
    BY <1>10, <2>1 DEF SaveAccount, TypeOK, Edit
  <2>3. moved' \subseteq Nat
    BY <1>10, <2>1 DEF SaveAccount, TypeOK, Edit
  <2> QED BY <1>10, <2>2, <2>3, NamesKept
          DEF SaveAccount, TypeOK, Offered, Filled, Edit, Idle
<1>11. ASSUME NEW r \in Request, Abandon(r)
       PROVE  TypeOK'
  BY <1>11, RequestTyped DEF Abandon, TypeOK
<1>12. CASE UNCHANGED vars
  BY <1>12, SameAccountTypes DEF vars, TypeOK, Offered, Idle
<1> QED BY <1>1, <1>2, <1>3, <1>4, <1>5, <1>6, <1>7, <1>8, <1>9, <1>10, <1>11,
           <1>12 DEF Next, FormStep

---------------------------------------------------------------------------
(* What a step does to the accounts *)

(* A sign-up or an addition: one more account, free of clashes.              *)
Added(row) == /\ accounts' = Append(accounts, row)
              /\ ~Clashes(row, 0)
              /\ moved' = moved /\ edited' = edited
              /\ row.invitation # NoInvite =>
                   /\ invitations'[row.invitation].accepted
                   /\ \E r \in Request : /\ req[r] \in Filled /\ req[r].row = row
                                         /\ req[r].invite = row.invitation

(* A saved edit: the account's row replaced, free of clashes.                *)
Replaced(id, row) == /\ accounts' = [accounts EXCEPT ![id] = row]
                     /\ ~Clashes(row, id)
                     /\ moved \subseteq moved'
                     /\ row.email # accounts[id].email => id \in moved'
                     /\ row.invitation = accounts[id].invitation

LEMMA CreateAdds ==
  ASSUME IInv, NEW r \in Request, CreateAccount(r), accounts' # accounts
  PROVE  req[r].row \in Account /\ Added(req[r].row)
<1>1. req[r] \in Filled
  BY RequestShapes DEF CreateAccount, IInv
<1>2. /\ req[r].row \in Account /\ req[r].row.invitation = req[r].invite
  BY <1>1 DEF Filled, IInv, RowsNameTheirInvitation
<1>3. /\ ~Clashes(req[r].row, 0)
      /\ accounts' = Append(accounts, req[r].row)
      /\ moved' = moved /\ edited' = edited
      /\ invitations' = [invitations EXCEPT ![req[r].invite].accepted = TRUE]
  BY DEF CreateAccount, Creates, Stamps
<1>4. invitations'[req[r].invite].accepted
  BY <1>1, <1>3 DEF Filled, IInv, TypeOK, Invitation
<1> QED BY <1>1, <1>2, <1>3, <1>4 DEF Added

LEMMA AccountsStep ==
  ASSUME IInv, [Next]_vars
  PROVE  \/ accounts' = accounts /\ moved' = moved
         \/ \E row \in Account : Added(row)
         \/ \E id \in DOMAIN accounts, row \in Account : Replaced(id, row)
<1> USE ConstantsAssumption
<1>1. ASSUME NEW name \in TypedName, NEW e \in Email,
             NEW p \in Phone \cup TypedPhone \cup {NoPhone}, AddUser(name, e, p)
      PROVE  \E row \in Account : Added(row)
  <2> DEFINE row == [username |-> name, email |-> e, phone |-> p,
                     invitation |-> NoInvite, typed |-> TRUE]
  <2>1. row \in Account
    BY <1>1 DEF Account, AccountOf
  <2>2. Added(row)
    BY <1>1 DEF AddUser, Added
  <2> QED BY <2>1, <2>2
<1>2. ASSUME NEW r \in Request, SaveAccount(r), accounts' # accounts
      PROVE  \E id \in DOMAIN accounts, row \in Account : Replaced(id, row)
  <2>1. req[r] \in Edit
    BY <1>2, RequestShapes DEF SaveAccount, IInv
  <2>2. /\ req[r].id \in DOMAIN accounts /\ req[r].row \in Account
        /\ req[r].row.invitation = accounts[req[r].id].invitation
    BY <2>1 DEF Edit, IInv, EditsKeepOrigin
  <2>3. Replaced(req[r].id, req[r].row)
    BY <1>2, <2>2 DEF SaveAccount, Replaced
  <2> QED BY <2>2, <2>3
<1>3. ASSUME NEW r \in Request, CreateAccount(r), accounts' # accounts
      PROVE  \E row \in Account : Added(row)
  BY <1>3, CreateAdds
<1>4. ASSUME NEW r \in Request, FormStep(r)
      PROVE  accounts' = accounts /\ moved' = moved
  BY <1>4, FormCases DEF Filling, IInv
<1>5. ASSUME NEW r \in Request, SaveAccount(r) \/ CreateAccount(r),
             accounts' = accounts
      PROVE  moved' = moved \/ \E id \in DOMAIN accounts, row \in Account :
                                  Replaced(id, row)
  <2>1. CASE CreateAccount(r)
    BY <2>1 DEF CreateAccount
  <2>2. CASE SaveAccount(r)
    <3>1. req[r] \in Edit
      BY <2>2, RequestShapes DEF SaveAccount, IInv
    <3>2. /\ req[r].id \in DOMAIN accounts /\ req[r].row \in Account
          /\ req[r].row.invitation = accounts[req[r].id].invitation
      BY <3>1 DEF Edit, IInv, EditsKeepOrigin
    <3>3. CASE Clashes(req[r].row, req[r].id)
      BY <2>2, <3>3 DEF SaveAccount
    <3>4. CASE ~Clashes(req[r].row, req[r].id)
      <4>1. Replaced(req[r].id, req[r].row)
        BY <2>2, <3>2, <3>4 DEF SaveAccount, Replaced
      <4> QED BY <3>2, <4>1
    <3> QED BY <3>3, <3>4
  <2> QED BY <1>5, <2>1, <2>2
<1> QED BY <1>1, <1>2, <1>3, <1>4, <1>5
        DEF Next, FormStep, vars, InviteUser, InviteInAdmin, Send, Expire,
            DeleteInvitation, OpenInvitation, OpenInvitationForm,
            SaveInvitationForm, CheckSignUp, OpenAccount, Abandon

(* Accounts are never removed and never change their origin.                 *)
LEMMA OriginKept ==
  ASSUME IInv, [Next]_vars, NEW a \in DOMAIN accounts
  PROVE  /\ a \in DOMAIN accounts'
         /\ accounts'[a].invitation = accounts[a].invitation
         /\ a \in moved => a \in moved'
         /\ accounts'[a].email # accounts[a].email => a \in moved'
<1>1. ASSUME NEW row \in Account, Added(row)
      PROVE  a \in DOMAIN accounts' /\ accounts'[a] = accounts[a] /\ moved' = moved
  BY <1>1 DEF Added, IInv, TypeOK
<1>2. ASSUME NEW id \in DOMAIN accounts, NEW row \in Account, Replaced(id, row)
      PROVE  /\ a \in DOMAIN accounts'
             /\ accounts'[a].invitation = accounts[a].invitation
             /\ a \in moved => a \in moved'
             /\ accounts'[a].email # accounts[a].email => a \in moved'
  BY <1>2 DEF Replaced, IInv, TypeOK
<1> QED BY <1>1, <1>2, AccountsStep

LEMMA DistinctStep ==
  ASSUME IInv, [Next]_vars
  PROVE  IdentifiersDistinct'
<1>1. ASSUME NEW row \in Account, Added(row)
      PROVE  IdentifiersDistinct'
  <2>1. /\ DOMAIN accounts' = DOMAIN accounts \cup {Len(accounts) + 1}
        /\ \A a \in DOMAIN accounts : accounts'[a] = accounts[a] /\ a # 0
        /\ accounts'[Len(accounts) + 1] = row
    BY <1>1 DEF Added, IInv, TypeOK
  <2>2. \A a \in DOMAIN accounts :
          /\ accounts[a].username # row.username
          /\ accounts[a].email # row.email
          /\ row.phone # NoPhone => accounts[a].phone # row.phone
    BY <1>1, <2>1 DEF Added, Clashes, Others
  <2> QED BY <2>1, <2>2 DEF IInv, IdentifiersDistinct
<1>2. ASSUME NEW id \in DOMAIN accounts, NEW row \in Account, Replaced(id, row)
      PROVE  IdentifiersDistinct'
  <2>1. /\ DOMAIN accounts' = DOMAIN accounts
        /\ accounts'[id] = row
        /\ \A a \in DOMAIN accounts : a # id => accounts'[a] = accounts[a]
    BY <1>2 DEF Replaced, IInv, TypeOK
  <2>2. \A a \in DOMAIN accounts : a # id =>
          /\ accounts[a].username # row.username
          /\ accounts[a].email # row.email
          /\ row.phone # NoPhone => accounts[a].phone # row.phone
    BY <1>2 DEF Replaced, Clashes, Others
  <2> QED BY <2>1, <2>2 DEF IInv, IdentifiersDistinct
<1> QED BY <1>1, <1>2, AccountsStep DEF IInv, IdentifiersDistinct

---------------------------------------------------------------------------
(* What a step does to the requests *)

(* A request is left alone, ends, opens on a row as it is, or moves on with  *)
(* the row it carries; edits keep the origin of the row they carry.          *)
LEMMA RequestStep ==
  ASSUME IInv, [Next]_vars, NEW r \in Request
  PROVE  \/ req'[r] = req[r]
         \/ req'[r] = Idle
         \/ \E i \in Invite :
              /\ req'[r] \in Offered /\ req'[r].invite = i
              /\ req'[r].offer = invitations[i] /\ accounts' = accounts
              /\ invitations' = invitations /\ invitations[i].state = "sent"
         \/ /\ req'[r].phase = "checked" /\ req'[r].op = "accept"
            /\ req'[r].row.invitation = req'[r].invite
            /\ req[r] \in Offered /\ req[r].invite = req'[r].invite
            /\ req'[r].row.email = req[r].offer.email
         \/ \E a \in DOMAIN accounts :
              /\ req'[r].op \in {"profile", "edit_user"}
              /\ accounts' = accounts /\ req'[r].id = a
              /\ req'[r].row.invitation = accounts[a].invitation
<1> USE ConstantsAssumption
<1>1. ASSUME NEW q \in Request, NEW i \in Invite,
             OpenInvitation(q, i) \/ OpenInvitationForm(q, i)
      PROVE  \/ req'[r] = req[r]
             \/ /\ req'[r] \in Offered /\ req'[r].invite = i
                /\ req'[r].offer = invitations[i] /\ accounts' = accounts
                /\ invitations' = invitations /\ invitations[i].state = "sent"
  <2>1. req \in [Request -> {Idle} \cup Offered \cup Filled \cup Edit]
        /\ invitations[i] \in Invitation
    BY DEF IInv, TypeOK
  <2> QED BY <1>1, <2>1 DEF OpenInvitation, OpenInvitationForm, Offered, IsValid
<1>2. ASSUME NEW q \in Request, NEW p \in Phone \cup {NoPhone}, CheckSignUp(q, p)
      PROVE  \/ req'[r] = req[r]
             \/ /\ req'[r].phase = "checked" /\ req'[r].op = "accept"
                /\ req'[r].row.invitation = req'[r].invite
                /\ req[r] \in Offered /\ req[r].invite = req'[r].invite
                /\ req'[r].row.email = req[r].offer.email
  <2>1. req[q] \in Offered
    BY <1>2, RequestShapes DEF CheckSignUp, IInv
  <2> QED BY <1>2, <2>1 DEF CheckSignUp, NewAccount, IInv, TypeOK
<1>3. ASSUME NEW q \in Request, NEW a \in DOMAIN accounts, NEW op \in Ops,
             OpenAccount(q, op, a)
      PROVE  \/ req'[r] = req[r]
             \/ /\ req'[r].op \in {"profile", "edit_user"}
                /\ accounts' = accounts /\ req'[r].id = a
                /\ req'[r].row.invitation = accounts[a].invitation
  BY <1>3 DEF OpenAccount, IInv, TypeOK
<1>4. ASSUME NEW q \in Request, FormStep(q)
      PROVE  \/ req'[r] = req[r]
             \/ /\ req'[r].op \in {"profile", "edit_user"}
                /\ accounts' = accounts /\ req[r].id \in DOMAIN accounts
                /\ req'[r].id = req[r].id
                /\ req'[r].row.invitation = accounts[req[r].id].invitation
  <2>1. PICK row \in Account : Filling(q, row)
    BY <1>4, FormCases DEF IInv
  <2>2. /\ req[q].id \in DOMAIN accounts
        /\ req[q].row.invitation = accounts[req[q].id].invitation
    BY <2>1 DEF Filling, IInv, EditsKeepOrigin
  <2>3. req' = [req EXCEPT ![q] = [req[q] EXCEPT !.phase = "checked", !.row = row]]
    BY <2>1 DEF Filling, IInv, TypeOK
  <2>4. [req[q] EXCEPT !.phase = "checked", !.row = row].row = row
        /\ [req[q] EXCEPT !.phase = "checked", !.row = row].id = req[q].id
        /\ [req[q] EXCEPT !.phase = "checked", !.row = row].op
             \in {"profile", "edit_user"}
    BY <2>1 DEF Filling, Edit
  <2> QED BY <2>1, <2>2, <2>3, <2>4 DEF Filling, IInv, TypeOK
<1>5. ASSUME NEW q \in Request,
             \/ CreateAccount(q) \/ SaveAccount(q) \/ Abandon(q)
             \/ \E e \in Email, expired \in BOOLEAN :
                  SaveInvitationForm(q, e, expired)
      PROVE  req'[r] = req[r] \/ req'[r] = Idle
  BY <1>5 DEF CreateAccount, SaveAccount, Abandon, SaveInvitationForm, IInv, TypeOK
<1>6. ASSUME \/ \E i \in Invite, e \in Email : InviteUser(i, e) \/ InviteInAdmin(i, e)
             \/ \E i \in Invite : Expire(i) \/ DeleteInvitation(i)
             \/ \E name \in TypedName, e \in Email,
                   p \in Phone \cup TypedPhone \cup {NoPhone} : AddUser(name, e, p)
             \/ UNCHANGED vars
      PROVE  req' = req
  BY <1>6 DEF InviteUser, InviteInAdmin, Send, Expire, DeleteInvitation,
              AddUser, vars
<1> QED BY <1>1, <1>2, <1>3, <1>4, <1>5, <1>6 DEF Next, FormStep

LEMMA CarriedStep ==
  ASSUME IInv, [Next]_vars
  PROVE  RowsNameTheirInvitation' /\ EditsKeepOrigin' /\ OffersHaveAccount'
<1> SUFFICES ASSUME NEW r \in Request
             PROVE  /\ (req[r] \in Filled =>
                          req[r].row.invitation = req[r].invite)'
                    /\ (req[r] \in Edit =>
                          /\ req[r].id \in DOMAIN accounts
                          /\ req[r].row.invitation
                               = accounts[req[r].id].invitation)'
                    /\ (req[r] \in Offered /\ req[r].offer.accepted =>
                          \E a \in DOMAIN accounts :
                            accounts[a].invitation = req[r].invite)'
  BY DEF RowsNameTheirInvitation, EditsKeepOrigin, OffersHaveAccount
<1>1. CASE req'[r] = req[r]
  <2>1. /\ req'[r] \in Filled' => req[r] \in Filled
        /\ req'[r] \in Edit' => req[r] \in Edit
        /\ req'[r] \in Offered' => req[r] \in Offered
    BY <1>1 DEF IInv, TypeOK, Filled, Edit, Offered, Idle
  <2>2. req[r] \in Filled => req[r].row.invitation = req[r].invite
    BY DEF IInv, RowsNameTheirInvitation
  <2>3. req[r] \in Edit =>
          /\ req[r].id \in DOMAIN accounts
          /\ req[r].row.invitation = accounts[req[r].id].invitation
    BY DEF IInv, EditsKeepOrigin
  <2>4. req[r] \in Offered /\ req[r].offer.accepted =>
          \E a \in DOMAIN accounts : accounts[a].invitation = req[r].invite
    BY DEF IInv, OffersHaveAccount
  <2> QED BY <1>1, <2>1, <2>2, <2>3, <2>4, OriginKept
<1>2. CASE req'[r] = Idle
  BY <1>2 DEF Filled, Edit, Offered, Idle
<1>3. ASSUME NEW i \in Invite, req'[r] \in Offered, req'[r].invite = i,
             req'[r].offer = invitations[i], accounts' = accounts
      PROVE  /\ req'[r] \notin Filled' /\ req'[r] \notin Edit'
             /\ req'[r].offer.accepted =>
                  \E a \in DOMAIN accounts' : accounts'[a].invitation = i
  BY <1>3 DEF IInv, AcceptedHasAccount, Made, Offered, Filled, Edit
<1>4. ASSUME req'[r].phase = "checked", req'[r].op = "accept",
             req'[r].row.invitation = req'[r].invite
      PROVE  req'[r] \notin Offered' /\ req'[r] \notin Edit'
  BY <1>4 DEF Offered, Edit
<1>5. ASSUME req'[r].op \in {"profile", "edit_user"}
      PROVE  req'[r] \notin Offered' /\ req'[r] \notin Filled'
  BY <1>5 DEF Offered, Filled
<1> QED BY <1>1, <1>2, <1>3, <1>4, <1>5, RequestStep

---------------------------------------------------------------------------
(* What a step does to the invitations *)

(* An invitation turns accepted by a sign-up that adds its account or by a   *)
(* saved form that had read it accepted.                                     *)
LEMMA AcceptedStep ==
  ASSUME IInv, [Next]_vars, NEW i \in Invite, invitations'[i].accepted
  PROVE  \E a \in DOMAIN accounts' : accounts'[a].invitation = i
<1> DEFINE HasAccount == \E a \in DOMAIN accounts : accounts[a].invitation = i
<1>1. SUFFICES ASSUME ~HasAccount
               PROVE  \E a \in DOMAIN accounts' : accounts'[a].invitation = i
  BY OriginKept
<1>2. ~invitations[i].accepted
  BY <1>1 DEF IInv, AcceptedHasAccount, Made
<1>3. ASSUME NEW j \in Invite,
             (\E e \in Email : Send(j, e)) \/ Expire(j) \/ DeleteInvitation(j)
      PROVE  FALSE
  <2>1. invitations'[i].accepted = invitations[i].accepted
    BY <1>3 DEF Send, Expire, DeleteInvitation, IInv, TypeOK, Invitation
  <2> QED BY <1>2, <2>1
<1>4. ASSUME NEW r \in Request, NEW e \in Email, NEW expired \in BOOLEAN,
             SaveInvitationForm(r, e, expired)
      PROVE  FALSE
  <2>1. req[r] \in Offered
    BY <1>4, RequestShapes DEF SaveInvitationForm, IInv
  <2>2. req[r].invite # i \/ ~req[r].offer.accepted
    BY <1>1, <2>1 DEF IInv, OffersHaveAccount
  <2>3. invitations'[i].accepted =>
          invitations[i].accepted \/ (req[r].invite = i /\ req[r].offer.accepted)
    BY <1>4, <2>1 DEF SaveInvitationForm, EditedInvitation, IInv, TypeOK, Offered
  <2> QED BY <1>2, <2>2, <2>3
<1>5. ASSUME NEW r \in Request, CreateAccount(r)
      PROVE  \E a \in DOMAIN accounts' : accounts'[a].invitation = i
  <2>1. req[r] \in Filled
    BY <1>5, RequestShapes DEF CreateAccount, IInv
  <2>2. /\ accounts' = Append(accounts, req[r].row)
        /\ invitations' = [invitations EXCEPT ![req[r].invite].accepted = TRUE]
    BY <1>2, <1>5 DEF CreateAccount, Creates
  <2>3. req[r].invite = i
    BY <1>2, <2>1, <2>2 DEF IInv, TypeOK, Filled
  <2>4. req[r].row.invitation = i
    BY <2>1, <2>3 DEF IInv, RowsNameTheirInvitation
  <2>5. /\ Len(accounts) + 1 \in DOMAIN accounts'
        /\ accounts'[Len(accounts) + 1] = req[r].row
    BY <2>2 DEF IInv, TypeOK
  <2> QED BY <2>4, <2>5
<1>6. ASSUME invitations' = invitations
      PROVE  FALSE
  BY <1>2, <1>6
<1>7. ASSUME NEW e \in Email, Fold(e) \in Email
      PROVE  \A j \in Invite : InviteUser(j, e) \/ InviteInAdmin(j, e) =>
               \E f \in Email : Send(j, f)
  BY <1>7 DEF InviteUser, InviteInAdmin
<1> QED BY <1>3, <1>4, <1>5, <1>6, <1>7, ConstantsAssumption
        DEF Next, vars, OpenInvitation, OpenInvitationForm, AddUser, CheckSignUp,
            OpenAccount, CheckProfile, CheckUserForm, CheckForm, SaveAccount,
            Abandon

(* An invitation gets its address when it is sent, keeps it until an admin   *)
(* saves it, and so it does its stamp; it is never unsent again.             *)
LEMMA InvitationStep ==
  ASSUME IInv, [Next]_vars, NEW i \in Invite
  PROVE  /\ edited \subseteq edited'
         /\ invitations'[i].state = "unsent" => invitations[i].state = "unsent"
         /\ i \in edited' \/ (invitations[i].accepted => invitations'[i].accepted)
         /\ \/ i \in edited'
            \/ invitations'[i].email = invitations[i].email
            \/ /\ invitations[i].state = "unsent"
               /\ accounts' = accounts /\ req' = req
<1> USE ConstantsAssumption
<1> DEFINE Concl == /\ edited \subseteq edited'
                    /\ invitations'[i].state = "unsent" =>
                         invitations[i].state = "unsent"
                    /\ \/ i \in edited'
                       \/ invitations[i].accepted => invitations'[i].accepted
                    /\ \/ i \in edited'
                       \/ invitations'[i].email = invitations[i].email
                       \/ /\ invitations[i].state = "unsent"
                          /\ accounts' = accounts /\ req' = req
<1>1. ASSUME NEW j \in Invite, (\E e \in Email : Send(j, e)) PROVE Concl
  BY <1>1 DEF Send, IInv, TypeOK, Invitation
<1>2. ASSUME NEW j \in Invite, Expire(j) \/ DeleteInvitation(j) PROVE Concl
  BY <1>2 DEF Expire, DeleteInvitation, IInv, TypeOK, Invitation
<1>3. ASSUME NEW r \in Request, NEW e \in Email, NEW expired \in BOOLEAN,
             SaveInvitationForm(r, e, expired)
      PROVE  Concl
  <2>1. req[r] \in Offered
    BY <1>3, RequestShapes DEF SaveInvitationForm, IInv
  <2> QED BY <1>3, <2>1 DEF SaveInvitationForm, EditedInvitation, IInv, TypeOK,
                            Offered
<1>4. ASSUME NEW r \in Request, CreateAccount(r) PROVE Concl
  BY <1>4 DEF CreateAccount, IInv, TypeOK, Invitation
<1>5. ASSUME UNCHANGED <<invitations, edited>> PROVE Concl
  BY <1>5
<1>6. ASSUME NEW j \in Invite, NEW e \in Email,
             InviteUser(j, e) \/ InviteInAdmin(j, e)
      PROVE  \E f \in Email : Send(j, f)
  BY <1>6 DEF InviteUser, InviteInAdmin
<1>7. ASSUME NEW r \in Request, FormStep(r) PROVE UNCHANGED <<invitations, edited>>
  BY <1>7, FormCases DEF Filling, IInv
<1> QED BY <1>1, <1>2, <1>3, <1>4, <1>5, <1>6, <1>7
        DEF Next, FormStep, vars, OpenInvitation, OpenInvitationForm, AddUser,
            CheckSignUp, OpenAccount, SaveAccount, Abandon

(* A request that carries an offer or a new account after a step had it, or  *)
(* read it in this step.                                                     *)
LEMMA CarriesStep ==
  ASSUME IInv, [Next]_vars, NEW r \in Request
  PROVE  \/ req'[r] = req[r]
         \/ req'[r] \notin Offered' /\ req'[r] \notin Filled'
         \/ \E i \in Invite :
              /\ req'[r] \in Offered /\ req'[r].invite = i
              /\ req'[r].offer = invitations[i]
              /\ invitations' = invitations /\ invitations[i].state = "sent"
         \/ /\ req'[r] \notin Offered'
            /\ req[r] \in Offered /\ req[r].invite = req'[r].invite
            /\ req'[r].row.email = req[r].offer.email
<1>1. ASSUME req'[r] = Idle
      PROVE  req'[r] \notin Offered' /\ req'[r] \notin Filled'
  BY <1>1 DEF Filled, Offered, Idle
<1>2. ASSUME req'[r].phase = "checked" PROVE req'[r] \notin Offered'
  BY <1>2 DEF Offered
<1>3. ASSUME req'[r].op \in {"profile", "edit_user"}
      PROVE  req'[r] \notin Offered' /\ req'[r] \notin Filled'
  BY <1>3 DEF Offered, Filled
<1> QED BY <1>1, <1>2, <1>3, RequestStep

LEMMA SameCarried ==
  ASSUME IInv, [Next]_vars, NEW r \in Request, req'[r] = req[r]
  PROVE  /\ req'[r] \in Offered' => req[r] \in Offered
         /\ req'[r] \in Filled' => req[r] \in Filled
  BY DEF IInv, TypeOK, Filled, Edit, Offered, Idle

LEMMA LinkStep ==
  ASSUME IInv, [Next]_vars
  PROVE  LinkAddress'
<1> SUFFICES ASSUME NEW i \in Invite, i \notin edited'
             PROVE  /\ (\A a \in DOMAIN accounts :
                          accounts[a].invitation = i /\ a \notin moved
                            => accounts[a].email = invitations[i].email)'
                    /\ (\A r \in Request : req[r] \in Offered /\ req[r].invite = i
                          => req[r].offer.email = invitations[i].email)'
                    /\ (\A r \in Request : req[r] \in Filled /\ req[r].invite = i
                          => req[r].row.email = invitations[i].email)'
  BY DEF LinkAddress
<1>1. /\ i \notin edited
      /\ \/ invitations'[i].email = invitations[i].email
         \/ /\ invitations[i].state = "unsent"
            /\ accounts' = accounts /\ req' = req
  BY InvitationStep
<1>2. /\ \A a \in DOMAIN accounts : accounts[a].invitation = i /\ a \notin moved
           => accounts[a].email = invitations[i].email
      /\ \A r \in Request : req[r] \in Offered /\ req[r].invite = i
           => req[r].offer.email = invitations[i].email
      /\ \A r \in Request : req[r] \in Filled /\ req[r].invite = i
           => req[r].row.email = invitations[i].email
  BY <1>1 DEF IInv, LinkAddress
<1>3. CASE invitations[i].state = "unsent" /\ accounts' = accounts /\ req' = req
  <2>1. /\ \A a \in DOMAIN accounts' : accounts'[a].invitation # i
        /\ \A r \in Request : req[r] \in Offered \cup Filled => req[r].invite # i
    BY <1>3 DEF IInv, UnsentUnused
  <2>2. ASSUME NEW r \in Request, req'[r] \in Offered' \/ req'[r] \in Filled'
        PROVE  req'[r].invite # i
    BY <1>3, <2>1, <2>2, SameCarried
  <2> QED BY <2>1, <2>2
<1>4. CASE invitations'[i].email = invitations[i].email
  <2>1. ASSUME NEW a \in DOMAIN accounts', accounts'[a].invitation = i, a \notin moved'
        PROVE  accounts'[a].email = invitations'[i].email
    <3>1. CASE a \in DOMAIN accounts
      BY <1>2, <1>4, <2>1, <3>1, OriginKept
    <3>2. CASE a \notin DOMAIN accounts
      <4>1. PICK row \in Account : Added(row)
        BY <2>1, <3>2, AccountsStep DEF Replaced, IInv, TypeOK
      <4>2. accounts'[a] = row
        BY <2>1, <3>2, <4>1 DEF Added, IInv, TypeOK
      <4>3. PICK r \in Request : req[r] \in Filled /\ req[r].row = row
                                 /\ req[r].invite = i
        BY <2>1, <4>1, <4>2, ConstantsAssumption DEF Added
      <4> QED BY <1>2, <1>4, <4>2, <4>3
    <3> QED BY <3>1, <3>2
  <2>2. ASSUME NEW r \in Request, req'[r] \in Offered', req'[r].invite = i
        PROVE  req'[r].offer.email = invitations'[i].email
    <3>1. CASE req'[r] = req[r]
      BY <1>2, <1>4, <2>2, <3>1, SameCarried
    <3> QED BY <1>4, <2>2, <3>1, CarriesStep
  <2>3. ASSUME NEW r \in Request, req'[r] \in Filled', req'[r].invite = i
        PROVE  req'[r].row.email = invitations'[i].email
    <3>1. CASE req'[r] = req[r]
      BY <1>2, <1>4, <2>3, <3>1, SameCarried
    <3>2. req'[r] \notin Offered
      BY <2>3 DEF Filled, Offered
    <3> QED BY <1>2, <1>4, <2>3, <3>1, <3>2, CarriesStep
  <2> QED BY <2>1, <2>2, <2>3
<1> QED BY <1>1, <1>3, <1>4

(* An account comes with the stamp on its invitation.                        *)
LEMMA StampedStep ==
  ASSUME IInv, [Next]_vars, NEW i \in Invite, i \notin edited',
         NEW a \in DOMAIN accounts', accounts'[a].invitation = i
  PROVE  invitations'[i].accepted
<1>1. i \notin edited /\ (invitations[i].accepted => invitations'[i].accepted)
  BY InvitationStep
<1>2. CASE a \in DOMAIN accounts
  <2>1. accounts[a].invitation = i
    BY <1>2, OriginKept
  <2> QED BY <1>1, <1>2, <2>1 DEF IInv, AcceptedHasAccount, Made
<1>3. CASE a \notin DOMAIN accounts
  <2>1. PICK row \in Account : Added(row)
    BY <1>3, AccountsStep DEF Replaced, IInv, TypeOK
  <2>2. accounts'[a] = row
    BY <1>3, <2>1 DEF Added, IInv, TypeOK
  <2> QED BY <2>1, <2>2, ConstantsAssumption DEF Added
<1> QED BY <1>2, <1>3

LEMMA AcceptedKept == ASSUME IInv, [Next]_vars PROVE AcceptedHasAccount'
  BY AcceptedStep, StampedStep DEF AcceptedHasAccount, Made

LEMMA UnusedStep ==
  ASSUME IInv, [Next]_vars
  PROVE  UnsentUnused'
<1> SUFFICES ASSUME NEW i \in Invite, invitations'[i].state = "unsent"
             PROVE  /\ \A a \in DOMAIN accounts' : accounts'[a].invitation # i
                    /\ \A r \in Request :
                         req'[r] \in Offered' \cup Filled' => req'[r].invite # i
  BY DEF UnsentUnused
<1>1. /\ invitations[i].state = "unsent"
      /\ \A a \in DOMAIN accounts : accounts[a].invitation # i
      /\ \A r \in Request : req[r] \in Offered \cup Filled => req[r].invite # i
  BY InvitationStep DEF IInv, UnsentUnused
<1>2. ASSUME NEW a \in DOMAIN accounts', accounts'[a].invitation = i
      PROVE  FALSE
  <2>1. CASE a \in DOMAIN accounts
    BY <1>1, <1>2, <2>1, OriginKept
  <2>2. CASE a \notin DOMAIN accounts
    <3>1. PICK row \in Account : Added(row)
      BY <1>2, <2>2, AccountsStep DEF Replaced, IInv, TypeOK
    <3>2. accounts'[a] = row
      BY <1>2, <2>2, <3>1 DEF Added, IInv, TypeOK
    <3> QED BY <1>1, <1>2, <3>1, <3>2, ConstantsAssumption DEF Added
  <2> QED BY <2>1, <2>2
<1>3. ASSUME NEW r \in Request, req'[r] \in Offered' \cup Filled', req'[r].invite = i
      PROVE  FALSE
  <2>1. CASE req'[r] = req[r]
    BY <1>1, <1>3, <2>1, SameCarried
  <2> QED BY <1>1, <1>3, <2>1, CarriesStep
<1> QED BY <1>2, <1>3

(* The second account of a link would clash with the first one's address.    *)
LEMMA OneAccountStep ==
  ASSUME IInv, [Next]_vars
  PROVE  OneAccountPerInvitation'
<1> SUFFICES ASSUME NEW a \in DOMAIN accounts', NEW b \in DOMAIN accounts', a < b,
                    accounts'[a].invitation = accounts'[b].invitation,
                    accounts'[a].invitation \notin {NoInvite} \cup edited'
             PROVE  a \in moved'
  BY DEF OneAccountPerInvitation
<1> DEFINE i == accounts'[a].invitation
<1>1. CASE a \in DOMAIN accounts /\ b \in DOMAIN accounts
  <2>1. /\ accounts[a].invitation = i /\ accounts[b].invitation = i
        /\ accounts[a] \in Account
    BY <1>1, OriginKept DEF IInv, TypeOK
  <2>2. i \in Invite
    BY <2>1, AccountFields
  <2>3. i \notin edited
    BY <2>2, InvitationStep
  <2>4. a \in moved
    BY <1>1, <2>1, <2>3 DEF IInv, OneAccountPerInvitation
  <2> QED BY <1>1, <2>4, OriginKept
<1>2. CASE ~(a \in DOMAIN accounts /\ b \in DOMAIN accounts)
  <2>1. PICK row \in Account : Added(row)
    BY <1>2, AccountsStep DEF Replaced, IInv, TypeOK
  <2>2. /\ a \in DOMAIN accounts /\ accounts'[a] = accounts[a] /\ a # 0
        /\ accounts'[b] = row
    BY <1>2, <2>1 DEF Added, IInv, TypeOK
  <2>3. i = row.invitation /\ i \in Invite /\ i \notin edited
    BY <2>1, <2>2, AccountFields DEF Added
  <2>4. PICK r \in Request : req[r] \in Filled /\ req[r].row = row
                             /\ req[r].invite = i
    BY <2>1, <2>3 DEF Added
  <2>5. row.email = invitations[i].email
    BY <2>3, <2>4 DEF IInv, LinkAddress
  <2>6. accounts[a].email # row.email
    BY <2>1, <2>2 DEF Added, Clashes, Others
  <2>7. a \in moved
    BY <2>2, <2>3, <2>5, <2>6 DEF IInv, LinkAddress
  <2> QED BY <2>1, <2>7 DEF Added
<1> QED BY <1>1, <1>2

---------------------------------------------------------------------------
(* Identifier resolution *)

(* A non-empty set of ids has a smallest one: its down-sets are finite, and  *)
(* the smallest id has the smallest.                                         *)
LEMMA Least ==
  ASSUME NEW S \in SUBSET Nat, S # {}
  PROVE  \E m \in S : \A k \in S : m <= k
<1> DEFINE T == {0..k : k \in S}
<1>1. T \subseteq FiniteSubsetsOf(Nat)
  <2>1. ASSUME NEW k \in S
        PROVE  0..k \in SUBSET Nat /\ IsFiniteSet(0..k)
    <3>1. k \in Int /\ 0 \in Int
      OBVIOUS
    <3> QED BY <3>1, FS_Interval
  <2> QED BY <2>1 DEF FiniteSubsetsOf
<1>2. T # {}
  OBVIOUS
<1>3. IsWellFoundedOn(StrictSubsetOrdering(Nat), FiniteSubsetsOf(Nat))
  BY FS_StrictSubsetOrderingWellFounded
<1>4. PICK x \in T : \A y \in T : <<y, x>> \notin StrictSubsetOrdering(Nat)
  BY <1>1, <1>2, <1>3, WFMin
<1>5. PICK m \in S : x = 0..m
  OBVIOUS
<1>6. ASSUME NEW k \in S, k < m
      PROVE  FALSE
  <2>1. 0..k \in T /\ 0..k \in SUBSET Nat /\ 0..m \in SUBSET Nat
    OBVIOUS
  <2>2. 0..k \subseteq 0..m /\ m \in 0..m /\ m \notin 0..k
    BY <1>6
  <2>3. <<0..k, 0..m>> \in StrictSubsetOrdering(Nat)
    BY <2>1, <2>2 DEF StrictSubsetOrdering
  <2> QED BY <1>4, <1>5, <2>1, <2>3
<1> QED BY <1>6

(* An identifier that matches an account resolves to an account it matches.  *)
LEMMA ResolveMatches ==
  ASSUME TypeOK, NEW text, NEW a \in DOMAIN accounts, Matches(text, a)
  PROVE  Resolve(text) \in DOMAIN accounts /\ Matches(text, Resolve(text))
<1> DEFINE hits == {b \in DOMAIN accounts : Matches(text, b)}
<1>1. hits # {} /\ hits \in SUBSET Nat
  BY DEF TypeOK
<1>2. \E b \in hits : \A c \in hits : b <= c
  BY <1>1, Least
<1>3. Resolve(text) = CHOOSE b \in hits : \A c \in hits : b <= c
  BY <1>1 DEF Resolve
<1>4. Resolve(text) \in hits
  BY <1>2, <1>3
<1> QED BY <1>4

(* What addresses, names and numbers look like: neither a username made from *)
(* an address nor a phone number of the forms can be read as an address.     *)
AddressesApart ==
  /\ \A e, f \in Email : \A n \in Nat \ {0} : Fold(Name(e, n)) # Fold(f)
  /\ \A e \in Email : e \notin Phone \cup {NoPhone}

---------------------------------------------------------------------------
(* The theorems *)

(* The inductive invariant holds in every reachable state.                   *)
THEOREM Invariance == Spec => []IInv
<1>1. Init => IInv
  <2> SUFFICES ASSUME Init PROVE IInv OBVIOUS
  <2>1. Unsent \in Invitation /\ ~Unsent.accepted
    BY ConstantsAssumption DEF Unsent, Invitation
  <2>2. TypeOK
    BY <2>1 DEF Init, TypeOK, Idle
  <2>3. \A r \in Request :
          req[r] \notin Offered /\ req[r] \notin Filled /\ req[r] \notin Edit
    BY DEF Init, Idle, Offered, Filled, Edit
  <2> QED BY <2>1, <2>2, <2>3
          DEF Init, IInv, IdentifiersDistinct, RowsNameTheirInvitation,
              EditsKeepOrigin, OffersHaveAccount, AcceptedHasAccount, Made,
              LinkAddress, UnsentUnused, OneAccountPerInvitation
<1>2. IInv /\ [Next]_vars => IInv'
  BY TypeStep, DistinctStep, CarriedStep, AcceptedKept, LinkStep, UnusedStep,
     OneAccountStep DEF IInv
<1> QED BY <1>1, <1>2, PTL DEF Spec

(* Rows, invitations and requests have their types in every reachable state. *)
THEOREM TypeCorrect == Spec => []TypeOK
  BY Invariance, PTL DEF IInv

(* However requests overlap, identifiers never become shared.                *)
THEOREM IdentifiersStayDistinct == Spec => []IdentifiersDistinct
  BY Invariance, PTL DEF IInv

(* An accepted invitation has an account, and an account the stamp on its    *)
(* invitation unless the admin form was saved over it (base.py:45).          *)
THEOREM AcceptanceMeansAccount == Spec => []AcceptedHasAccount
  BY Invariance, PTL DEF IInv

(* Signing in with an address finds an account that has it, or one an admin  *)
(* gave that text as a username or phone, with any number of accounts and    *)
(* whatever admins type (backends.py:27-42).  Only the texts sign-up and the *)
(* profile form make are assumed not to look like addresses.                 *)
THEOREM AddressesReachHolders ==
  ASSUME AddressesApart
  PROVE  Spec => []AddressReachesItsHolder
<1>1. TypeOK => AddressReachesItsHolder
  <2> SUFFICES ASSUME TypeOK, NEW a \in DOMAIN accounts
               PROVE  LET b == Resolve(accounts[a].email)
                      IN \/ Fold(accounts[b].email) = Fold(accounts[a].email)
                         \/ GivenByAdmin(accounts[a].email, b)
    BY DEF AddressReachesItsHolder
  <2> DEFINE text == accounts[a].email
             b == Resolve(text)
  <2>1. b \in DOMAIN accounts /\ Matches(text, b)
    BY ResolveMatches DEF Matches
  <2>2. accounts[a] \in Account /\ accounts[b] \in Account
    BY <2>1 DEF TypeOK
  <2> HIDE DEF b
  <2>3. text \in Email
    BY <2>2, AccountFields
  <2>4. accounts[b].typed
        \/ (accounts[b].username \in SignUpName
             /\ accounts[b].phone \in Phone \cup {NoPhone})
    BY <2>2, AccountFields
  <2>5. accounts[b].username \in SignUpName =>
          Fold(accounts[b].username) # Fold(text)
    <3>1. Len(accounts) \in Nat
      BY DEF TypeOK
    <3> SUFFICES ASSUME accounts[b].username \in SignUpName
                 PROVE  Fold(accounts[b].username) # Fold(text)
      OBVIOUS
    <3>2. PICK e \in Email, n \in 1..Len(accounts) + 1 :
            accounts[b].username = Name(e, n)
      BY DEF SignUpName
    <3>3. n \in Nat \ {0}
      BY <3>1
    <3> QED BY <2>3, <3>2, <3>3, AddressesApart DEF AddressesApart
  <2>6. accounts[b].phone \in Phone \cup {NoPhone} => accounts[b].phone # text
    BY <2>3, AddressesApart DEF AddressesApart
  <2>7. Fold(accounts[b].email) = Fold(text) \/ GivenByAdmin(text, b)
    BY <2>1, <2>4, <2>5, <2>6 DEF Matches, GivenByAdmin
  <2> QED BY <2>7 DEF b
<1> QED BY <1>1, TypeCorrect, PTL

(* Among addresses that do not differ in case only, an address in the table  *)
(* takes the sign-in to its one holder, unless an admin gave the account     *)
(* found that address as a username or phone (models.py unique email).       *)
OneSpelling == \A e, f \in Email : Fold(e) = Fold(f) => e = f

AddressMeansAccount ==
  \A a \in DOMAIN accounts :
    LET b == Resolve(accounts[a].email)
    IN b = a \/ GivenByAdmin(accounts[a].email, b)

THEOREM AddressNamesItsHolder ==
  ASSUME AddressesApart, OneSpelling
  PROVE  Spec => []AddressMeansAccount
<1>1. ASSUME TypeOK, AddressReachesItsHolder, IdentifiersDistinct,
             NEW a \in DOMAIN accounts
      PROVE  LET b == Resolve(accounts[a].email)
             IN b = a \/ GivenByAdmin(accounts[a].email, b)
  <2> DEFINE b == Resolve(accounts[a].email)
  <2>1. b \in DOMAIN accounts
    BY <1>1, ResolveMatches DEF Matches
  <2>2. Fold(accounts[b].email) = Fold(accounts[a].email)
          \/ GivenByAdmin(accounts[a].email, b)
    BY <1>1 DEF AddressReachesItsHolder
  <2>3. accounts[a].email \in Email /\ accounts[b].email \in Email
    <3> HIDE DEF b
    <3>1. accounts[a] \in Account /\ accounts[b] \in Account
      BY <1>1, <2>1 DEF TypeOK
    <3> QED BY <3>1, AccountFields
  <2> HIDE DEF b
  <2>4. Fold(accounts[b].email) = Fold(accounts[a].email) =>
          accounts[b].email = accounts[a].email
    BY <2>3, OneSpelling DEF OneSpelling
  <2>5. b = a \/ GivenByAdmin(accounts[a].email, b)
    BY <1>1, <2>1, <2>2, <2>4 DEF IdentifiersDistinct
  <2> QED BY <2>5 DEF b
<1>2. TypeOK /\ AddressReachesItsHolder /\ IdentifiersDistinct
        => AddressMeansAccount
  BY <1>1 DEF AddressMeansAccount
<1> QED BY <1>2, TypeCorrect, AddressesReachHolders, IdentifiersStayDistinct,
           AddressesApart, PTL

(* However often and by whomever a link is opened, it makes one account, as  *)
(* long as that account keeps its address and no admin edits the invitation. *)
THEOREM OneAccountALink == Spec => []OneAccountPerInvitation
  BY Invariance, PTL DEF IInv

(* A base name followed by different numbers gives different names.          *)
NumbersApart == \A e \in Email : \A m, n \in Nat \ {0} :
                  Name(e, m) = Name(e, n) => m = n

LEMMA FirstNumbers ==
  ASSUME NEW k \in Nat
  PROVE  IsFiniteSet(1..k) /\ Cardinality(1..k) = k
<1>1. 1 \in Int /\ k \in Int
  OBVIOUS
<1>2. /\ IsFiniteSet(1..k)
      /\ Cardinality(1..k) = IF 1 > k THEN 0 ELSE k - 1 + 1
  BY <1>1, FS_Interval
<1> QED BY <1>2

(* The username loop ends: whatever names the table holds, one of as many    *)
(* names as there are accounts and one more is free, and the loop comes to   *)
(* it before any other free one (invitation_views.py:26-31).                 *)
THEOREM SignUpFindsName ==
  ASSUME NumbersApart
  PROVE  Spec => [](\A e \in Email : \E n \in 1..Len(accounts) + 1 : FirstFree(e, n))
<1>1. ASSUME TypeOK, NEW e \in Email
      PROVE  \E n \in 1..Len(accounts) + 1 : FirstFree(e, n)
  <2> DEFINE L == Len(accounts)
             tries == 1..L + 1
             free == {n \in tries : ~UsernameInUse(Name(e, n))}
             holder == [n \in tries |->
                          CHOOSE a \in 1..L : accounts[a].username = Name(e, n)]
  <2>1. L \in Nat /\ DOMAIN accounts = 1..L
    BY <1>1 DEF TypeOK
  <2>2. free # {}
    <3> SUFFICES ASSUME free = {} PROVE FALSE
      OBVIOUS
    <3>1. \A n \in tries : holder[n] \in 1..L /\ accounts[holder[n]].username = Name(e, n)
      BY <2>1 DEF UsernameInUse
    <3>2. holder \in [tries -> 1..L]
      BY <3>1
    <3>3. /\ IsFiniteSet(tries) /\ Cardinality(tries) = L + 1
          /\ IsFiniteSet(1..L) /\ Cardinality(1..L) = L
      BY <2>1, FirstNumbers
    <3>4. Cardinality(1..L) < Cardinality(tries)
      BY <2>1, <3>3
    <3> HIDE DEF holder
    <3>5. PICK m, n \in tries : m # n /\ holder[m] = holder[n]
      BY <3>2, <3>3, <3>4, FS_PigeonHole
    <3>6. Name(e, m) = Name(e, n) /\ m \in Nat \ {0} /\ n \in Nat \ {0}
      BY <2>1, <3>1, <3>5
    <3> QED BY <3>5, <3>6, NumbersApart DEF NumbersApart
  <2>3. free \in SUBSET Nat
    BY <2>1
  <2>4. PICK n \in free : \A k \in free : n <= k
    BY <2>2, <2>3, Least
  <2>5. \A k \in 1..n - 1 : k \in tries /\ k \notin free
    BY <2>1, <2>4
  <2> QED BY <2>4, <2>5 DEF FirstFree
<1>2. TypeOK => \A e \in Email : \E n \in 1..Len(accounts) + 1 : FirstFree(e, n)
  BY <1>1
<1> QED BY <1>2, TypeCorrect, PTL
=============================================================================
