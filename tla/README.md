# Gold7 — verification project

TLA+ models of Gold7, a Django starter with invitation-only sign-up, login by
email or phone, a login-history audit trail, suspension, profile pictures and a
git-tag release process. Paths below are relative to the repository.

## 1. The system

| Component | Source | State it keeps | Operations |
|---|---|---|---|
| Sign-in sessions and login history | `src/core/views.py`, `signals.py`, `models.py` (`LoginHistory`, suspension), Django's auth and session middleware | `core_user` row (password hash, `is_active`), `django_session` rows, `core_loginhistory` rows, browser cookies | login, admin login, sign-up login, logout, page visit, profile POST, password POST, suspend, unsuspend, session expiry |
| Accounts and invitations | `src/core/invitation_views.py`, `forms.py`, `admin.py`, `management/commands/invite_user.py`, `models.py` (`User`, `Invitation`) | user rows (username, email, phone, role, staff), invitation rows (token, email, expiry, `accepted_at`) | invite, accept, edit profile, edit in the admin site, authenticate by identifier |
| Profile pictures | `models.py` (`User.save`, `_resize_profile_picture`), `forms.py` (`ProfileForm`) | the picture name in the user row, the files under `MEDIA_ROOT` | upload, replace, clear, any other save of the row |
| Release process | `Makefile` release targets, `scripts/release.py`, `scripts/generate_changelog.py` | local and remote tags, `main`, `src/CHANGELOG.md`, `RELEASE_NOTES.md` | release-patch, release-minor, release-fix, release |
| Suspension | `models.py` (`suspend`, `unsuspend`, `is_suspended`), `backends.py`, `admin.py`, `AUTHENTICATION_BACKENDS` | `is_active`, `suspended_at`, `suspended_until` of the user row, admin pages that are open | suspend, unsuspend, lapse, edit by hand, authenticate by one of two backends |
| Container start-up | `src/docker-entrypoint.sh`, compose files | applied and recorded migrations, the first superuser, where each container's script is | wait for PostgreSQL and Redis, migrate, bootstrap the superuser, wait for migrations, restart, deploy |
| Token API | `src/core/api/`, `config/api_urls.py`, `SIMPLE_JWT` | no rows (stateless JWT); tokens that are out | obtain, refresh, `auth/me` |
| Health and Celery | `src/core/health.py`, `tasks.py`, `config/celery.py` | none | probes, one ping task |
| Settings, templates, static files | `src/config/`, `src/templates/`, `src/static/` | none | rendering |

The components meet in the `core_user` row and in the session. Sign-up
(accounts) ends in `login` (sessions); a profile POST writes *every* column of
the user row, so the profile form, the password form, suspension and the
picture code all write the same row; the admin site writes it too. Views run in
one database transaction each (`ATOMIC_REQUESTS`), but under PostgreSQL's READ
COMMITTED isolation and without row locks, on several gunicorn workers with two
threads each: what a view read may be stale when it writes. The session is
written after the view's transaction, by the session middleware, and files are
outside any transaction.

### What is hard

- *Read, then write a whole row.* `request.user` is read before the view and
  saved with all its columns (`views.py:33`, `models.py:138`, the admin forms).
- *Two stores.* Session row against history row (`signals.py`), picture file
  against picture column (`models.py:134-138`), tag against changelog commit
  (Makefile).
- *Keys that move.* `login` and `update_session_auth_hash` change the session
  key that `record_login` has stored or is about to store.
- *Check, then act.* `is_valid` and the uniqueness checks of the forms are read
  without locks, and only the database constraints hold under concurrency; a login
  looks at the account and gives its session or tokens later; `record_logout`
  selects a row and stamps it later.
- *Failure between steps.* A worker that dies, lost responses, a failing
  `git commit` or `git push` in the middle of a Makefile recipe, a container killed between two migrations.
- *Two answers to one question.* Two authentication backends that look at
  different columns; a suspension that lapses by the clock in one column and
  not in the other.
- *Waits that give up.* The entrypoint's loops have limits, and what they wait
  for is done by another container that may have been killed.

## 2. Modules

| Module | Models | Used by |
|---|---|---|
| `LoginSessions` | sessions and login history, step by step | `sessions_*`, `stale_profile_save`, `logout_after_password_change` |
| `AuditTrail` | what the login history promises (abstract) | `AuditSpec`, checked and proved of `LoginSessions` |
| `Schema` | what the start-up promises (abstract) | `SchemaSpec`, checked and proved of `StartUp` |
| `Accounts` | invitations, sign-up, identifiers of accounts | `sign_ups`, `sign_up_liveness` |
| `Suspension` | one account's suspension columns, both backends, tokens | `suspensions`, `suspended_by_admin` |
| `ProfilePictures` | picture column and picture files of one account | `pictures` |
| `StartUp` | the entrypoint in every container, Docker, two services | `start_up` |
| `Release` | the Makefile's release recipes, `release.py`, entries of the changelog | `releases`, `tag_off_main` |
| `MC*` | the instances TLC explores | |
| `LoginSessionsProofs`, `AccountsProofs`, `SuspensionProofs`, `ProfilePicturesProofs`, `StartUpProofs`, `ReleaseProofs` | theorems about the module of that name, for every instance | `tlapm` |
| `SignInProofs` | more theorems about `LoginSessions`: who signs in over what, passwords | `tlapm` |

The modules do not compose into one state machine. They meet in the user row,
and each one models the part of the row it is about with the same rule: a
request reads the row, later writes all the columns it read (or, for
`update_fields`, the named ones). `LoginSessions` has password and `is_active`,
`Accounts` has the identifiers, `ProfilePictures` the picture, `Suspension` the
suspension columns. `is_active` is in two of them: `LoginSessions` has what it
does to sessions that are open, `Suspension` who is let in. A sign-up appears
twice, as the insertion and stamping in `Accounts` and as the login it ends in
in `LoginSessions`.

### LoginSessions

A request is three or four steps, and other requests interleave between them.
`Load` reads the cookie, the session row and the user row (`SessionMiddleware`,
`request.user`). A login then reads the user row again and checks it
(`Authenticate`: `authenticate` at `views.py:63` is a query of its own, and under
READ COMMITTED the account may have been suspended or let back in since
`views.py:53`); a logout selects the history row it will stamp (`SelectRow`,
`signals.py:42-46`). One commit action per view applies what its transaction
writes: `LoginView`, `AcceptInvitation`, `LogoutView`, `VisitPage`,
`ProfileUpdate`, `PasswordChange`. `LogoutView` stamps the selected row without
looking at it again, as `row.save(update_fields=...)` does. `Respond` is the
session middleware on the way out: create a session, update the row it loaded,
or fail with `SessionInterrupted` because the row is gone; the browser may or may
not see the cookie. `Crash` is a worker process that dies at any of these points.

What Django does and this code relies on, taken from how it is called:

- `login` keeps the session of the same account, flushes another account's (no
  key until the response is saved, so `record_login` stores an empty key) and
  gives an anonymous session a new key before `record_login` runs.
- `get_user` treats an inactive user as anonymous and leaves the session alone;
  a hash that no longer verifies flushes the session.
- `update_session_auth_hash` copies the session to a new key in the database at
  once and puts the new hash in the session in memory, saved on the way out.
- The admin login form accepts a POST from a visitor who is already signed in;
  the form is shown only to visitors without admin rights, and its CSRF token
  rotates at each login (`adminForm`).
- Sign-up never looks at `request.user` before it calls `login`.
- An expired session row is not loaded, but a late save still updates it.

`password` is the number of the password set, which is what the session hash
stands for; `is_active` is what `suspend` and `unsuspend` write.

`logged_out` counts how often `logged_out_at` was written, so that a second stamp
on a row can be seen; `reinstated` is auxiliary and remembers the accounts that
were inactive and are active again.

`AuditTrail` is what a reader of the history may rely on: rows are appended,
never reopened and never retargeted; a logout stamps the row it found open, once;
a row is stamped only if its key was given to a session and that session is gone
with the very step, and no session comes back. A second stamp therefore takes a
logout that had found the row before the first: two logouts that overlap do both
stamp it, and the later time stays. A row without a key (a sign-in over another
account) is never stamped.

### Accounts

`accounts` is the user table in the order of ids, reduced to username, email and
phone; two fields of it are not columns, so that properties can speak of them:
`invitation` is the invitation the account came from, `typed` whether an admin
typed its username or phone. `invitations` holds rows by token: not there yet,
there, deleted, and their email, expiry and acceptance. `moved` and `edited`
remember which accounts have changed their address and which invitations were
saved in the admin.

A sign-up is three steps. `OpenInvitation` reads the invitation and tests
`is_valid`. `CheckSignUp` is the form's phone check and the username loop, two
reads that see whatever is committed by then. `CreateAccount` is the end of the
transaction: insert the account, stamp the invitation, or, if a unique column
clashes or the stamped row is gone, neither. `AddUser` is the admin's add form,
which takes any free username and any phone (`TypedName`, `TypedPhone`), somebody's
address included. A profile edit and an admin edit of a user are `OpenAccount`,
`CheckProfile` or `CheckUserForm`, `SaveAccount`: the site's own form takes a phone
number and compares addresses in any case, the admin form takes any text for
username and phone and compares as the columns do. The admin form of an
invitation is `OpenInvitationForm`, `SaveInvitationForm` and writes back every
column, `accepted_at` too. `Abandon` ends a request that shows form errors or
whose worker dies.

Phones are texts, as in the code: `docs/sms-phone-verification.md:91` says that
the form strips separators, but `normalise_phone` is used to validate only and the
text is stored and compared as it was typed.

Lower case, the part before the `@` and numbering are constants (`Fold`,
`LocalPart`, `Numbered`) so that the proofs hold for any texts; `MCAccounts`
gives them for three addresses, two with the same local part, two that differ
in case. The loop compares usernames exactly, the backend in any case, as in the
code. The runs use the two lower-case addresses (with the third, `sign_ups` is
out of TLC's reach); the proofs hold for any `Fold`.

### Suspension

One account with the right password. `row` is its committed columns; `request`
the row each of its own POSTs has read and may save whole; `page` the row an
open admin form shows and may write back or overwrite (`Typed`). `suspend` and
`unsuspend` save their columns only (`update_fields`). `authenticate` is Django
asking the backends in the order of `AUTHENTICATION_BACKENDS`:
`EmailOrPhoneBackend` by any identifier, with the suspension test and
`user_can_authenticate`; `ModelBackend` by username, with `is_active` only.
`ObtainTokens` and `RefreshTokens` are SimpleJWT's views: the second looks at
`is_active` (`USER_AUTHENTICATION_RULE`) and hands out a new pair, and because
the blacklist app is not installed the rotated token stays good.

Letting somebody in and giving them something are two steps. `SignIn`,
`ObtainTokens` and `RefreshTokens` read the row and put an `attempt` in flight;
`SaveSession` and `GrantTokens` give the session or the tokens later and do not
look at the row again, so an account suspended in between does get them. A new
token's lifetime starts when it is given; SimpleJWT stamps a refreshed one a
little earlier, so the model is on the side of longer lives. `quiet` counts the
ticks since the account was inactive with nobody in flight who was let in while
it was active: the time from which its tokens can only run down. Dates are the
time left until them; `Tick` takes one from each, from the row and from every
copy of it, so that a suspension can lapse while a form shows it. `byHand` is
not a column: it remembers that an admin typed into these columns, because no
property can speak for what an admin types.

### ProfilePictures

One account, its committed `profile_picture`, the files in its directory.
`Load` reads the row and, for profile POSTs, runs `clean_profile_picture`, which
fails on a missing file unless one is uploaded. `ClearPicture` deletes the file
and empties the field. `RemoveOldFile` is the first half of `User.save`: read the
row again and delete its file if the instance names another. `StoreUpload` writes
the new file under a name that is free, `Commit` writes the column, `Rollback`
leaves the files as they are. A `touch` is a save of other columns (last login,
suspend, unsuspend): it runs `RemoveOldFile` too. Contents are numbers of
uploads, so a property can say which picture a file holds.

### StartUp

Every container runs the script from the top: `WaitForPostgres`, `WaitForRedis`,
then a web container (`DJANGO_MIGRATE=true`) migrates and bootstraps, a Celery
one (`wait`) runs `WaitForMigrations`. `manage.py migrate` is several steps, as
others can come between them: `PlanMigrations` reads what is recorded, each
`ApplyMigration` is one transaction of tables and record, or of the tables alone
when Django defers SQL and writes the record afterwards (`RecordMigration`); a
migration whose tables are there fails. `CheckUsers` and `CreateSuperuser` are
the two queries of the shell snippet. `set -e` is `Fails`, the `exit 1` of a loop
is `GivesUp`. A count of `tries` stands for seconds.

Around the script: `Start` is `up` with `depends_on`, `Restart` is
`restart: unless-stopped`, which does not wait for anything, `Deploy` replaces a
container by one of another image, older or newer, `Crash`, `Outage` and
`Comeback` do what they say. An image `i` needs migrations `1..i`.

`Schema` is the same for whoever operates the site: a schema version, whether
there is an account, and the image each container serves with. The version goes
up one migration at a time and never down, a container begins to serve only with
an image whose migrations are there, a worker waits for that and changes nothing,
and a web container leaves an account behind. `Serving` maps a container that
runs to its image and any other place in the script to 0; waits, retries,
failures and two containers that migrate side by side are stutters of it.

### Release

`commits` has for every commit its ancestors, the versions its changelog has
entries for, the changes those entries list, and the tagged commit its own entry
was counted from (`base`); `remote` is main and the tags on the server; `clone` is each developer's
head, tags and running recipe. A recipe is `ReleaseGuard`, `AssignVersion`
(`release.py`, which fetches once more and may fail to), `CommitEntry`
(`generate_changelog.py`, which lists the range from the newest tag to HEAD, then
`git add`, `git commit`) or `GeneratorFails`, `PushMain`, `TagHead`,
`PushTag`. Git may refuse a commit (a hook, a signature, a lock): `&&` then skips
the push, `;` goes on to `git tag`, and the entry stays in the working tree,
which is `dirty` until it is cleaned (`Sync`), and the guard of the next recipe
refuses a dirty tree. Pushes can fail at any time; a push of main is refused unless main is
an ancestor, a push of a tag unless the tag is new. Which command ends in `&&`,
`;` or `|| exit 1` decides what happens after a failure, and differs between
`make release` and the rc recipes. `Interrupt` stops a recipe anywhere; `Merge`
and `Sync` are what happens between recipes.

A version is four numbers, the last one the rc or 0: git's order of tags without
a `versionsort.suffix` setting is then the lexicographic order, with an rc above
its stable version. `Blank` is the tag `v` that a recipe makes when `release.py`
exits 0 without printing a version.

## 3. Runs

Deadlock checking is off where counters are bounded, since a system at its bounds
stops without being stuck; the two runs of `Suspension`, which has no counters,
leave it on.

| Run | Bounds | Shows |
|---|---|---|
| `sessions_concurrent` | 1 browser, 2 requests, 2 users (1 staff, 1 invited), 2 keys, 2 rows, 2 passwords | types; a row names only its own account's sessions; one row per session, staff and accounts once let back in aside; a stamped row's session is gone for good; the audit trail is implemented |
| `sessions_sequential` | 2 browsers, 1 request at a time, 3 keys, 3 rows | a replaced password stays replaced; the changer stays signed in |
| `stale_profile_save` | 1 user, 2 requests | **violation**: a profile save undoes a suspension or password change |
| `logout_after_password_change` | 1 user, 1 request | **violation**: a logout that stamps no row |
| `sign_ups` | 1 invitation, 2 requests, 2 addresses with one local part, 1 phone, an admin who may type one of the addresses as a username | identifiers distinct; accepted means account, account means stamp; a link makes one account while that one keeps its address; an address never reaches a stranger unless the admin gave it to one |
| `sign_up_liveness` | 2 invitations whose addresses have one local part, 2 requests, no phones; sign-up and profile edits | sign-ups that race for a username never share it; an invitation settles |
| `suspensions` | 2 POSTs, 1 admin page, 2 logins or token requests in flight, suspensions of 0 or 1 tick or without end, access tokens of 1 tick, refresh tokens of 2 | without an admin's typing both backends agree; the longer an account is inactive the less is left of its tokens; they die out |
| `suspended_by_admin` | 1 POST, 1 page, 1 login, 1 tick | **violation**: a suspended account signs in by its username |
| `start_up` | 2 web containers, 1 worker, 2 images, 2 tries per wait, 3 faults | nothing runs before its schema; somebody can sign in when the site serves; the start-up implements `Schema`; a migration cut off halfway blocks all others for good; all containers run in the end |
| `pictures` | 2 requests, 2 formats, 3 names each, 4 uploads | a lone upload shows; a lone clear or edit leaves no missing file |
| `releases` | 2 developers; 3 commits and 2 tags when both act, up to 4 commits, 3 tags and numbers up to 2 when one does (`Scope`) | a stable tag has its entry; a number is a step forward; the entries of a changelog leave no change out |
| `tag_off_main` | 1 developer, 3 commits | **violation**: a tag on a commit that is not on main |

Why the bounds are enough. Every race in the code is between two requests (one
that read and one that writes), so two requests reach each of them; a third
only repeats a role. Two accounts give every property about mix-ups its
stranger. In `sessions_concurrent` two session keys are one for the login and one
after a key change or for a second login; three, which a page visit with a stale
session needs, are in `sessions_sequential`. Two addresses with the same local part
make the username loop count, in `sign_up_liveness`, where two invitations race
for one name; one invitation is enough for two requests that use it twice. No
run has texts typed as phones or folded addresses: the theorems cover them.

In `releases` three commits are enough for a second `make release`, for a merge
during a recipe and for two recipes that overlap. That the ranges of two entries
meet takes four: a first commit, an entry, a change, another entry; a single
developer, with merges by others going on, gets them, and only a single developer
has a commit refused, since nothing of a refused commit is seen by the others but
the tag. The bound is a state constraint over both kinds of history (`Scope`),
because all of them at once is out of TLC's reach; the theorems have no bound.

Two web containers (the compose files give one, two hosts on one database give
more) meet at every step of `migrate` and of the bootstrap; two images give a
deployment and a rollback; two tries let a wait fail once and still succeed, or
give up; three faults let a crash, an outage and a deployment combine. In
`Suspension` a refresh token that outlives an access token makes rotation
matter, one tick lets a suspension lapse while a copy of it is still about, and
two attempts let one be in flight at a suspension while another is refused.

The passing runs without two requests (`sessions_sequential`) say what the code
promises when nothing overlaps; the violation runs show what overlap does to
it. `OneRowPerSession` has two exceptions. For staff accounts the admin login form
breaks it by design of Django: signing in again keeps the session and adds a row.
And a suspended visitor whose session is still there is anonymous at
`views.py:53`; if the account is let back in before `views.py:63`, `login` keeps
the session and `record_login` adds a second row. So the property excepts staff
and accounts that were inactive and are active again; for all others it holds
with requests overlapping.

The violation runs are about four sentences of the repository that the code does
not keep; `PROJECT.json` quotes them under "findings". Three more behaviours of
`Accounts` that may surprise contradict no sentence and have no run, but the
model has them: a link used by two sign-ups gives two accounts if the first one
changes its address before the second is inserted; an admin form of an
invitation that was opened before a sign-up and saved after it makes the link
valid again (both are the exceptions of `OneAccountPerInvitation`); a username an
admin typed that is somebody's address takes that address's sign-ins if its
account is the older one (the exception `GivenByAdmin` of
`AddressReachesItsHolder`); and two addresses that differ only in case are two
accounts, of which the newer cannot be reached by address. One more is in
`Release`: `make release` pushes a stable tag although git refused the commit with
its entry (`Refused`, the exception of `StableReleaseHasEntry`).

`StartsUp` names its two exceptions: a migration cut off between its tables and
its record, which `migrate` cannot run again (`CutOff`), and a worker whose image
needs a migration that no web container has (`Nowhere`). `ChangesListed` speaks
of changelogs whose entries were each counted from a tag in their own history,
and excuses two kinds of change: changelog commits, and what is in the history
of a tag that was made without an entry.

### Fairness

Three runs assume some. In `start_up` every container's script goes on unless it
is killed, Docker starts and restarts what it should (`restart:
unless-stopped`), and a service that is down comes back: weak fairness of each,
and none of crashes, outages and deployments, of which there are finitely many.
Weak fairness is enough because a step of the script, unlike an attempt at
sign-up, stays enabled until it is taken. In `suspensions` only time passes
(`WF(Tick)`): nobody has to refresh a token or to refrain from it.

In `sign_up_liveness`, `WF(Abandon)`: a view is a bounded run of queries, so it
answers or its worker dies, and no request lasts for ever. (gunicorn's `timeout`
is no reason: with `worker_class = "gthread"` it watches the worker, not a
request.) Strong fairness of opening,
filling in and submitting an invitation: whoever holds a link tries again, and
an attempt gets through the next step infinitely often if that is possible
infinitely often; weak fairness would not do, because each attempt that ends
disables the step. Nothing is assumed about admins, expiry or other users'
edits. The invitees of this run give no phone number, so the race it settles is
the one for a username.

## 4. Proofs

The proofs hold for any number of users, browsers, requests, invitations, admin
pages, containers, images and developers, and any bounds. They assume only the
named assumptions on the constants. Some theorems have one hypothesis more, in
their statement: about the texts that sign-up and the site's forms produce, never
about what admins type (`AddressesReachHolders`, `AddressNamesItsHolder`,
`SignUpFindsName`), about requests that do not overlap (`ChangeKeepsSession`,
`ReplacedPasswordStaysReplaced`), about the number of web containers
(`FirstStartDoesNotFail`).

`LoginSessionsProofs`. `RowMatchesSession` and `ClosedRowHasNoSession` are not
inductive: a request in flight may carry a key and an account that no table
shows yet. `IInv` adds what a request may rely on between its steps (`LoadedOK`),
that the row a logout has selected is one of the session it will end
(`SelectedOK`), that keys are issued in order and unused before (`KeysIssued`), and that everything that
ties an account to a key, session rows, requests and history alike, agrees on
the account (`OneOwner`). From it follow the type invariant, both safety
properties, and the refinement of `AuditTrail` step by step: `SelectRow` is its
`Find`, `LogoutView` its `Stamp`, a logout whose worker dies its `GiveUp`.

`SignInProofs`. A second row for a session would need a sign-in that keeps the
session, or a late save that stores a session under a key that has a row.
`RowInv` excludes both: it adds to `IInv` that a request in flight carries what
the views checked (`SignInChecked`: whoever is not staff and signs in over a session
of their own was inactive at `views.py:53`, hence let back in if the check at
`views.py:63` succeeds) and that sessions name accounts there are
(`KnownAccounts`). So `RowPerSession` holds with any number of requests in
flight. `PasswordChangeSticks` and `ChangerStaysSignedIn` do not:
a profile save that overlaps undoes a password change, which is the finding of
`stale_profile_save`. They are proved under what excludes it.
`ReplacedPasswordStaysReplaced` asks for one request at a time *or* for no profile
edits: password forms alone may overlap. `ChangeKeepsSession` asks for one request
at a time, with any number of browsers and accounts. In `AloneInv`, `FreshRow` says
that a lone request holds the password in force, `ChangeInFlight` what a password
change has in hand between its save and its response: a session that verifies,
under a key no browser has yet.

`AccountsProofs`. `IdentifiersDistinct` rests on the database constraints alone
and is inductive with the types. `AcceptedHasAccount` needs what requests carry:
a filled-in sign-up credits the invitation it was opened with, an edit keeps
where its account came from, and a form that read an accepted invitation proves
an account; the other way round, an account is inserted with the stamp, which
only a save in the admin takes off. `OneAccountALink` needs `LinkAddress`: a link
that no admin edited stands for one address, which the forms opened from it carry
and the account made from it has until it moves, so that the unique column stops
the second account; and `UnsentUnused`, that nothing comes from a link before it is
sent.
`AddressesReachHolders` needs no history: whatever the table holds, the backend's
choice of the oldest match exists (a non-empty set of ids has a least one) and is
a match, and a match of an address is by address or by what an admin typed, given
`AddressesApart`: no username that sign-up makes, a local part and a number, and no
phone that the site's forms take reads as an address. What admins type is
arbitrary. With the unique column, and among addresses that do not differ in case
only, the account found is exactly the holder or one an admin gave that text
(`AddressNamesItsHolder`). `SignUpFindsName` is a
pigeonhole: if all of the first `n + 1` names were in use by `n` accounts, one
account would have two; so the loop ends, and the bound the model puts on it
cuts nothing off.

`SuspensionProofs`. `BackendsAgree` is not inductive, because old copies of the
row are saved later. `IInv` says of the row *and of every copy that may yet be
saved* that `is_active` and `suspended_at` agree unless an admin typed into them;
the clock preserves it because a lapse changes neither. `InactiveRunDown`
(`TokensRunDown`) is the safety that makes `TokensDieOut` true, whatever is in
flight at a suspension: whoever was let in was active then (`WereActive`), so once
the account is inactive and the last of them is answered, which is when `quiet`
begins to count (`Counts`), no tokens are given any more and every tick takes one
from each that is out. That ticks come is left to fairness.

`ProfilePicturesProofs`. Both properties are about the last step of a save that
ran alone. `IInv` carries what its earlier steps did: a request marked alone has
no other beside it (`AloneMeansAlone`), so what it stored is still there
(`UploadIsStored`), a cleared instance has no name, and an edit still names the
committed picture, whose file it has not swept away (`EditKeepsName`). Nothing is
said of the files other saves left, which is why the theorems hold after any
history.

`StartUpProofs`. What a container's place in the script says of the database must
survive what others do meanwhile. `PlanIsRecorded` (what `migrate` counts as done
is recorded), `RecordIsDue` and `OneRecord` (a migration cut in two belongs to
one container, and no other gets past it) and `MigratedBeforeCreate` are the
invariant; migrations are only ever added, so `RunsOnItsSchema` follows, and with
the first account, which is never removed, `SuperuserBeforeServing`. The same
invariant makes every step a step of `Schema` or a stutter (`ImplementsSchema`;
`RolesKept` is what keeps a worker from migrating or creating an account).
`CutOffIsForGood` needs that nobody's plan runs ahead of the records: whoever
migrates next stops at the tables that are there. `FirstStartDoesNotFail` is
about a single web container until the first fault: the database is then as it
left it (`LoneInv`), so neither `set -e` nor a limit can end its script. With two
web containers it is false, as TLC shows in a moment.

`ReleaseProofs`. The order of versions is settled first: a bounded set of
numbers has a greatest member (its up-sets are finite, hence well-founded), so a
set of tags has a last version, `Current`, and the rc number found for a base is
above those taken. From that, `NewVersionAbove`: whatever the tags and the bump,
a new rc sorts after every tag and a new stable version after every stable one.
`StableReleaseHasEntry` is about the last step of a run and the entry written
four steps earlier; `EntryWritten` carries the fact across them, first as
"HEAD has the entry", then as "the tag's commit has it", or, if git refused the
commit, as "the working tree is dirty", and `IInv` is that with the types. `NothingLeftOut` (`ChangesListed`) is by induction over the commits as
they are added: the history of a commit contains the histories of its ancestors
and their listings (`Hereditary`), so of the changes a new entry does not list,
those before its `base` were listed, or excused, there. `PublishedStays` uses the
same closure: main only moves to a commit that has it in its history, hence to a
changelog that has all its entries and all it lists, and tags are only added.

Model-checked only:

- liveness (`InvitationsSettle`, `StartsUp`, `TokensDieOut`), which is out of the
  prover's reach. Of each, the safety it rests on is proved: `SignUpFindsName`,
  `CutOffIsForGood` and `FirstStartDoesNotFail`, `InactiveRunDown`.

Every other property of a passing run is a theorem.

Each inductive invariant, and each theorem that is no property of a run, was
first checked by TLC on the instances of the runs (`FirstStartDoesNotFail` with
one web container).

## 5. What is not modelled

- Deleting users; role and staff flags, names, `invited_by`.
- A property for sign-in by phone: a username made of digits that equals a phone
  is possible in the code, the instances have none, and `AddressReachesItsHolder`
  is about addresses.
- What an attempt with a wrong password costs: hashing, timing.
- Tokens other than their lifetimes: `auth/me` and the user directory only read,
  and refuse an inactive account as SimpleJWT does.
- Health checks, the one Celery task, templates, URLs, context processors and
  most settings: no state, or external configuration.
- In the entrypoint, the CSS build and `collectstatic`: they change files of the
  image, and a failure is hidden by the pipe to `tail`.
- The changelog's grouping and wording, `--full`, release notes and the GitHub
  release: output from a range of commits, and the range is modelled.
- A release run on a branch other than main at the same commit. A recipe that is
  interrupted between the generator and the commit leaves its entry in the working
  tree, too; `Interrupt` takes it to be cleaned up at once, since all it does
  otherwise is to make the guard refuse.

## 6. What would come next

1. A property for sign-in by phone in `Accounts`, once the repository says what
   it promises.
2. One row for all: `LoginSessions` and `Suspension` over one user row, for what
   an admin page saved late does to open sessions.
