# Core Business Creator Assist, specified

TLA+ specifications, model-checking configurations and proofs for the Flask
backend in `src/backend`. The backend keeps users, businesses and business
memberships in PostgreSQL (through Pony ORM), issues JWT access tokens, keeps
revoked tokens and password-reset tokens in Redis, and runs in several Gunicorn
worker processes (two by default, `gunicorn.conf.py`).

## The system

Paths are relative to `src/backend/app`.

| component | state | operations | talks to |
|---|---|---|---|
| memberships (`businesses/routes.py`, `businesses/membership_service.py`, `businesses/models.py`) | `business_memberships`: role, status, `joined_at` per user and business | create business, invite, PATCH member, remove member, accept | RBAC (permission checks), workspace resolution, users |
| workspace resolution (`common/tenant.py`, `common/rbac/decorators.py`) | `users.current_business`, the session cookie, the `business_id` claim of a token | resolve per request, switch, default at login and `/auth/me` | memberships |
| business profile and settings (`businesses/routes.py`, `businesses/services.py`) | one row of `businesses`, with the JSONB `settings_json` | PATCH profile, PATCH settings | memberships (role of the caller) |
| access tokens (`auth/services.py`, `auth/routes.py`, `login_required`) | JWTs at clients, Redis keys `jwt_blacklist:<jti>` | sign, decode, logout | Redis, clock |
| password reset (`auth/services.py`, `auth/routes.py`) | Redis keys `password_reset:<token>`, `users.password_hash` | forgot, reset | Redis, PostgreSQL |
| registration, login | `users` (unique email) | register, login | workspace resolution, tokens |
| slugs (`businesses/services.py`) | `businesses.slug` (unique) | `unique_slug` | PostgreSQL |
| RBAC (`common/rbac`) | roles, permissions, links; a permission cache per process | seed at start, look up | PostgreSQL |
| migrations (`migrations`) | `database_version`, the schema | run pending migrations at start | PostgreSQL, RBAC seeding |
| start-up (`db.py`, `migrations/create_db.py`) | which databases exist | create, bind, migrate, seed | migrations, RBAC |

What makes it hard: worker processes interleave between any two statements;
the transactions run at READ COMMITTED with Pony's optimistic checks; a
`db_session` commits on every normal return, including 4xx answers; Redis
commands are outside any transaction; and a process may die between any two
steps. The hazards are listed, each at its line, in `PROJECT.json`.

What each component owes:

- memberships: every business keeps an active owner; owners are made by owners;
  the lifecycle absent → invited → active/suspended/removed is respected although
  requests decide on rows read earlier; a refused request changes no status;
- workspaces: `current_business` names a business that has admitted the user, and a
  browser's requests work in the workspace it was last told;
- profile and settings: concurrent PATCHes lose nothing, owner-only keys are the
  owner's, and a field holds what the answers say although a 400 is saved by halves;
- tokens: a token logged out stays out; a reset token works once;
- slugs: distinct, numbered without gaps, and a request is answered unless other
  creations overtake its search again and again;
- permissions: readers of the role-permission links see the whole table of one
  release, and what a process caches was granted while it ran;
- migrations: a marked migration has been done, no legacy membership is lost, and
  starters that race, deadlock or die leave a database that a later start
  completes;
- start-up: whoever goes on has a database; the wait for the server ends.

## Modules

| module | models |
|---|---|
| `MembershipRows` | the values of a membership row, shared by the next two |
| `Memberships` | the core: the membership table, the workspace column and one request per worker |
| `Roster` | the abstract specification that `Memberships` implements |
| `Workspaces` | which workspace a request works in: column, cookie and token claim, and what answers bring |
| `BusinessSettings` | the two PATCH routes on one row of `businesses` |
| `Slugs` | `create_business` from `unique_slug` to the commit |
| `AuthTokens` | signing, decoding, expiry, logout and the Redis blacklist |
| `Rbac` | the seeding of the role-permission links and the cache of them in each process |
| `PermissionTable` | the abstract specification that `Rbac` implements |
| `RequestGuards` | the composition of `AuthTokens` and `Rbac`: workers that check the token, then the permission, and die |
| `Accounts` | registration, forgot and reset: inserts, Redis commands and commits apart |
| `DatabaseCreation` | `ensure_postgres_database_exists` |
| `Migrations` | the runner, its bookkeeping, the four `up()` functions and the seeding of a start |
| `DatabaseVersions` | the abstract specification that `StartUp` implements |
| `StartUp` | the composition of `DatabaseCreation` and `Migrations`: `init_database` on a server that goes away |
| `MCMemberships`, `MCWorkspaces`, `MCRequestGuards`, `MCAccounts`, `MCBusinessSettings`, `MCSlugs` | model values, symmetry |
| `MembershipsProofs`, `WorkspacesProofs`, `BusinessSettingsProofs`, `SlugsProofs`, `RbacProofs`, `RequestGuardsProofs`, `AccountsProofs`, `StartUpProofs` | theorems and proofs |

`Memberships` splits a request where the code can be interleaved: `LoadUser`
(`login_required`), `ResolveNamed`/`ResolveSole` (`business_required`), one action
per handler for everything it reads, checks and assigns, and `Commit`, the end of
the one `db_session`. `CreateBusiness` is one step because it reads nothing that
another request writes. `Roster` is the lifecycle of a membership and of the
workspace of a user, with every request atomic; `ImplementsRoster` says that
`Memberships` implements it, with the identity on the two committed tables as the
refinement mapping.

`Workspaces` looks at the same requests from the browser. A request leaves with
the cookie and the token the browser has then (`Send`), is handled in one step,
and its answer arrives later, in any order. `Resolved` tries the candidates in the
order of `resolve_current_business`: header, cookie, claim, column; the first that
is an active membership decides, and if none is, the only membership (a URL that
names the business overrides all this and is in `Memberships`). The cookie is written by the
handlers that change the session, and Flask sends it with a failed request too;
after such an answer the browser is *in doubt* (`told[b] = None`) until it is
told a workspace again. Memberships come and go beside the requests. What
happens between the loads and the commit of one handler is left to `Memberships`.

`BusinessSettings` has two steps for each PATCH: everything up to the last
assignment, and the commit. The settings PATCH saves the whole merged object, if
what it had read is still there; the profile PATCH reads no column of the business,
so its UPDATE has the assigned columns only and no comparison refuses it. A field is sent as
a string that fits (`FieldValues`), as something Pony refuses (`Unfit`: null or
empty, which the route turns into None, or longer than the column) or as no string
at all (`Malformed`). `Unfit` raises: 500, and nothing is saved, for the optional
fields too, which are not nullable. `Malformed` is answered 400 in the middle of a
loop over a frozenset, whose order differs between processes, and leaves the session
normally: any subset of the fields that can be stored may have been assigned by then
and is committed (`UpdateFieldsHalf`). `told` keeps, for each field, what the answers
allow it to be. `AuthTokens` has a clock of
`Sub` ticks to a second, since the code mixes whole and fractional seconds.
`Accounts` has, for a registration, the INSERT, the first commit (which makes the
account) and the answer, and for a reset GET, DELETE and commit, so that a request
may die, and others run, between any two of them.

`Rbac` seeds role by role in one transaction, as `ensure_rbac_seeded` does: the
first statement locks the row of the first permission, and the links are compared
with `ROLE_PERMISSION_KEYS` afterwards. The cache is filled role by role at the
first permission check, outside any transaction, and lives as long as the process.
Processes of different releases run side by side. `RequestGuards` extends
`AuthTokens` and `Rbac` and runs `login_required` and `permission_required` of one
worker after one another; the workers are among the processes that seed.

`Slugs` represents a slug by what it is joined from, so that "acme-2" is the same
slug whether `unique_slug` made it for a second "Acme" or `slugify` for the name
"Acme 2". One iteration of the search is a step, the INSERT (which the query of
`get_system_role` flushes) another, the commit a third.

`Migrations` keeps what is committed (`db`), what each open transaction has
written (`work`), which tables are locked and where each starter is. A migration
that runs wholly inside the first transaction is one step (nobody sees its
intermediate states, and its locks are taken in one order); `1779792000` is split
at the `commit()` that `ensure_rbac_seeded` makes in the middle of it, and its
second half at every lock. The legacy rows, and the role each user must keep, are
the initial state: a blank database, or one from before memberships with every
combination of business and role. The starters in `Skipping` are the Gunicorn
workers, which the entrypoint starts after its own start has succeeded and which
only seed. `DatabaseCreation` is what happens before: probe, connect with
retries, ask the catalogue, CREATE DATABASE. `StartUp` puts the two together: a
starter migrates only once its database is there; every exception, and every death
in the migrations or the seeding, sends it back to the beginning (where it still
creates the database, it fails by an outage or a lost race only); and an outage of
the server takes every open transaction with it.
`DatabaseVersions` is what all this amounts to for whoever
looks at the database: migrations that are executed in order, each together with
its mark, roles that stay what they were, and processes that come up after the
last. The refinement mapping of `ImplementsVersions` takes the marks from
`database_version`, the layout from the role column, and a user's role from
wherever it is stored, by the name the migrations give it in the end
(`LegacyRole`). Against the commit in the middle of `1779792000` this says that
what becomes visible before the mark (tables, seeded roles) is not the change that
the mark stands for.

### What is taken from Pony, PostgreSQL and Redis

None is under `src`; the map marks these definitions external.

- Pony: the only `db_session` that counts is the outermost; a row loaded once is
  not read again by primary key; if a later SELECT meets it with another value
  for an attribute already read, the request fails (`Repeatable`); an UPDATE
  writes the assigned columns only (`Applied`) and repeats, in its WHERE clause,
  the attributes that were read before they were assigned (`StillCurrent`); an
  exception rolls back (`Rollback`, `Abort`, `Fail`), anything else commits.
  `settings_json` is JSONB, which PostgreSQL can compare.
- PostgreSQL: READ COMMITTED; DDL is transactional; locks are held to the end of
  the transaction and granted in the order of arrival; a cycle of waiting
  transactions loses one of them (`DeadlockVictim`); CREATE TABLE IF NOT EXISTS
  beside an uncommitted one waits, and fails if the other commits; an INSERT
  waits for an uncommitted row with its unique key.
- Redis: commands are atomic, a key set by SETEX is gone when its time is over.
- `UNIQUE (user, business)` on memberships comes from the migrations
  (`1779790000_business_memberships.py`); a database created by Pony in
  `INSTALL_MODE` has a plain composite index, and duplicate rows are not
  modelled.
- Flask: the session cookie is sent when the session was changed, whatever the
  status of the answer, and the browser replaces its cookie by the one of the
  answer that arrives last.

## Runs

| run | instance | shows |
|---|---|---|
| `members_serial` | 3 users, 1 business, 1 worker, every status and a malformed one | one request at a time: owners are made by owners, the last owner is lost only by a PATCH to suspended or invited, and a 400 never saves a status |
| `members_concurrent` | 2 users, 2 businesses, 2 workers | typing; stale invitations and acceptances are refused; a removal is not undone by a request in flight; `WorkspaceWasJoined`, `FirstJoinNeedsManager`; refinement of `Roster` |
| `workspaces` | 1 user, 2 businesses, 2 browsers, 2 requests in flight | a request without a header works in the workspace the browser was last told; the column never names a business that was rolled back, though a cookie may |
| `request_guards` | 1 token, 2 workers, 2 releases, 3 ticks a second, life of 3 s, 13 ticks | a revoked token is refused up to the last second of its life; links are always a whole table, caches are granted; refinement of `PermissionTable` |
| `accounts` | 2 emails, 2 passwords, 2 tokens, 3 workers | one account per email, true 409s; a used token is gone, only overlapping requests use it again; passwords are replaced only by a token of the account |
| `business_settings` | 2 keys (1 owner-only), 3 fields (1 owner-only) of 2 values, 2 workers | no lost update of the settings, owner-only keys; a field has the value of the last 200 or one that a later 400 had sent (`FieldsAsAnswered`) |
| `slugs` | 2 workers, 4 businesses, names "Acme", "Acme 2" and one of 255 letters | distinct slugs, no gaps, failures only in races, requests answered unless overtaken (`AnsweredOrOvertaken`) |
| `start_up` | 2 starters that migrate and 1 worker that only seeds, 1 user, 2 legacy roles, 2 kills while migrating or seeding, 2 connection attempts, 1 outage | marks are true, memberships survive, whoever goes on has a database and whoever is up a migrated one, somebody succeeds, the locks never hold up everybody (`SomeoneCanMove`), every attempt ends, everyone comes up unless deadlocks go on for ever; refinement of `DatabaseVersions` |

Runs that find a disagreement between the code and what its texts say:

| run | what it shows |
|---|---|
| `suspended_owner` | the only owner is suspended by PATCH although "Every business must have at least one owner" |
| `owners_race` | two owners demote or remove one another concurrently, and none is left |
| `reset_twice` | two overlapping requests use one reset token, which a test calls single-use |
| `install_mode` | a start on a blank database with `INSTALL_MODE=1` fails: `column_data_type` returns the first letter of the type, and the role column is taken for text |

Three smaller facts are visible in the properties that hold.
`RevokedUntilLastSecond` is as strong as the code allows: the TTL of a blacklist
entry is truncated to whole seconds (`auth/services.py:53`), so a revoked token is
accepted again in the last partial second of its life. `FailsOnlyInRaces` says
when a second business of one name is not created: of two overlapping requests
the later fails on the unique index outside the `try` that would answer 409 and is
answered 500 (`businesses/routes.py:105`); and a name that fills the 255
characters of the column leaves no room for the suffix, so that `Business.get`
raises (`Fits`, `businesses/services.py:17`).

### Bounds

Two workers are enough for a stale read: the properties speak of one request in
flight and one that commits meanwhile. Three users give two owners and a third
who joins or acts; two businesses let a workspace move, and one inviting role is
enough there because no property of that run tells roles apart; the serial run has
owner, admin and staff. One user is enough in `workspaces`: a browser may log in
again only as that user, but a cookie or token left by another login of the same
browser is covered by the theorem, which takes any number of users. Two requests
there overlap and their answers overtake one another. Three ticks to a
second give instants at a second boundary and on both sides of a truncation, and
13 ticks (`Horizon`) let a token issued late in a second be logged out at every
instant of its life. Two releases that differ in both roles let a cache and a
seeding be caught half way between them. Three workers in `accounts` let a third
request start after two overlapping uses of a reset token, or after a registration
and its rival. Four businesses (`MaxBusinesses`) let "Acme" be created beside
"Acme 2" and race for "acme-3". Two migrating starters are the API's entrypoint
and the Celery worker, the third is a Gunicorn worker; two kills (`MaxKills`) kill
both migrating ones, or one twice, at any two steps of the migrations and the
seeding. In the profile, two values per field tell a stale one from the acknowledged
one, and three fields give the name, which is assigned first, one that an admin may
set and one that only an owner may. One legacy user with a
business and a role, without a role, or without a business is enough for what
happens to rows, which are copied one by one; the theorem covers any number. Two
attempts (`Retries`) stand for the code's twelve, and one outage (`MaxOutages`) may
fall into the retries, between connection and statement, or into a migration.

Users, businesses and workers are interchangeable in every safety property, so
they are symmetry sets in the runs of `Memberships`, `Workspaces` (users, businesses
and requests) and `Accounts` (with tokens and passwords), as are workers and field
values in that of `BusinessSettings`. None of these checks liveness, and the runs
that do use no symmetry. `CHECK_DEADLOCK FALSE` stands where
the system stops: all businesses created, all starters up.

### Fairness

The membership, workspace, settings, token, permission and account modules check
safety only and assume none: a request may stop at any step, and nothing retries
it. `Slugs` assumes that a worker goes on with its request (`WF` of `Serve`) and
that a worker waiting for a slug is not passed over for ever (`SF` of `Insert`):
PostgreSQL wakes waiters in order. `StartUp` assumes that a starter that can go on
does (`WF` of `Advance`, which includes being started again after a failure, as a
container platform or the developer does, and the detection of deadlocks by
PostgreSQL), and that a starter waiting for a lock is not passed over for ever
(`SF` of `TakeLock`). Of the server nothing is assumed; `EveryoneComesUp` names its
condition, that the server stays up in the end. `EveryStartEnds` needs no such
condition: the wait for the server is bounded. Kills, outages and new requests are
never assumed to happen. Two restarted starters could deadlock one another again and
again; only their timing prevents it, so `EveryoneComesUp` sets aside the behaviours
in which PostgreSQL ends deadlocks infinitely often, and no others: a half-done
start on which every later one failed would be a counterexample. In the same way a
search for a slug can be overtaken by creations without end. `AnsweredOrOvertaken`
says that it never stops for any other reason: as long as the number of businesses
stays what it is, a request in flight is on its way to its answer. Where finitely
many businesses are created, as in the run, every request is therefore answered;
the bound `MaxBusinesses` is not what makes the property hold.

## Proofs

All hold for any sets of users, businesses, workers and names, from the
assumptions on constants stated in the modules (sentinels are not members; inputs
are roles and statuses or the malformed one; clock and retry
bounds are numbers; workers are among the processes that seed; a name is a
sequence that is not empty; in `Accounts` the workers are finitely many). Each goes
by an inductive invariant, with one step per action. Five theorems have a
hypothesis of their own, named where they are listed: the three on owners speak of
one worker, and two on start-up exclude `INSTALL_MODE`.

- `MembershipsProofs!TypeCorrect`: `TypeInv` adds to the typing that a request with
  assigned columns has a real target and business, and that an assigned status is
  one the table may hold.
- `WorkspaceJoined` and `FirstJoin`: `JoinInv` says that an active row is a joined
  row, and that what each request in flight is about to write keeps this: a
  workspace to be assigned was joined when it was checked, and a row to be made
  active sets `joined_at` with it. The property alone says nothing of the
  requests between check and commit; that `joined` is never unset makes the
  checks stable.
- `NoStaleDecision`, `RemovedStaysRemoved`, `RefusalKeepsStatus` and
  `RosterImplemented`: `DecideInv` says what each request is about to write for
  which operation, what it has read, and that the row it changes is still there
  (`Meant`), and that every row is absent or real. `CommitIsOperation` concludes that a commit which passes Pony's checks is an
  operation of `Roster` on the row as it is *now*: the status was read by an
  invitation and an acceptance, so the comparison makes the old decision a current
  one; the other requests change an existing row, which `Roster` allows for any
  status. The theorems are read off this lemma.
- `OwnersMakeOwners`, `LastOwnerIsSuspended` and `OwnerKept`, with one request at a
  time (`OneWorker`: any two workers are the same one). With more workers they are
  false, as the run `owners_race` shows, so their invariant has to use the
  hypothesis: `SerialInv` says that the membership a request was admitted with is
  the row of the table, and that the row it is about to save is safe for the owners
  there are now (`OwnerSafe`): it makes an owner by an active owner's hand only, and
  takes an active owner away only with a status the guard does not look at, or if
  another active owner remains. The second alternative is where
  `count_active_owners` enters: two active owners counted leave one besides the
  target. `OwnerKept` concludes that every business keeps an active owner if
  moreover nobody sends the statuses `suspended` and `invited`; together with
  `suspended_owner` and `owners_race` it says that these are the only two ways to
  lose the last one.
- `BusinessSettingsProofs!UpdatesKept` (the settings equal the acknowledged values,
  because the save is a compare-and-set and both are merged with the same body),
  `OwnerKeysSafe` (a merged request by an admin carries no owner-only key, and the
  comparison makes the other keys unchanged) and `AnswersKept`: what a request has
  assigned is what its body sent, all of it if the answer will be 200
  (`AssignedAsSent`), so that each commit takes `fields` and `told` along together.
- `AccountsProofs`: the invariant `Safe` says that a reset carries a token issued
  for its user (`Filled`), that a token used is gone and was issued (`Kept`), and
  that between its INSERT and its answer a registration is alone with its email
  (`Alone`). `RegisteredOnce`, `ConflictsAreTrue`, `OnlyItsToken` and `UsedIsGone`
  follow. `UsesAreBounded` counts: once a token is gone, its uses and its holders
  together never exceed the workers (`Bounded`), since nobody else can take it.
- `SlugsProofs!Distinct`, `InOrder`, `OnlyRacesFail`: the invariant says that an
  inserted, uncommitted slug is nobody else's (`Held`), that every number below a
  request's suffix is taken (`Searched`), and that the slug a request is about to
  insert was free among the rows it saw (`Looked`). `Held` is what the unique
  index gives before the commit, `Searched` what the loop gives across its
  queries; both survive other workers' commits because rows are never deleted.
  `TypeCorrect` contains the bound on the search, for which it counts (`BoundInv`):
  the numbers passed over under one name have different slugs, each taken by a
  different row, so a search is at most one past the number of rows
  (`SearchBounded`), and rows and requests in flight together are never more than
  `MaxBusinesses`.
- `WorkspacesProofs!LastAnswerDecides`: the invariant says that a browser that has
  been told a workspace has it in its cookie, and that every answer on its way
  that tells a workspace brings the cookie that names it, and every request takes
  it along (`Consistent`). `TypeCorrect` is not mere typing there: it says that no
  column and no membership names a business that was rolled back, although a cookie
  may, since Flask sends it with the failed request.
- `RbacProofs!SeedingIsAtomic`: the refinement of `PermissionTable`. The lock on the
  first permission keeps the links unchanged while a process seeds, and its
  transaction holds what it wants of the roles it has done and nothing of the
  others (`Seeding`). `CacheIsGranted` adds, for each process that fills its cache,
  that the release present now is among those it has seen (`Caching`).
- `RequestGuardsProofs`: `TokenInv` bounds what truncation loses. A logout in flight
  has computed a TTL that, from now, reaches beyond the beginning of the last
  second of the token's life, and the time that passes until SETEX
  only moves the end of the entry further; an entry in Redis reaches as far. `RevokedUntilLastSecond`
  follows for `AuthTokens` (`Refused`). `GuardsCompose` shows that every step of
  `RequestGuards` is a step or a stutter of `AuthTokens` and of `Rbac`, and
  `GuardsRefuse`, `GuardsCacheGranted` and `GuardsTyped` carry the properties over.
- `StartUpProofs`: `MarksAreTrue` is not inductive, because `1779792000` commits half
  way. The invariant says for each starter what its transaction sees at each place
  of the code (`WorkInv`): whoever has written versions holds the lock of
  `database_version`, so that the versions it read are still the committed ones;
  what others commit meanwhile only creates and seeds (`Grown`), and a finished
  migration stays finished. `MarkedIsDone`, `UpIsMigrated` and `TypeCorrect` follow,
  with and without `INSTALL_MODE`. `BusinessesSurvive` needs a second invariant on the rows
  (`RowsInv`): in `db` and in every transaction a legacy user has its business and
  role in the old columns or in a membership. `ReadyIsCreated` rests on databases
  never being dropped.
- `StartUpProofs!NobodyIsStuck`: which locks a starter has at which place of the code
  (`HoldingInv`), and that who migrates is bound to a database on a server that is
  there (`Attached`). `SomeoneMoves` follows the waits: who waits for
  `database_version` waits for somebody who seeds, which can only be held up at the
  seeded roles, by a starter at its mark, which can only wait for
  `database_version`: the two are a circle. A wait for the memberships or the
  roles leads to one of these. So
  every circle has length two. With and without `INSTALL_MODE`.
- `StartersSucceed`: that all have failed says nothing inductive. `SomeoneGoesOn`
  does: until the database is migrated, and unless somebody was killed, there is a
  starter left that can still migrate it; and when a starter is about to lose the
  creation of `database_version`, one that is past it. Whoever loses a race loses it
  to somebody who goes on, and the victim of a deadlock leaves its rival. It needs
  to know that no migration can fail on what it finds (`ClearInv`, with `Laid`:
  the roles are stored as the marks say, and are roles that `1779792000` can link)
  and that whoever seeds in a migration has seen what is there. The hypotheses are
  `~Install`, since `install_mode` is a counterexample, and that some starter
  migrates at all (`Starters \ Skipping # {}`).
- `VersionsImplemented`: the refinement of `DatabaseVersions`, for `~Install`, where
  the tables that Pony creates are not those of the migrations. `MarksAndUp` says
  that a step only adds marks, and that nobody comes up but on all of them; `Laid`
  gives the layout from the marks before and after the step; `RowsInv` gives the
  roles, since neither renaming nor linking changes a role it has changed before
  (`RenamedOnce`).

Model-checked only: the liveness properties `AnsweredOrOvertaken`, `EveryStartEnds` and
`EveryoneComesUp`, since liveness under fairness is beyond the prover used. The two
properties that the code violates (`EveryBusinessHasOwner` with several workers or
the two statuses, `SingleUse`) and `SomeStarterSucceeds` under `INSTALL_MODE` have
counterexamples instead of proofs. No definition a theorem speaks of is recursive,
so nothing needed induction over data.

## Not modelled

- The comparison of the password at login: it changes nothing and is a refusal.
- The labels and descriptions of the RBAC seed, and which permission goes to which
  role beyond those that guard the modelled routes; `Grants` is any table.
- `down()` of the migrations, which nothing in the repository calls;
  `drop_postgres_database`, for test databases; the commands that generate
  migrations and resources, run by hand.
- Logging, configuration, health check, the Celery task, read-only routes: no state
  that two steps share. The stub packages are empty.

## Plan

In order of what is at stake. Done: the core (`Memberships`, `Roster`), settings,
tokens, accounts, slugs, workspaces, the permission cache and its seeding, the
composition of the guards, migrations and database creation composed in
`StartUp`, and the proofs above. Left:

1. A composition of `Memberships` and `Workspaces`, so that a cookie may be read
   between the loads of a request that ends the membership it names.
2. Pure functions against reference definitions: `slugify`, the validators,
   `normalize_role`, parsing of `versions_executed`.
