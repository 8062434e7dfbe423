# Verification of the coding farm's control plane

The coding farm is a self-hosted platform for cloud workspaces. A Go service,
the *Management API* (`src/backend`), keeps templates and sessions in
PostgreSQL and drives the Fly.io API so that each session has a Fly app, a
volume and a machine of its own; a React page (`src/frontend`) shows them; a
shell script (`src/scripts/deploy.sh`) installs it all. This directory holds
TLA+ models of that code, TLC configurations that check them on small
instances, and TLAPS proofs of what holds for every instance.

## 1. Inventory

| Part | Code | State it keeps | Operations | What makes it correct |
|---|---|---|---|---|
| Session lifecycle | `service/orchestrator.go`, `db/sessions.go`, `api/handlers_sessions.go` | row of a session: status, organisation, template, five columns naming Fly resources | create, get, list, resume, hibernate, delete | a row leaves `pending`; its status fits the Fly ids it carries; no machine and no volume without a row; a success answer is true; statuses follow one lifecycle |
| Template lifecycle | `service/orchestrator.go`, `db/templates.go`, `api/handlers_templates.go` | row of a template: status, image reference, app name | create, get, list, delete (cascades), build | a recorded image was pushed; a template `building` has a builder; the image is lost only to a failed build |
| Schema and repositories | `db/` | tables, keys, cascade | the statements | tenant isolation; a missing row is reported as one |
| Fly client | `fly/` | none (30 s timeout) | EnsureApp, CreateVolume, CreateMachine, Start, Stop, Destroy, BuildImage | a reply that does not come leaves the outcome open; one that breaks off behind its headers tells no id; a 409 for an app is success |
| HTTP layer | `api/` | none | routing, error mapping | a status code tells what happened |
| Token verification | `auth/verifier.go` | cached key set, refresh loop | refresh, verify | keys are not older than a refresh interval, refreshing never ends |
| Identity | `auth/middleware.go`, `db/orgs.go` | users, organisations, memberships | three upserts per request | same user for the same subject; a membership for everyone served; roles are not lost |
| Start, shutdown, migrations | `cmd/api/main.go`, `db/db.go` | `schema_migrations` | boot, migrate, serve, drain | each migration recorded once applied; a process that cannot serve ends |
| Configuration | `config/config.go` | none | Load, validate, the URLs derived from the Logto domain | whichever way the domain is written, the process expects the issuer the tokens carry |
| Data hook, pages | `frontend/src/hooks`, `components/Dashboard.jsx`, `Templates.jsx` | list shown, loading flag, error | fetch at mount, act and refresh, leave and return | the list shows what the user was told was done, never goes back, and loading ends |
| Sign-in | `frontend/src/App.jsx`, `logto.js` | the Logto SDK's | the SDK's | the SDK's |
| Deployment script | `scripts/deploy.sh` | `.env`; what it made at Neon, Logto and Fly | six commands that create what is missing, overwrite what is there, write ids back to `.env` | what is reported as done is done; a rerun repairs what an earlier run left half done; nothing is made twice; the API keeps its database |
| Workspace image | `docker/` | none | a container recipe | nothing to check |

How they interact. A request passes token verification and identity, which
yields the tenant (user and organisation); its handler calls the orchestrator
or a repository. The orchestrator is a straight line of calls, each to the
database or to Fly, with the request's own context. There is no lock, no
transaction across calls, no worker and no reconciliation: handlers of one or
several processes meet only in the rows and in the resources on Fly, where
Fly's proxy also acts by itself, suspending idle machines and waking them. The
frontend knows the API by its answers only. The deployment script runs before
all of that, by hand, and meets it in the secrets of the API's app and in the
constants baked into the page.

What is hard, therefore: every gap between two calls, in which another handler
may resume, hibernate, build or delete the same thing; a client that hangs up
and takes with it the context the cleanup needs; a Fly call whose reply is lost,
or comes without its body; a restart between two steps; status columns that lag
behind Fly; and updates that name a row by its id alone, so that isolation rests
on a lookup several calls earlier. In the page, answers that arrive in another
order than the requests left. In the script, a run that ends between creating
something and writing down its id. `PROJECT.json` lists each such hazard at its
line, with the properties that watch it.

## 2. The modules

| Module | Models | Extends |
|---|---|---|
| `Calls` | how a call to the database or to Fly comes back | |
| `Platform` | tables and statements, Fly's resources, requests, HTTP error mapping; `TypeOK` | `Calls` |
| `Sessions` | the session routes, one action per database or Fly call | `Platform` |
| `Templates` | the template routes and the image build | `Platform` |
| `ControlPlane` | all handlers interleaved, the proxy, restarts; the properties | `Sessions`, `Templates` |
| `SessionLifecycle` | abstract: what the statuses promise to a reader | |
| `Identity` | the middleware that turns a token's claims into user, organisation and membership, and `/api/me` | `Calls` |
| `Admission` | abstract: each request acts for a member, members stay members | |
| `Configuration` | what a process makes of its environment: required values, the issuer and key URLs, the refresh interval | |
| `Process` | the life of an API process: environment, boot, migrations, key refresh, serving, shutdown; several on one database | `Calls`, `Configuration` |
| `DataHook` | a page, its hook and its actions, against a list others change too | |
| `Deploy` | the deployment script, what it finds and makes, and the operator who runs it again | `Calls` |
| `MCControlPlane` | constants for TLC | `ControlPlane` |
| `MCIdentity` | constants for TLC | `Identity` |
| `MCProcess` | constants for TLC | `Process` |
| `MCDeploy` | constants for TLC, and one documented claim | `Deploy` |
| `DocumentedClaims` | what the repository says of the control plane and the code does not do | `MCControlPlane` |
| `CallProofs` | lemmas about replies | `Calls` |
| `ControlPlaneProofs` | type correctness, tenant isolation | `ControlPlane`, `CallProofs` |
| `SessionProofs` | statuses, success answers, the refinement of `SessionLifecycle` | `ControlPlaneProofs` |
| `ResourceProofs` | images; rows, handlers and Fly while the database and the clients stay; orphans, statuses and images while clients wait for each other | `SessionProofs` |
| `IdentityProofs` | identity, including the refinement of `Admission` | `Identity`, `CallProofs` |
| `ProcessProofs` | spellings of the domain, migrations, keys, issuers, the end of a process | `Process`, `CallProofs` |
| `DeployProofs` | what a run of the script leaves behind, whatever failed before | `Deploy`, `CallProofs` |
| `DataHookProofs` | what a page shows | `DataHook` |

`ControlPlane` and `Identity` meet at one place: what `Identity` calls serving
is the point where a handler of `ControlPlane` accepts its request, for one of
`Orgs`. They share no other state, since no statement of the handlers writes
the identity tables but the foreign keys that refer to them. `Process` is the
frame around both: what its shutdown and its kill cut off is the `Crash` of the
other two; that a graceful end falls between two calls only is pgxpool's
contract (`pool.Close` waits for the connections that are out), assumed in the
guard of `Exit`. `DataHook` sees the API as a list that changes and
answers that may fail, which is what `ControlPlane` offers it; `Deploy` shares
no state with the others.

### From code to model

*Requests.* `req[r]` is a handler goroutine: its route `op`, its tenant `org`,
the ids `sid` and `tid`, the image it carries in a local variable (`img`),
whether its context is still live, and `pc`, the call it makes next. An action
is one call and all the code up to the next. The lookup a route starts with is
part of the action that accepts the request.

| Route | Actions, in order |
|---|---|
| `POST /sessions` | `CreateSession` (templates.Get, choice of image, new id), `InsertSession`, `EnsureSessionApp`, `CreateVolume`, `CreateMachine`, `Provisioned`, `ReloadSession`; on failure `UndoVolume`, `FailSession` |
| `POST /sessions/{id}/resume`, `/hibernate` | `ResumeSession` or `HibernateSession` (lookup), `Power` (start or stop), `RecordPower`, `ReloadSession` |
| `DELETE /sessions/{id}` | `DeleteSession` (lookup), `DestroyMachine`, `DestroyVolume`, `DeleteRow` |
| `GET /sessions`, `/sessions/{id}` | `ListSessions`, `ReadSession` |
| `POST /templates/{id}/build` | `BuildTemplate` (lookup), `MarkBuilding`, `EnsureTemplateApp`, `BuildImage`, `MarkReady`, `ReloadTemplate`; on failure `MarkFailed` |
| other template routes | `CreateTemplate`, `ReadTemplate`, `ListTemplates`, `DeleteTemplate`, one statement each |

*Calls.* `Replies(live, faults, possible)` is the set of ways a call can come
back: done; refused (nothing happened); lost (it happened, the caller sees an
error); the client hung up during it (an error, the context dead from then
on, either outcome). With a dead context nothing is sent any more. Each action
says what happens to the state when the call was `applied` and where the
handler goes when it `failed`; these are independent, as they are on a network.
`Told` is about the bodies of Fly's replies: `Client.do` drops the error of
reading one and decodes it only if it is not empty, so that a reply which breaks
off behind its 2xx headers is a success with an empty id. The creation goes on:
it asks for a machine that mounts the volume `""`, which Fly may refuse, and
`Provisioned` stores NULL for what was not told. A body cut in the middle does
not parse and is an error, that is a lost reply.

*Tables.* `sessions` and `templates` map ids to rows or `NoRow`. An `UPDATE`
by id of a row that is gone changes nothing and reports nothing
(`Provisioned`, `SetStatus`, `UpdateBuildStatus`); `DELETE` and `SELECT` filter
by organisation; deleting a template takes its sessions along (`Cascade`);
the foreign key refuses a session whose template is gone.

*Identity.* `users` and `orgs` are functions of `logto_id`, which is UNIQUE;
`memberships` is a function of its primary key. `EnsureUser`,
`EnsureOrganization` and `EnsureMembership` are one upsert each: an existing
row keeps its id, a new one gets a fresh UUID, a role is overwritten. `KeyOf`
and `RoleOf` are the two branches of `resolveIdentity`: the personal
organisation as admin, the organisation of the claim as member. Of what follows only
`/api/me` reads these tables again (`Me`), so it stands for all routes.

*Processes.* `proc[p]` is one process: the step of `run()` it is at, the
migration it works on, whether the context of `run()` is still live, the cached
key set, the fetches it waits for, the requests it serves and those of them
that hold a connection. `Ping`, `EnsureTable`, `Check`, `Apply`, `Record` are
the statements of `db.New` and `Migrate`, any of which may fail or lose its
reply and then ends the process; `FetchKeys` is the first fetch, `StartRefresh`,
`RefreshArrives` and `RefreshFails` the loop; `Signal` cancels the context;
`Shutdown`, `Drained` (by emptiness or after 15 s) and `Exit` (after the
deferred `pool.Close`) are the end of `run()`. A migration body goes out as one
simple query and is one transaction. The lookup of a migration and its
application are two statements, so two processes may both apply it, the slower
one even after it was recorded; the bodies have to be idempotent, as the
contributor's guide asks, and the model takes them to be. The issuer's key sets
are numbered, each with a key of its own and the one before (external).

*Configuration.* `Environments[p]` is what instance p may be started with, and
`proc[p].env` what it was started with. A URL is a sequence of parts (the origin
of the tenant, slashes, `oidc`, `jwks`), so that trimming and appending are done
on it as the code does them. `Missing` is `validate`; `Issuer` and `JWKSURL`
decide whether the first fetch can succeed and which tokens are accepted;
`Refreshes` whether there is a loop.

*The page.* `page` is the state of `useApiData`; `fetch` its calls to the list,
`action` the calls of the page's buttons and forms, each on its way to the
server or, with the list it read or made, on its way back. `Refresh` is the hook
up to its `await`; `ActionAnswered` is an answer and the refresh behind it;
`Remount` a page left and entered again, after which old answers reach a
component nobody renders. The list is the number of changes it reflects.
`acked` (the newest list an answer to this page speaks for) and `overlapped`
are history.

*The deployment script.* `Plan` gives the steps of each command; `script` is
the run, with the steps it still has to do and its variables. `file` is `.env`
or, when it is not `there`, what the environment has in its place. `Called` is the
reply to a call: `Disconnects` stands for an interruption of the script during
it. `Found` is a lookup, of which a failing one reads as nothing there, since
the script discards its error; `Printed` what `jq` makes of a reply; `Written`
the writing back to `.env`, which happens only if there is one, and only appends
where there is no such line.
`Strict` is `errexit`, which is in force everywhere but inside `$(fly_deploy)`,
as the command `all` calls it. `calm` says that from now on nothing fails; a run
is `clean` when it started after that, with an `.env` it can succeed with, so
that `RerunRepairs` speaks of the rerun after the cause is gone. `misread`
remembers that a lookup of the SPA applications failed.

*Abstractions.* A tenant is an organisation together with one user. Ids are
minted from a finite set and never reused; `mintedBy` remembers for whom, and is
history only: no guard reads it but "not used yet" and "known to a client".
Clients may name any minted id, their own or another tenant's. Of the five
columns only `Provisioned` writes, the ids of machine and volume may each be
NULL, and the other three are set together: `ids` is the set of those that are
set (`FlyIds`), and `req[r].ids` what the handler was told or read of them.
`astray` is history: the sessions of which Fly made something without telling
its id, and those of which it did not destroy what it was asked to. A session's
app, volume and machine are named by the session's id, since the code makes
exactly one of each; an image by its template's id, since the reference is the
same for every build. Names, regions, ports, timestamps, Dockerfile contents and
the 400 and 401 answers, which are given before anything happens, are left out.
The app names the code derives by truncating an id are taken to be distinct.
Apps are never destroyed in the code, so `apps` only grows. The status `stopped`
is declared in the code and written by nobody.

*NULL columns.* `TemplatesRepo` and `SessionsRepo` scan nullable columns into
Go strings. pgx v5 refuses that for a NULL, and a new row is full of NULLs: the
statement takes effect and the caller sees an error. The constant
`NullAsEmpty` says which driver is meant. With `FALSE`, the one in `go.mod`, the
run `null_columns` shows that no template is ever acknowledged, and nothing
beyond that can be reached: every lookup of a row without an image fails, so
nothing is built and nothing launched. The theorem `NothingIsLaunched` says it
of every behaviour: no session is ever stored and no template gets an image. All
other runs of the control plane, the passing ones as well as `delete_race` and
`hangup_create`, use `TRUE`, a column that reads as the empty string, which is
what the orchestrator's own tests against `""` and the stores in the
repository's tests assume; they tell what the handlers do once that scan is
repaired, and the defects those two runs show are in the code but latent until
then. `Identity` has the same constant for
the e-mail of a user, and its run uses `FALSE`: a subject whose first token
carries no e-mail gets a user row and a 500 at each request, and only `COALESCE`
keeps the others from that (`MembersCanReturn`). The theorems hold for both
values; with `FALSE` those about sessions hold because there are none.

## 3. What the runs check

Bounds: `Requests` handlers at once, `SessionIds` and `TemplateIds` ever
created. A handler that has answered may serve again, so behaviours are of any
length; what is bounded is how many rows are ever made.

| Run | Instance | Shows |
|---|---|---|
| `faults` | 2 handlers, 1 tenant, 1 session, 1 template, every route that writes, every fault of Fly, replies without a body included, and of the database, hang-ups, restarts, the proxy | `TypeOK`, `IdsMatchStatus`, `ImagesArePushed` (partly), `AnswersAreHonest`, and that the code implements `SessionLifecycle` (`RefinesLifecycle`), whatever goes wrong |
| `tenants` | 2 handlers, 2 tenants, 1 session, 2 templates, all routes, no default image | `RowsStayInTenant`, `HandlersStayInTenant`, and that a machine never boots another tenant's image |
| `healthy` | 2 handlers, every Fly call may be refused; database up, clients stay | `PendingHasCreator`, `BuildingHasBuilder`, `RowMatchesFly`; every request is answered and every session leaves `pending` |
| `turns` | 2 handlers, 2 sessions, every route that writes but template deletion, under `InTurnSpec`: a request begins on a session, or builds a template, only when nobody is at work on that session, or builds that template; Fly may refuse any call, and lose any reply or its body but that of StartMachine and StopMachine (`FlyFrank`) | `StatusMatchesMachine`, `NoOrphans`, `ImageIsKept` |
| `identity` | 2 handlers, 2 subjects, one claimed and two personal organisations, tokens with and without e-mail, a driver that refuses NULL, every fault of the database, hang-ups, restarts | `ServedAreMembers`, `GrantsFitTokens`, `MeListsItsOrg`, `MembersCanReturn`, and that the upserts implement `Admission` |
| `process` | 2 processes, each started with another spelling of the domain and another interval, or with something missing, 2 migrations, 3 key sets, every fault of statements, refused and hanging fetches, a taken address, signals, kills | `MigrationsInOrder`, `ServesMigrated`, `IssuersAgree`, `KeysNeverGoBack`; `SignalEnds`: a signalled process ends whatever hangs; `BootEnds`; `RotationIsPickedUp` |
| `deploy` | all six commands, any number of times and in any order, no `.env` or one with lines left out or blank, one change of the settings, every call refused or its reply lost, lookups failing, interruptions | `OkIsDeployed`, `RerunRepairs`, `OneSpaApp`, `DatabaseIsKept` |
| `data_hook` | a page with 2 actions and 2 fetches at once, 3 changes of the list, by the user or by others, every call failing at any point, the page left and entered again | `OwnWritesShown`, `ListNeverGoesBack`; `LoadingEnds` |

Two handlers are enough for the interleavings: the properties relate one row to
at most the handler that writes it and one other that disturbs it. Two tenants
are enough for isolation, and two templates for a template of each. The second
session in `turns` lets one be created beside one in use, and in `tenants` a
second would only repeat the first. Handlers are interchangeable, in `tenants`
tenants and templates too, hence the symmetry in the runs without liveness.
`faults` tells states apart by what the future depends on (`Present`): neither
by what a handler that is free did before nor by the history `astray`, which no
guard and none of its properties reads. No run disables deadlock checking: a
handler that is free can always accept a request. In `process` two instances
meet in the gap of `Migrate`, two migrations make an order, and three key sets
one whose key is withdrawn. Two fetches suffice to overlap, a third would only
repeat it; three changes are one more than two actions make, so that another
client's comes between. In `deploy` a second project, a second SPA application
and a second version of the settings are each the one too many that a property
is about; the bounds `MaxProjects` and `MaxSpas` are in the guards of `Start`
and `EnsureSpa`.

Each restriction of a passing run is there because the property needs it, and
is itself something to know about the code:

- `PendingHasCreator` and `BuildingHasBuilder` fail with a restart, a hang-up or
  a failing database: there is no reconciliation, the row stays as it is.
- `RowMatchesFly` holds while a deletion is not under way: `deleteSession`
  destroys first and deletes the row last.
- `NoOrphans` speaks of machines and volumes. Apps it leaves out: every session
  has one made, and no code destroys it. It excepts the sessions that are
  `astray`: where Fly created a machine or a volume without telling its id
  (a lost reply, or one without its body), and where it did not destroy what it
  was asked to, which `DeleteSession` and the failure path ignore; the request to
  destroy a machine has no `force`. It fails when a session is deleted while it
  is created (see `delete_race`), and that is the only overlap it fails with (the
  theorem `NothingIsOrphaned`), and with the deletion of a template.
- `StatusMatchesMachine` fails as soon as a resume and a hibernation of one
  session overlap,
  when a status update is lost (its error is ignored), and with the proxy.
- `BootEnds` lets a boot end in a first fetch that hangs or with an address that
  is taken (the process then stays, serving nothing, until it is signalled), and
  `RotationIsPickedUp` excepts a hanging fetch (see below) and a process whose
  `JWKS_REFRESH_INTERVAL` is zero or negative, which switches refreshing off.
- `IssuersAgree` speaks of domains written as the comments allow, and of every
  process that fetched its keys from the URL it derived; one that was given
  `LOGTO_JWKS_URL` as well may expect any issuer.
- `ImageIsKept` fails when two builds of one template overlap: the one marking
  the row writes back the image reference it read before the other recorded its
  own.
- `OwnWritesShown` and `ListNeverGoesBack` except fetches that overlap: nothing
  orders their answers. `OwnWritesShown` also excepts a page that shows an error.
- `OkIsDeployed` asks nothing of the API after `all`, and not the API's URL in
  the page; `OneSpaApp` excepts a failed lookup; `DatabaseIsKept` excepts runs
  that find no `DATABASE_URL` and have nowhere to write one (`Remembers`), because
  its line in `.env` is blank (see `deploy_rerun`) or because there is no `.env`.

`InTurnSpec` restricts the clients, not the code: nothing in the API makes a
request wait for another one.

*Fairness.* `FairSpec` adds weak fairness of each handler's next step: each
handler is a goroutine the Go runtime schedules, each Fly call ends with the
client's 30 s timeout at the latest, and a statement ends when the database is
up. No client is obliged to send anything, and the proxy to do anything.
In `Process` the steps of boot, refresh and shutdown are weakly fair, as is the
end of a statement; a refresh that succeeds is strongly fair, which says of the
issuer that it does not refuse every fetch for ever. Nobody has to signal,
rotate, start a process or finish a request. In `DataHook` a fetch is weakly
fair: a browser's request ends with a reply or an error. `Deploy` states no
fairness: a script may always be interrupted, and its properties are safety.

### Where the code departs from what the repository says

Each of these runs checks one claim and TLC refutes it. The first two are about
the orchestrator and assume repaired scans of NULL: with the pgx of `go.mod` the
third claim fails first and the code never gets to the others. The shortest
counterexamples, in the terms of the code:

- `delete_race` (`DeletionIsComplete`). A creation has inserted its row. A
  deletion finds the row without ids, skips Fly, deletes it and answers 204.
  The creation goes on, creates app, volume and machine; `Provisioned` updates
  no row, which is no error; only the reload notices and answers 500. Machine
  and volume run on and no row names them.
- `hangup_create` (`FailureMarksError`). The client hangs up while the volume is
  created. The call errs, `failSession` updates with the cancelled context, the
  update errs too and its error is dropped: the row stays `pending`.
- `null_columns` (`StoredTemplateIsAcknowledged`). See *NULL columns* above: the
  template is stored and the answer is 500.
- `deploy_rerun` (`OneProject`). `.env` has the line `DATABASE_URL=`, left blank
  for the script to fill in. `preflight` creates a project and does not write
  its URL back, since there is such a line. The next command creates another
  project, and `fly` moves the API to it; nothing has failed.

The models show more of the kind, which have no run of their own:

- A Fly reply that breaks off behind its 2xx headers is taken for a success with
  an empty id (`Told`): the session is answered with 201 and shows `running` with
  no machine or no volume to its name; it can then be deleted but neither resumed
  nor hibernated, or, with the machine but no volume named, leaves its volume.
- Nothing destroys the app of a session, whether it fails or is deleted
  (`EnsureSessionApp`). A machine Fly does not destroy is left behind when the row
  goes (`DestroyMachine`).
- A template deleted while a session of it runs takes the row along by the
  cascade; nobody calls Fly (`DeleteTemplate`).
- A lookup that finds nothing wraps `pgx.ErrNoRows`, `mapError` knows
  `db.ErrNotFound` only, and the answer is 500 instead of 404 (`LookupError`).
  Nothing leaks to another tenant; the code is wrong.
- The key refresh fetches with `context.Background()` and a client without a
  timeout; a reply that never comes ends all refreshing (`Never` in `fetches`).
- A tenant's domain that ends in `/oidc` passes the script's check, which then
  appends `/oidc` once more; the service normalises it.
- `all` goes on when a Fly step of the API fails, and reports success: `errexit`
  is lost in the command substitution. It also takes all that `fly_deploy`
  printed for the API's URL and bakes it into the page (`api` in `Bundle`).
- An error reply to the creation of the SPA application is read as the id
  `null` and written to `.env`; a lookup that fails makes a second application;
  a synchronisation without a reply passes for done; `LOGTO_APP_ID=` left blank
  is never filled in.
- Without an `.env`, which the script allows, nothing is written back: each
  command that wants a database and finds no `DATABASE_URL` creates a project
  (`Written`), and `fly` moves the API to it.
- `.env` overrides variables that are set already, against the comment of
  `load_env`; a changed audience reaches the page only with `web`, which the
  guide does not mention.
- In the page, of two fetches that overlap the older answer may come last and
  stay, and the error of one hides the list of the other. An action whose answer
  is an error refreshes nothing, though it may have been carried out.

## 4. What is proved

Theorems of each module's `Spec` (or of `PatientSpec` or `InTurnSpec`), for any
sets of handlers, tenants, sessions and templates, of processes, subjects, `.env`
files, fetches and actions, finite or not, every set of routes and commands,
every combination of faults, hang-ups, restarts and proxy, and both readings of
NULL, unless said otherwise. Every
invariant and every action property that a passing run checks is a theorem. The
assumptions are those named in the modules: ids, rows, values and the markers
for "none" are distinct (`IdsAreDistinct`, `MarkersAreDistinct`,
`ValuesAreDistinct`), the environment's constants have their types
(`EnvironmentIsKnown`, `IdentityEnvironment`, `ProcessEnvironment`,
`DeployEnvironment`, `PageEnvironment`), and the identity provider issues no
organisation id that begins with `personal:` (`KeySpacesApart`), which the code
takes for granted: both kinds of key share a column. TLC evaluates them in every
run.

- `TypeCorrect == Spec => []TypeOK` (`ControlPlaneProofs`). `TypeOK` is
  inductive because it includes `HasTarget`: a handler in the middle of a route
  has a tenant and the ids that route works on. Without that conjunct
  `sessions[req[r].sid]` need not be a row, and no step can be typed. One lemma
  per action, over lemmas on the replies and on the updates of the tables.
- `RowsIsolated == Spec => []RowsStayInTenant` and `HandlersIsolated == Spec =>
  []HandlersStayInTenant` (`ControlPlaneProofs`). Neither is inductive alone. A row
  keeps its owner because whoever inserts it works for the tenant its id was
  minted for, and that is a statement about handlers; a handler past its lookup
  works within its tenant because the row it found belonged to the tenant of
  its id, and that is a statement about rows. The induction goes over both
  together with `TypeOK`. Most steps keep owners, templates and targets
  (`SessionsKept`, `TemplatesKept`, `HandlersKept`) and are done by one lemma;
  the others are those that mint an id (which disturbs nothing, since no row
  and no handler has an id that is not minted), insert a row (where the foreign
  key is needed), accept a request (where the filter of the lookup is needed)
  and cascade.
- `IdsTellStatus == Spec => []IdsMatchStatus`, `SuccessIsHonest == Spec =>
  AnswersAreHonest` and `ImplementsLifecycle == Spec => RefinesLifecycle`
  (`SessionProofs`). `IdsMatchStatus` ties the status to the app's name, and
  `suspended` to the machine's id: a row may be `running` without a machine or a
  volume to its name (see `Told`), and 201 says no more than that the row names
  what Fly's replies told. The statements name a row by its id and look at
  nothing else, so what keeps `Provisioned`, `SetStatus` and the error status
  off a row in the wrong status is which handlers can be at work on one id at
  once. The inductive invariant `SessionsFit` says it: a creation has its id to
  itself among creations and among handlers that found Fly ids, and its row,
  once there, is pending (`CreatorsFit`); a row found with ids, or just
  provisioned, has the very ones the handler knows still, if it is there
  (`UsersFit`). Other handlers may be at the deletion of the same row, which is
  the race of `delete_race` and does no harm to these properties. The answers
  need in addition that a handler makes the calls of its own route
  (`RoutesFit`). In the refinement `InsertSession`, `Provisioned`, `FailSession`
  and `RecordPower` are the steps of the lifecycle, deletion and cascade end it,
  everything else is a stutter.
- `ImagesComeFromBuilds == Spec => []ImagesArePushed` (`ResourceProofs`). The
  invariant `ImagesFit` follows a reference from the build, which pushes before
  it goes on, to the row, to the handler that read it and carries it over
  several calls, to the machine; nothing on the way is undone because images
  are never withdrawn and an id keeps its tenant.
- `NothingIsLaunched` (`ResourceProofs`): with a driver that refuses NULL, as in
  `go.mod`, no session is ever stored and no template has an image. It needs no
  premise but that one, and says for which reading of NULL the other theorems
  about sessions have something to speak of.
- `PendingIsTended`, `BuildsAreTended`, `RowsMatchFly` (`ResourceProofs`): the
  properties of the run `healthy`, under its assumption (`Sheltered`: the
  database answers, no client hangs up, no process dies) and for every fault of
  Fly, lost replies and lost bodies included; with a driver that refuses NULL
  the first holds because there are no rows (`Unlaunched`). Then every context
  stays live (`ClientsStay`) and every statement takes effect, so a handler that
  was tending a row still does after each step or has just written it.
  `RowsMatchFly` needs that the machine and the volume whose ids a handler was
  told exist (`HandFits`), that nobody else takes them down (`CreatorsFit`), and
  that a deletion finds its row by its tenant (`Isolated`).
- `NothingIsOrphaned == TidyWorld => (PatientSpec => []NoOrphans)`
  (`ResourceProofs`). `TidyWorld` is `Sheltered` and no deletion of templates;
  Fly may refuse any call and lose any reply. `PatientSpec` lets any number of
  requests of any kind overlap, but for a deletion that begins while its session
  is created. `NoOrphans` excuses what a creation is still working on, so it is
  the invariant `TidyFit` that carries the failure paths: unless the session is
  `astray`, what each step of a creation has put up so far the handler was told
  (`HandTidy`), and what a deletion has still to take down its handler read from
  the row, although other deletions of the same session may be taking it down as
  well. Apps are not spoken of. A handler that deletes never meets a creation
  later either, because ids are made once (`CreatesNew`). Clients that take
  turns are patient (`TurnsArePatient`), so the run `turns` is an instance. Each
  restriction is one of section 3, and is needed: without it TLC finds an
  orphan, and so it does without the exception of what went astray.
- `StatusIsTrue == StatusWorld => (InTurnSpec => []StatusMatchesMachine)`
  (`ResourceProofs`), for any number of sessions in use at once, with the database
  up, clients that wait, no proxy, and a Fly that answers for starts and stops.
  Status and machine are apart within a resume, a hibernation and a deletion
  (`UnsettledPcs`); the invariant `StatusFits` says at which calls, and that the
  handler which is at such a call is on its way to the status that fits. That
  clients who begin in turn stay apart to the end is `TurnsTaken`.
- `ImagesAreKept == InTurnSpec => ImageIsKept` (`ResourceProofs`), whatever
  fails, hangs up or restarts: marking a row as building writes back the
  reference the lookup read, and `ReadFits` says that it is still the row's.
- `MembersAreServed`, `MembersReturn`, `GrantsAreSound`, `MeIsComplete`, `IdentityTyped`,
  `ImplementsAdmission` (`IdentityProofs`), the last one a refinement. The
  inductive invariant `IInv` adds to the stated properties that an id names one
  row (`IdsUnique`), that a membership refers to rows that exist
  (`MembershipsRefer`) and what a handler knows after each upsert
  (`HandlersFit`). The second is what makes a fresh UUID harmless: no
  membership can be waiting for it. For the refinement, the first two upserts
  are stutters, the third admits, and the end of a request or of the process
  leaves.
- `MigrationsAreOrdered`, `ServersAreReady`, `ServersAgree`, `KeysAdvance`,
  `ProcessTyped` (`ProcessProofs`), for any number of processes, migrations and
  key sets. The inductive invariant gives each process what it relies on
  (`Fits`): one that works on migration n knows all before n recorded, one about
  to record it knows it applied, one past the loop knows all recorded, and the
  single answer under way to its refresh loop is no older than its keys. Since
  tables and key sets only grow, nobody disturbs what another relies on
  (`FitsGrows`), and each action is checked for the process that takes it.
  `ServersAgree` rests on lemmas about the configuration: whatever number of
  slashes the domain is written with, `Normalize` yields the tenant.
- `DeployTyped`, `SuccessMeansDeployed` (`OkIsDeployed`), `RerunsRepair`
  (`RerunRepairs`), `SpaAppIsOne` (`OneSpaApp`), `DatabaseStays`
  (`DatabaseIsKept`) (`DeployProofs`), for any `.env` to begin with, any sequence
  of commands and any faults. None of the first three is inductive: what holds at
  the end of a run was brought about some steps earlier, and the types
  themselves rest on it (a bundle holds an application's id only because a step
  before found one). The invariant `Fits` says, for each step a run has behind
  it (`Over`), what it left: values in the run's variables (`ValuesFit`), secrets,
  release and bundle (`Deployed`), and, in a clean run, resource, application and
  apps (`CleanFits`). Each of these is touched by its own step only
  (`OnlyItsOwn`), and every plan takes the steps in one order (`Rank`, `PlanFits`),
  so that a step finds what the steps before it left (`EarlierIsOver`) and does
  not disturb it (`Passed`). `Answerable` names the runs in which no failed call
  can have gone unnoticed: all but `all`, where `errexit` is off in the command
  substitution, unless nothing fails. `DatabaseStays` rests on `KeptFits`: as long
  as a value is there or would be written back (`Remembers`), `.env`, the run and
  the secrets are on one database, also while `neon-create` makes projects nobody
  asked for. An `.env` that is blank there stays so, and an environment without a
  value too (`ForgottenStays`), so that nothing is claimed of them in any step.
- `PageTyped`, `PageShowsOwnWrites` (`OwnWritesShown`), `PageMovesOn`
  (`ListNeverGoesBack`) (`DataHookProofs`), for any number of fetches and
  actions. The invariant: unless fetches overlapped there is one at most
  (`OneFetch`), what it brings is no older than what the page shows and than
  every answer given before (`FreshEnough`), nothing is newer than the server's
  list (`NothingFromTheFuture`), and a page at rest shows what it was told
  (`AtRest`).

Only model-checked: liveness. `RequestsAreAnswered`, `PendingResolves`,
`SignalEnds`, `BootEnds`, `RotationIsPickedUp` and `LoadingEnds` rest on fairness
and on which actions are enabled, which the prover does not handle; they stay
with TLC for good.

## 5. Not modelled, and the plan

Left out for good: page rendering and the Logto SDK (no protocol of this
repository's), the workspace image (a recipe), signatures and claims of tokens
(the JWT library's), the 400 and 401 answers, CORS and health checks, which
change nothing. Two runs of the deployment script at once are not modelled: the
script is run by hand, by one operator. So are its commands that print or serve
locally (`logto`, `frontend`, `help`).

Next, most important first:

1. A composition of `Process` and `ControlPlane` in which the handlers of a
   process end with it, in place of `Crash` for all at once.
