------------------------------ MODULE Platform ------------------------------
(***************************************************************************)
(* What the handlers of the Management API share: the rows of the          *)
(* PostgreSQL tables and the statements the repositories send, the         *)
(* resources the Fly API holds and the calls the client makes, and the     *)
(* requests being served, one record per handler goroutine.                *)
(*                                                                         *)
(* Abstractions.  A tenant of Orgs is an organisation with its one user.   *)
(* Each session gets its own Fly app, volume and machine, created by one   *)
(* call each, so all three are named by the session's id.  An image        *)
(* reference is registry.fly.io/<app of the template>:latest and is named  *)
(* by the template's id.  Of the columns only Provisioned writes,          *)
(* fly_machine_id and fly_volume_id may each be NULL, fly_app_name, url    *)
(* and region are set together: ids is the set of those that are set.      *)
(***************************************************************************)
EXTENDS Calls

CONSTANTS
  Requests,      \* handler goroutines that can be live at once
  Orgs,          \* tenants, as resolved by the auth middleware
  SessionIds,    \* bound: sessions ever created (UUIDs are never reused)
  TemplateIds,   \* bound: templates ever created
  NoId,          \* no organisation, no session, no template
  NoRow,         \* the table has no such row
  NoImage,       \* the empty image reference
  DefaultImage,  \* DEFAULT_IMAGE_REF; may be NoImage
  Ops,           \* routes the clients use
  FlyFaults,     \* what can go wrong with each Fly call
  DbFaults,      \* what can go wrong with a SQL statement
  Crashes,       \* the API process may die and be restarted
  EdgeProxy,     \* Fly's proxy suspends idle machines and wakes them
  NullAsEmpty    \* scanning a NULL column into a Go string yields ""

Images == TemplateIds \cup {DefaultImage, NoImage}

SessionOps == {"createSession", "getSession", "listSessions",
               "resumeSession", "hibernateSession", "deleteSession"}
TemplateOps == {"createTemplate", "getTemplate", "listTemplates",
                "deleteTemplate", "buildTemplate"}

FlyCalls == {"EnsureApp", "CreateVolume", "CreateMachine", "StartMachine",
             "StopMachine", "DestroyMachine", "DestroyVolume", "BuildImage"}

SessionStatus  == {"pending", "running", "suspended", "error"}
TemplateStatus == {"draft", "building", "ready", "failed"}
MachineState   == {"none", "started", "suspended", "stopped"}

\* The names of Fly resources a row can carry, or a handler know.
FlyIds == {"app", "machine", "volume"}

SessionRow  == [org: Orgs, tpl: TemplateIds, status: SessionStatus, ids: SUBSET FlyIds]
TemplateRow == [org: Orgs, status: TemplateStatus, image: Images]

\* Where a handler stands: the call it makes next.
SessionPcs == {"insertSession", "ensureSessionApp", "createVolume", "createMachine",
               "undoVolume", "failSession", "provisioned", "reloadSession",
               "power", "setStatus",
               "destroyMachine", "destroyVolume", "deleteRow"}
TemplatePcs == {"markBuilding", "ensureTemplateApp", "buildImage", "markReady",
                "markFailed", "reloadTemplate"}
Pcs == {"idle", "done"} \cup SessionPcs \cup TemplatePcs

Codes == {0, 200, 201, 204, 404, 409, 500}

Request == [pc: Pcs, op: SessionOps \cup TemplateOps \cup {NoId},
            org: Orgs \cup {NoId}, sid: SessionIds \cup {NoId},
            tid: TemplateIds \cup {NoId}, img: Images, ids: SUBSET FlyIds,
            live: BOOLEAN, ans: Codes]

\* A handler at work knows for whom and on what.
HasTarget(q) ==
  /\ q.pc \in SessionPcs \cup TemplatePcs => q.org \in Orgs
  /\ q.pc \in SessionPcs => q.sid \in SessionIds
  /\ q.pc \in TemplatePcs \cup {"insertSession"} => q.tid \in TemplateIds

ASSUME IdsAreDistinct ==
  /\ SessionIds \cap TemplateIds = {}
  /\ NoId \notin SessionIds \cup TemplateIds \cup Orgs
  /\ NoRow \notin SessionRow \cup TemplateRow
  /\ NoImage \notin TemplateIds
  /\ DefaultImage \notin TemplateIds

ASSUME EnvironmentIsKnown ==
  /\ Ops \subseteq SessionOps \cup TemplateOps
  /\ FlyFaults \in [FlyCalls -> SUBSET Faults]
  /\ DbFaults \subseteq Faults
  /\ {Disconnects, Crashes, EdgeProxy, NullAsEmpty} \subseteq BOOLEAN

VARIABLES
  sessions,    \* table sessions
  templates,   \* table templates
  mintedBy,    \* history: the tenant for whom uuid.NewString made the id
  apps,        \* Fly: existing apps (never destroyed by the code)
  volumes,     \* Fly: existing volumes
  machines,    \* Fly: state of the machine of each session
  boots,       \* Fly: the image that machine was created with
  registry,    \* Fly: images that were built and pushed
  astray,      \* history: sessions of which something was made and its id not told,
               \* or something was to be destroyed and was not
  req          \* the handlers

db   == <<sessions, templates, mintedBy>>
fly  == <<apps, volumes, machines, boots, registry, astray>>
vars == <<sessions, templates, mintedBy, apps, volumes, machines, boots,
          registry, astray, req>>

TypeOK ==
  /\ sessions \in [SessionIds -> SessionRow \cup {NoRow}]
  /\ templates \in [TemplateIds -> TemplateRow \cup {NoRow}]
  /\ mintedBy \in [SessionIds \cup TemplateIds -> Orgs \cup {NoId}]
  /\ apps \subseteq SessionIds \cup TemplateIds
  /\ volumes \subseteq SessionIds
  /\ machines \in [SessionIds -> MachineState]
  /\ boots \in [SessionIds -> Images]
  /\ registry \subseteq TemplateIds
  /\ astray \subseteq SessionIds
  /\ req \in [Requests -> Request]
  /\ \A r \in Requests : HasTarget(req[r])

-----------------------------------------------------------------------------
(* The repositories.  A single-row lookup that misses wraps pgx.ErrNoRows, *)
(* a failed scan or query wraps the driver's error: never db.ErrNotFound,  *)
(* which only the two Delete methods return.                               *)

Queried(live) == Replies(live, DbFaults, TRUE)

LookupError == "ErrNoRows"

Readable(row) ==
  NullAsEmpty \/ IF "ids" \in DOMAIN row THEN row.ids = FlyIds ELSE row.image # NoImage

\* Mutants of the two lookups: WHERE id = $1 without the organisation.
GetSessionOfAnyOrg(org, s, x) ==
  IF ~x.failed /\ sessions[s] # NoRow /\ Readable(sessions[s])
  THEN sessions[s] ELSE NoRow

GetTemplateOfAnyOrg(org, t, x) ==
  IF ~x.failed /\ templates[t] # NoRow /\ Readable(templates[t])
  THEN templates[t] ELSE NoRow

\* The row Get returns, or NoRow for an error; x is the reply to the SELECT.
GetSession(org, s, x) ==
  IF /\ ~x.failed
     /\ sessions[s] # NoRow
     /\ sessions[s].org = org
     /\ Readable(sessions[s])
  THEN sessions[s] ELSE NoRow

GetTemplate(org, t, x) ==
  IF /\ ~x.failed
     /\ templates[t] # NoRow
     /\ templates[t].org = org
     /\ Readable(templates[t])
  THEN templates[t] ELSE NoRow

\* List fails as a whole when one of its rows cannot be scanned.
ListSucceeds(table, org, x) ==
  /\ ~x.failed
  /\ \A i \in DOMAIN table :
       table[i] # NoRow /\ table[i].org = org => Readable(table[i])

PendingRow(org, t) == [org |-> org, tpl |-> t, status |-> "pending", ids |-> {}]
DraftRow(org) == [org |-> org, status |-> "draft", image |-> NoImage]

\* The table after an UPDATE ... WHERE id = $1: no row, no effect, no error.
SetStatus(s, status) ==
  [sessions EXCEPT ![s] = IF @ = NoRow THEN NoRow ELSE [@ EXCEPT !.status = status]]

\* An id that is the empty string is stored as NULL; the app's name never is.
MarkProvisioned(s, ids) ==
  [sessions EXCEPT ![s] = IF @ = NoRow THEN NoRow
                          ELSE [@ EXCEPT !.status = "running", !.ids = ids \cup {"app"}]]

UpdateBuildStatus(t, status, image) ==
  [templates EXCEPT ![t] = IF @ = NoRow THEN NoRow
                           ELSE [@ EXCEPT !.status = status, !.image = image]]

\* The sessions left by ON DELETE CASCADE when template t goes.
Cascade(t) ==
  [s \in SessionIds |-> IF sessions[s] # NoRow /\ sessions[s].tpl = t
                        THEN NoRow ELSE sessions[s]]

-----------------------------------------------------------------------------
(* HTTP.                                                                   *)

\* The orchestrator's errors.Is(err, db.ErrNotFound) after templates.Get.
TemplateError(e) == IF e = "ErrNotFound" THEN "ErrTemplateNotFound" ELSE e

MapError(e) ==
  CASE e \in {"ErrNotFound", "ErrSessionNotFound", "ErrTemplateNotFound"} -> 404
    [] e = "ErrTemplateNotReady" -> 409
    [] OTHER -> 500

Free(r) == req[r].pc \in {"idle", "done"}

Idle == [pc |-> "idle", op |-> NoId, org |-> NoId, sid |-> NoId, tid |-> NoId,
         img |-> NoImage, ids |-> {}, live |-> TRUE, ans |-> 0]

\* A request whose handler has made its first call, the lookup or the single
\* statement; reply x tells whether the client is still there.
Accept(op, org, s, t, x) ==
  [Idle EXCEPT !.op = op, !.org = org, !.sid = s, !.tid = t, !.live = x.live]

Minted(ids) == {i \in ids : mintedBy[i] # NoId}

\* Handler r makes its next call after reply x.
GoTo(r, pc, x) == req' = [req EXCEPT ![r].pc = pc, ![r].live = x.live]

\* The same, after a creation whose reply told the id of what, or did not.
GoOn(r, pc, x, what, told) ==
  req' = [req EXCEPT ![r].pc = pc, ![r].live = x.live,
                     ![r].ids = IF told THEN @ \cup {what} ELSE @]

\* History: s goes astray if so.
StraysIf(s, so) == astray' = IF so THEN astray \cup {s} ELSE astray

\* Handler r writes its response and returns.
Answer(r, code) ==
  req' = [req EXCEPT ![r].pc = "done", ![r].ans = code,
                     ![r].img = NoImage, ![r].ids = {}, ![r].live = TRUE]
=============================================================================
