---------------------------- MODULE ControlPlane ----------------------------
(***************************************************************************)
(* The Management API at work: handlers of all routes interleaved over one *)
(* database and one Fly organisation, with the proxy in front of the       *)
(* machines, clients that hang up and a process that may be restarted.     *)
(***************************************************************************)
EXTENDS Sessions, Templates

Init ==
  /\ sessions = [s \in SessionIds |-> NoRow]
  /\ templates = [t \in TemplateIds |-> NoRow]
  /\ mintedBy = [i \in SessionIds \cup TemplateIds |-> NoId]
  /\ apps = {}
  /\ volumes = {}
  /\ machines = [s \in SessionIds |-> "none"]
  /\ boots = [s \in SessionIds |-> NoImage]
  /\ registry = {}
  /\ astray = {}
  /\ req = [r \in Requests |-> Idle]

\* Handlers keep nothing outside the database and Fly: a restart loses them all.
Crash ==
  /\ Crashes
  /\ req' = [r \in Requests |-> Idle]
  /\ UNCHANGED <<db, fly>>

\* autostop = "suspend": the proxy parks a machine without traffic.
Autostop(s) ==
  /\ EdgeProxy
  /\ machines[s] = "started"
  /\ machines' = [machines EXCEPT ![s] = "suspended"]
  /\ UNCHANGED <<db, apps, volumes, boots, registry, astray, req>>

\* autostart = true: a visit to the session's URL wakes its machine.
Autostart(s) ==
  /\ EdgeProxy
  /\ machines[s] \in {"suspended", "stopped"}
  /\ machines' = [machines EXCEPT ![s] = "started"]
  /\ UNCHANGED <<db, apps, volumes, boots, registry, astray, req>>

Advance(r) == SessionStep(r) \/ TemplateStep(r)

Next ==
  \/ \E r \in Requests : SessionArrival(r) \/ TemplateArrival(r) \/ Advance(r)
  \/ Crash
  \/ \E s \in SessionIds : Autostop(s) \/ Autostart(s)

Spec == Init /\ [][Next]_vars

\* Each handler is a goroutine of its own and each call comes back, the Fly
\* ones after the client's 30 s timeout at the latest.
FairSpec == Spec /\ \A r \in Requests : WF_vars(Advance(r))

-----------------------------------------------------------------------------
(* Who is at work on what.                                                 *)

Busy(r) == ~Free(r)

CreatePcs == {"insertSession", "ensureSessionApp", "createVolume", "createMachine",
              "undoVolume", "failSession", "provisioned"}
DeletePcs == {"destroyMachine", "destroyVolume", "deleteRow"}
BuildPcs  == {"ensureTemplateApp", "buildImage", "markReady", "markFailed"}

Creating(s) == \E r \in Requests : req[r].pc \in CreatePcs /\ req[r].sid = s
Deleting(s) == \E r \in Requests : req[r].pc \in DeletePcs /\ req[r].sid = s
Building(t) == \E r \in Requests : req[r].pc \in BuildPcs /\ req[r].tid = t

Stored(s)   == sessions[s] # NoRow
\* The resources of session s that its row names.
Named(s)    == IF Stored(s) THEN sessions[s].ids ELSE {}
Attached(s) == Named(s) # {}

\* Clients that delete a session only when no request creates it any more.
Patient ==
  \A r \in Requests : Free(r) /\ req'[r].pc \in DeletePcs => ~Creating(req'[r].sid)

PatientSpec == Init /\ [][Next /\ Patient]_vars

\* Clients that take turns: a request begins on a session, or builds a template,
\* only when nobody is at work on that session, or builds that template.
InTurn ==
  \A q, r \in Requests : q # r /\ Free(r) =>
    /\ {req[q].pc, req'[r].pc} \subseteq SessionPcs => req'[r].sid # req[q].sid
    /\ {req[q].pc, req'[r].pc} \subseteq TemplatePcs => req'[r].tid # req[q].tid

InTurnSpec == Init /\ [][Next /\ InTurn]_vars

-----------------------------------------------------------------------------
(* Safety, whatever the faults, hang-ups, restarts and interleavings.      *)

\* A row shows running or suspended exactly when it names the session's app, and
\* suspended only when it names the machine, so that it can be resumed: no
\* handler moves a session that is still being provisioned, or failed, or whose
\* machine nobody knows, to a status it cannot leave (the guard in Resume and
\* Hibernate).  A row that shows running need not name machine and volume: Fly's
\* replies may have come without their ids.
IdsMatchStatus ==
  \A s \in SessionIds : Stored(s) =>
    /\ sessions[s].status \in {"running", "suspended"} <=> "app" \in Named(s)
    /\ sessions[s].status = "suspended" => "machine" \in Named(s)
    /\ Attached(s) => "app" \in Named(s)

\* Every row belongs to the tenant its id was made for, and a session's
\* template exists in the same tenant: one tenant's template deletion can never
\* cascade into another's sessions.
RowsStayInTenant ==
  /\ \A t \in TemplateIds : templates[t] # NoRow => templates[t].org = mintedBy[t]
  /\ \A s \in SessionIds : Stored(s) =>
       /\ sessions[s].org = mintedBy[s]
       /\ templates[sessions[s].tpl] # NoRow
       /\ templates[sessions[s].tpl].org = sessions[s].org

\* A handler that got past its lookup works only on sessions and templates of
\* its caller's tenant, although the updates it makes are by id alone.
HandlersStayInTenant ==
  \A r \in Requests : Busy(r) =>
    \A i \in {req[r].sid, req[r].tid} \ {NoId} : mintedBy[i] = req[r].org

\* Every recorded image reference was pushed by a build, and so was every image
\* a machine boots, unless it is the default; a machine never boots the image of
\* another tenant's template.
ImagesArePushed ==
  /\ \A t \in TemplateIds :
       templates[t] # NoRow => templates[t].image \in registry \cup {NoImage}
  /\ \A s \in SessionIds : machines[s] # "none" =>
       \/ boots[s] = DefaultImage
       \/ boots[s] \in registry /\ mintedBy[boots[s]] = mintedBy[s]

\* What handler r answered in this step.
Answered(r, op, code) ==
  /\ req'[r] # req[r]
  /\ req'[r].pc = "done"
  /\ req'[r].op = op
  /\ req'[r].ans = code

\* A success answer is never wishful: 201 for a session means its row names at
\* that moment the app and all that Fly's replies told the handler, 200 for a
\* resume or a hibernation that it still names the machine that was called, 204
\* that the row is gone, for a template with all its sessions.
SuccessIsTrue ==
  \A r \in Requests :
    /\ Answered(r, "createSession", 201) => Named(req'[r].sid) = {"app"} \cup req[r].ids
    /\ Answered(r, "resumeSession", 200) => {"app", "machine"} \subseteq Named(req'[r].sid)
    /\ Answered(r, "hibernateSession", 200) => {"app", "machine"} \subseteq Named(req'[r].sid)
    /\ Answered(r, "deleteSession", 204) => sessions'[req'[r].sid] = NoRow
    /\ Answered(r, "deleteTemplate", 204) =>
         /\ templates'[req'[r].tid] = NoRow
         /\ \A s \in SessionIds :
              sessions'[s] # NoRow => sessions'[s].tpl # req'[r].tid

AnswersAreHonest == [][SuccessIsTrue]_vars

-----------------------------------------------------------------------------
(* Safety while the database is up, clients stay and the process lives.    *)

\* A pending row has a handler that will take it out of pending.
PendingHasCreator ==
  \A s \in SessionIds :
    Stored(s) /\ sessions[s].status = "pending" => Creating(s)

\* A template marked building has a handler that is building it.
BuildingHasBuilder ==
  \A t \in TemplateIds :
    templates[t] # NoRow /\ templates[t].status = "building" => Building(t)

\* The machine and the volume a row names exist, until a deletion of that
\* session has begun.
RowMatchesFly ==
  \A s \in SessionIds : ~Deleting(s) =>
    /\ "machine" \in Named(s) => machines[s] # "none"
    /\ "volume" \in Named(s) => s \in volumes

\* No machine and no volume without a row that names it, unless the session is
\* just being created: the failure paths of createSession take down the volume
\* they put up, and deleteSession what the row names.  Excepted are sessions
\* whose creation Fly carried out without telling the id, and those Fly did not
\* destroy although it was asked.  Apps are not spoken of: no code destroys them.
NoOrphans ==
  \A s \in SessionIds \ astray : ~Creating(s) =>
    /\ machines[s] # "none" => "machine" \in Named(s)
    /\ s \in volumes => "volume" \in Named(s)

-----------------------------------------------------------------------------
(* Safety under InTurnSpec.                                                *)

Using(s) == \E r \in Requests : req[r].pc \in SessionPcs /\ req[r].sid = s

\* While no request is at work on a session, its status column tells the state
\* of its machine.
StatusMatchesMachine ==
  \A s \in SessionIds :
    Attached(s) /\ ~Using(s) =>
      (sessions[s].status = "running" <=> machines[s] = "started")

\* A template that could launch sessions loses its image only to a failed build.
ImageIsKept ==
  [][\A t \in TemplateIds :
       (templates[t] # NoRow /\ templates'[t] # NoRow /\ templates[t].image # NoImage)
       => (templates'[t].image # NoImage \/ templates'[t].status = "failed")]_vars

-----------------------------------------------------------------------------
(* Liveness, under FairSpec.                                               *)

\* Every request is answered: no handler waits for ever or loops.
RequestsAreAnswered == \A r \in Requests : Busy(r) ~> Free(r)

\* A session leaves pending, however its provisioning ends.
PendingResolves ==
  \A s \in SessionIds :
    (Stored(s) /\ sessions[s].status = "pending")
      ~> ~(Stored(s) /\ sessions[s].status = "pending")

-----------------------------------------------------------------------------
(* Refinement: the rows, seen as stages of a lifecycle.                    *)

\* An id has no stage yet while its INSERT is still to be made.
Awaited(s) ==
  \/ mintedBy[s] = NoId
  \/ \E r \in Requests : req[r].pc = "insertSession" /\ req[r].sid = s

StageOf(s) ==
  IF Stored(s) THEN sessions[s].status ELSE IF Awaited(s) THEN "none" ELSE "gone"

Lifecycle == INSTANCE SessionLifecycle
               WITH Ids <- SessionIds, stage <- [s \in SessionIds |-> StageOf(s)]

\* Every behaviour of the control plane moves each session through its
\* lifecycle: no statement revives a row or takes it back to pending.
RefinesLifecycle == Lifecycle!Spec
=============================================================================
