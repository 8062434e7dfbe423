------------------------------ MODULE Templates ------------------------------
(***************************************************************************)
(* The template routes: createTemplate, getTemplate, listTemplates and     *)
(* deleteTemplate are one statement each; buildTemplate marks the row,     *)
(* builds the image with Fly and records the outcome.                      *)
(***************************************************************************)
EXTENDS Platform

\* A request answered after its one statement.
AnswerAtOnce(r, op, org, t, code) ==
  req' = [req EXCEPT ![r] =
            [Accept(op, org, NoId, t, Done) EXCEPT !.pc = "done", !.ans = code]]

\* templates.Create.  UNIQUE (org_id, name) may refuse the row when the
\* organisation owns a template already.  RETURNING yields NULL image_ref.
CreateTemplate(r) ==
  /\ Free(r)
  /\ "createTemplate" \in Ops
  /\ \E org \in Orgs, t \in TemplateIds \ Minted(TemplateIds) :
       \E x \in Replies(TRUE, DbFaults, TRUE) \cup
                {y \in {Refused} : \E u \in TemplateIds :
                                     templates[u] # NoRow /\ templates[u].org = org} :
         /\ mintedBy' = [mintedBy EXCEPT ![t] = org]
         /\ templates' = IF x.applied
                         THEN [templates EXCEPT ![t] = DraftRow(org)] ELSE templates
         /\ AnswerAtOnce(r, "createTemplate", org, t,
                         IF ~x.failed /\ Readable(DraftRow(org)) THEN 201 ELSE 500)
  /\ UNCHANGED <<sessions, fly>>

ReadTemplate(r) ==
  /\ Free(r)
  /\ "getTemplate" \in Ops
  /\ \E org \in Orgs, t \in Minted(TemplateIds), x \in Queried(TRUE) :
       AnswerAtOnce(r, "getTemplate", org, t,
                    IF GetTemplate(org, t, x) = NoRow THEN MapError(LookupError) ELSE 200)
  /\ UNCHANGED <<db, fly>>

ListTemplates(r) ==
  /\ Free(r)
  /\ "listTemplates" \in Ops
  /\ \E org \in Orgs, x \in Queried(TRUE) :
       AnswerAtOnce(r, "listTemplates", org, NoId,
                    IF ListSucceeds(templates, org, x) THEN 200 ELSE 500)
  /\ UNCHANGED <<db, fly>>

\* The rows of the sessions go with the template's; their machines, volumes
\* and apps are not touched.
DeleteTemplate(r) ==
  /\ Free(r)
  /\ "deleteTemplate" \in Ops
  /\ \E org \in Orgs, t \in Minted(TemplateIds), x \in Queried(TRUE) :
       LET found == templates[t] # NoRow /\ templates[t].org = org
           gone  == x.applied /\ found
       IN  /\ templates' = IF gone THEN [templates EXCEPT ![t] = NoRow] ELSE templates
           /\ sessions' = IF gone THEN Cascade(t) ELSE sessions
           /\ AnswerAtOnce(r, "deleteTemplate", org, t,
                           IF x.failed THEN 500
                           ELSE IF found THEN 204 ELSE MapError("ErrNotFound"))
  /\ UNCHANGED <<mintedBy, fly>>

-----------------------------------------------------------------------------
(* buildTemplate.  The app's name is kept in the row, and derived from the *)
(* id when the row has none: either way one app per template.              *)

BuildTemplate(r) ==
  /\ Free(r)
  /\ "buildTemplate" \in Ops
  /\ \E org \in Orgs, t \in Minted(TemplateIds), x \in Queried(TRUE) :
       LET tpl == GetTemplate(org, t, x)
           new == Accept("buildTemplate", org, NoId, t, x)
       IN  \/ /\ tpl = NoRow
              /\ AnswerAtOnce(r, "buildTemplate", org, t, MapError(TemplateError(LookupError)))
           \/ /\ tpl # NoRow
              /\ req' = [req EXCEPT ![r] =
                           [new EXCEPT !.pc = "markBuilding", !.img = tpl.image]]
  /\ UNCHANGED <<db, fly>>

\* Mutant: marking the row clears its image reference.
MarkBuildingBlank(r) ==
  /\ req[r].pc = "markBuilding"
  /\ \E x \in Queried(req[r].live) :
       /\ templates' = IF x.applied
                       THEN UpdateBuildStatus(req[r].tid, "building", NoImage)
                       ELSE templates
       /\ IF x.failed THEN Answer(r, 500) ELSE GoTo(r, "ensureTemplateApp", x)
  /\ UNCHANGED <<sessions, mintedBy, fly>>

\* Writes back the image reference read by the lookup.
MarkBuilding(r) ==
  /\ req[r].pc = "markBuilding"
  /\ \E x \in Queried(req[r].live) :
       /\ templates' = IF x.applied
                       THEN UpdateBuildStatus(req[r].tid, "building", req[r].img)
                       ELSE templates
       /\ IF x.failed THEN Answer(r, 500) ELSE GoTo(r, "ensureTemplateApp", x)
  /\ UNCHANGED <<sessions, mintedBy, fly>>

\* Mutant: the failure path forgets to mark the row failed.
EnsureTemplateAppUnmarked(r) ==
  /\ req[r].pc = "ensureTemplateApp"
  /\ \E x \in Replies(req[r].live, FlyFaults["EnsureApp"], TRUE) :
       /\ apps' = IF x.applied THEN apps \cup {req[r].tid} ELSE apps
       /\ IF x.failed THEN Answer(r, 500) ELSE GoTo(r, "buildImage", x)
  /\ UNCHANGED <<db, volumes, machines, boots, registry, astray>>

EnsureTemplateApp(r) ==
  /\ req[r].pc = "ensureTemplateApp"
  /\ \E x \in Replies(req[r].live, FlyFaults["EnsureApp"], TRUE) :
       /\ apps' = IF x.applied THEN apps \cup {req[r].tid} ELSE apps
       /\ GoTo(r, IF x.failed THEN "markFailed" ELSE "buildImage", x)
  /\ UNCHANGED <<db, volumes, machines, boots, registry, astray>>

\* Mutant: the error of the build is dropped.
BuildImageUnchecked(r) ==
  LET t == req[r].tid
  IN  /\ req[r].pc = "buildImage"
      /\ \E x \in Replies(req[r].live, FlyFaults["BuildImage"], t \in apps) :
           /\ registry' = IF x.applied THEN registry \cup {t} ELSE registry
           /\ req' = [req EXCEPT ![r].pc = "markReady", ![r].img = t, ![r].live = x.live]
      /\ UNCHANGED <<db, apps, volumes, machines, boots, astray>>

\* The reference is the same for every build of the template.
BuildImage(r) ==
  LET t == req[r].tid
  IN  /\ req[r].pc = "buildImage"
      /\ \E x \in Replies(req[r].live, FlyFaults["BuildImage"], t \in apps) :
           /\ registry' = IF x.applied THEN registry \cup {t} ELSE registry
           /\ req' = [req EXCEPT ![r].pc = IF x.failed THEN "markFailed" ELSE "markReady",
                                 ![r].img = IF x.failed THEN NoImage ELSE t,
                                 ![r].live = x.live]
      /\ UNCHANGED <<db, apps, volumes, machines, boots, astray>>

MarkReady(r) ==
  /\ req[r].pc = "markReady"
  /\ \E x \in Queried(req[r].live) :
       /\ templates' = IF x.applied
                       THEN UpdateBuildStatus(req[r].tid, "ready", req[r].img)
                       ELSE templates
       /\ IF x.failed THEN Answer(r, 500) ELSE GoTo(r, "reloadTemplate", x)
  /\ UNCHANGED <<sessions, mintedBy, fly>>

\* Clears the image reference; the reply is ignored.
MarkFailed(r) ==
  /\ req[r].pc = "markFailed"
  /\ \E x \in Queried(req[r].live) :
       templates' = IF x.applied
                    THEN UpdateBuildStatus(req[r].tid, "failed", NoImage)
                    ELSE templates
  /\ Answer(r, 500)
  /\ UNCHANGED <<sessions, mintedBy, fly>>

ReloadTemplate(r) ==
  /\ req[r].pc = "reloadTemplate"
  /\ \E x \in Queried(req[r].live) :
       Answer(r, IF GetTemplate(req[r].org, req[r].tid, x) = NoRow
                 THEN MapError(LookupError) ELSE 200)
  /\ UNCHANGED <<db, fly>>

-----------------------------------------------------------------------------
\* What handler r can do when it serves a template route.
TemplateStep(r) ==
  \/ MarkBuilding(r) \/ EnsureTemplateApp(r) \/ BuildImage(r)
  \/ MarkReady(r) \/ MarkFailed(r) \/ ReloadTemplate(r)

TemplateArrival(r) ==
  \/ CreateTemplate(r) \/ ReadTemplate(r) \/ ListTemplates(r)
  \/ DeleteTemplate(r) \/ BuildTemplate(r)
=============================================================================
