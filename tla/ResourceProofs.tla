--------------------------- MODULE ResourceProofs ---------------------------
(***************************************************************************)
(* What the rows say of Fly, for any number of requests, tenants, sessions *)
(* and templates. First, whatever the faults, hang-ups and restarts, where *)
(* images come from: a handler carries a reference in a local variable     *)
(* over several calls, while others rebuild or delete the template it was  *)
(* read from, and the invariant follows it from the build to the row, to   *)
(* the handler, to the machine. Then, while the database answers, clients  *)
(* stay and the process lives, that nothing is left half-way: pending rows *)
(* and templates being built have a handler, rows with ids a machine and a *)
(* volume. Last, with clients that wait for what is being created, or take *)
(* turns, and Fly failing where the code copes with it, that no resource   *)
(* is orphaned, no image is lost and every status is true.                 *)
(***************************************************************************)
EXTENDS SessionProofs

BootPcs == {"insertSession", "ensureSessionApp", "createVolume", "createMachine"}

\* Template t has been built, or its row, if any, has no image.
HasOwnImage(t) ==
  templates[t] # NoRow /\ templates[t].image # NoImage =>
    templates[t].image = t /\ t \in registry

\* What handler r is going to boot was pushed, for its own tenant.
CarriesBootable(r) ==
  \/ req[r].img = DefaultImage
  \/ req[r].img \in registry /\ mintedBy[req[r].img] = req[r].org

\* What handler r is going to record is the image of its template.
CarriesOwnImage(r) ==
  \/ req[r].pc = "markBuilding" /\ req[r].img = NoImage
  \/ req[r].img = req[r].tid /\ req[r].tid \in registry

BootsOwnImage(s) ==
  \/ boots[s] = DefaultImage
  \/ /\ boots[s] \in registry
     /\ mintedBy[boots[s]] = mintedBy[s]
     /\ mintedBy[s] # NoId

ImagesFit ==
  /\ \A t \in TemplateIds : HasOwnImage(t)
  /\ \A r \in Requests : req[r].pc \in BootPcs => CarriesBootable(r)
  /\ \A r \in Requests : req[r].pc \in {"markBuilding", "markReady"} => CarriesOwnImage(r)
  /\ \A s \in SessionIds : machines[s] # "none" => BootsOwnImage(s)

LEMMA ImagesFitSuffices == ImagesFit => ImagesArePushed
BY DEF ImagesFit, HasOwnImage, BootsOwnImage, ImagesArePushed

-----------------------------------------------------------------------------
(* The parts of the invariant across a step.                               *)

\* No image is withdrawn, and an id keeps the tenant it was made for.
Growing ==
  /\ registry \subseteq registry'
  /\ \A i \in SessionIds \cup TemplateIds : mintedBy[i] # NoId => mintedBy'[i] = mintedBy[i]

LEMMA CarriedOver ==
  ASSUME TypeOK, Isolated, ImagesFit, Growing,
         \A t \in TemplateIds :
           \/ HasOwnImage(t)'
           \/ templates[t] # NoRow /\ templates'[t].image = templates[t].image,
         \A r \in Requests : req'[r].pc \in BootPcs =>
           \/ CarriesBootable(r)'
           \/ req[r].pc \in BootPcs /\ req'[r].img = req[r].img /\ req'[r].org = req[r].org,
         \A r \in Requests : req'[r].pc \in {"markBuilding", "markReady"} =>
           CarriesOwnImage(r)' \/ req'[r] = req[r],
         \A s \in SessionIds : machines'[s] # "none" =>
           \/ BootsOwnImage(s)'
           \/ machines[s] # "none" /\ boots'[s] = boots[s]
  PROVE  ImagesFit'
<1>0. NoId \notin Orgs /\ NoId \notin SessionIds \cup TemplateIds /\ registry \subseteq TemplateIds
  BY IdsAreDistinct DEF TypeOK
<1>1. \A t \in TemplateIds : HasOwnImage(t)'
  BY DEF ImagesFit, HasOwnImage, Growing
<1>2. ASSUME NEW r \in Requests, req'[r].pc \in BootPcs PROVE CarriesBootable(r)'
  <2>1. CASE /\ req[r].pc \in BootPcs
             /\ req'[r].img = req[r].img /\ req'[r].org = req[r].org
    <3>1. CarriesBootable(r)
      BY <2>1 DEF ImagesFit
    <3>2. req[r].org \in Orgs
      BY <2>1 DEF TypeOK, HasTarget, SessionPcs, BootPcs
    <3> QED
      BY <1>0, <2>1, <3>1, <3>2 DEF CarriesBootable, Growing
  <2> QED
    BY <1>2, <2>1
<1>3. ASSUME NEW r \in Requests, req'[r].pc \in {"markBuilding", "markReady"}
      PROVE  CarriesOwnImage(r)'
  BY <1>3 DEF ImagesFit, CarriesOwnImage, Growing
<1>4. ASSUME NEW s \in SessionIds, machines'[s] # "none" PROVE BootsOwnImage(s)'
  <2>1. CASE machines[s] # "none" /\ boots'[s] = boots[s]
    <3>1. BootsOwnImage(s)
      BY <2>1 DEF ImagesFit
    <3> QED
      BY <1>0, <2>1, <3>1 DEF BootsOwnImage, Growing
  <2> QED
    BY <1>4, <2>1
<1> QED
  BY <1>1, <1>2, <1>3, <1>4 DEF ImagesFit

\* A step that leaves templates, machines and images alone, of one handler.
LEMMA HandlerOnly ==
  ASSUME TypeOK, Isolated, ImagesFit, UNCHANGED <<templates, mintedBy, registry>>,
         \A s \in SessionIds : machines'[s] # "none" => machines[s] # "none" /\ boots'[s] = boots[s],
         NEW r \in Requests, \A q \in Requests \ {r} : req'[q] = req[q],
         req'[r].pc \in BootPcs =>
           \/ CarriesBootable(r)'
           \/ req[r].pc \in BootPcs /\ req'[r].img = req[r].img /\ req'[r].org = req[r].org,
         req'[r].pc \in {"markBuilding", "markReady"} => CarriesOwnImage(r)'
  PROVE  ImagesFit'
<1>1. Growing
  BY DEF Growing
<1>2. \A t \in TemplateIds : HasOwnImage(t)'
  BY DEF ImagesFit, HasOwnImage
<1>3. \A q \in Requests : req'[q].pc \in BootPcs =>
        \/ CarriesBootable(q)'
        \/ req[q].pc \in BootPcs /\ req'[q].img = req[q].img /\ req'[q].org = req[q].org
  OBVIOUS
<1>4. \A q \in Requests : req'[q].pc \in {"markBuilding", "markReady"} =>
        CarriesOwnImage(q)' \/ req'[q] = req[q]
  OBVIOUS
<1> QED
  BY <1>1, <1>2, <1>3, <1>4, CarriedOver

LEMMA PcsApart ==
  /\ BootPcs \cap ({"markBuilding", "markReady", "done", "idle"} \cup UsePcs \cup DeletePcs
                   \cup {"undoVolume", "failSession", "provisioned"}) = {}
  /\ SessionPcs \cap {"markBuilding", "markReady"} = {}
  /\ BootPcs \subseteq SessionPcs
BY DEF BootPcs, UsePcs, DeletePcs, SessionPcs

-----------------------------------------------------------------------------
(* Session routes.                                                         *)

LEMMA CreateMachineImages ==
  ASSUME TypeOK, Isolated, ImagesFit, NEW r \in Requests, CreateMachine(r)
  PROVE  ImagesFit'
<1> DEFINE s == req[r].sid
<1>1. /\ req[r].pc = "createMachine" /\ UNCHANGED <<templates, mintedBy, registry>>
      /\ \E pc \in {"undoVolume", "provisioned"} : Goes(r, pc)
      /\ \/ machines' = machines /\ boots' = boots
         \/ /\ machines' = [machines EXCEPT ![s] = "started"]
            /\ boots' = [boots EXCEPT ![s] = req[r].img]
  BY DEF CreateMachine, AskForMachine, Goes, db
<1>2. /\ req'[r].pc \in {"undoVolume", "provisioned"}
      /\ \A q \in Requests \ {r} : req'[q] = req[q]
  BY <1>1, GoesEffect
<1>3. s \in SessionIds /\ req[r].org \in Orgs /\ Busy(r) /\ req[r].pc \in BootPcs
  BY <1>1 DEF TypeOK, HasTarget, SessionPcs, Busy, Free, BootPcs
<1>4. mintedBy[s] = req[r].org /\ mintedBy[s] # NoId
  BY <1>3, IdsAreDistinct DEF Isolated, HandlersStayInTenant
<1>5. CarriesBootable(r)
  BY <1>3 DEF ImagesFit
<1>6. ASSUME NEW u \in SessionIds, machines'[u] # "none"
      PROVE  BootsOwnImage(u)' \/ (machines[u] # "none" /\ boots'[u] = boots[u])
  <2>1. CASE machines'[u] = machines[u] /\ boots'[u] = boots[u]
    BY <1>6, <2>1
  <2>2. CASE u = s /\ boots'[u] = req[r].img
    <3>1. mintedBy'[u] = req[r].org /\ mintedBy'[u] # NoId
      BY <1>1, <1>4, <2>2
    <3>2. \/ boots'[u] = DefaultImage
          \/ boots'[u] \in registry' /\ mintedBy'[boots'[u]] = req[r].org
      BY <1>1, <1>5, <2>2 DEF CarriesBootable
    <3> QED
      BY <3>1, <3>2 DEF BootsOwnImage
  <2> QED
    BY <1>1, <1>3, <2>1, <2>2 DEF TypeOK
<1>7. Growing
  BY <1>1 DEF Growing
<1>8. \A t \in TemplateIds : HasOwnImage(t)'
  BY <1>1 DEF ImagesFit, HasOwnImage
<1>9. \A q \in Requests : req'[q].pc \in BootPcs =>
        req[q].pc \in BootPcs /\ req'[q].img = req[q].img /\ req'[q].org = req[q].org
  BY <1>2, PcsApart
<1>10. \A q \in Requests : req'[q].pc \in {"markBuilding", "markReady"} => req'[q] = req[q]
  BY <1>2
<1> QED
  BY <1>6, <1>7, <1>8, <1>9, <1>10, CarriedOver

LEMMA SessionStepImages ==
  ASSUME TypeOK, Isolated, ImagesFit, NEW r \in Requests, SessionStep(r)
  PROVE  ImagesFit'
<1>1. CASE CreateMachine(r)
  BY <1>1, CreateMachineImages
<1>2. CASE ~CreateMachine(r)
  <2>1. UNCHANGED <<templates, mintedBy, registry>>
    BY <1>2 DEF SessionStep, InsertSession, EnsureSessionApp, CreateVolume,
       UndoVolume, FailSession, Provisioned, ReloadSession, Power, RecordPower,
       DestroyMachine, DestroyVolume, DeleteRow, db, fly
  <2>2. \A u \in SessionIds : machines'[u] # "none" => machines[u] # "none" /\ boots'[u] = boots[u]
    <3>1. CASE Power(r)
      <4> DEFINE s == req[r].sid
                 call == IF req[r].op = "resumeSession" THEN "StartMachine" ELSE "StopMachine"
                 to == IF call = "StartMachine" THEN "started" ELSE "stopped"
      <4>1. PICK x \in Replies(req[r].live, FlyFaults[call], machines[s] # "none") :
              machines' = IF x.applied THEN [machines EXCEPT ![s] = to] ELSE machines
        BY <3>1 DEF Power
      <4>2. boots' = boots
        BY <3>1 DEF Power
      <4>3. x.applied => machines[s] # "none"
        BY AppliedIsPossible
      <4> HIDE DEF call, to
      <4> QED
        BY <4>1, <4>2, <4>3 DEF TypeOK
    <3>2. CASE DestroyMachine(r)
      <4>1. \/ machines' = machines /\ boots' = boots
            \/ /\ machines' = [machines EXCEPT ![req[r].sid] = "none"]
               /\ boots' = [boots EXCEPT ![req[r].sid] = NoImage]
        BY <3>2 DEF DestroyMachine
      <4> QED
        BY <4>1 DEF TypeOK
    <3>3. CASE UNCHANGED <<machines, boots>>
      BY <3>3
    <3> QED
      BY <1>2, <3>1, <3>2, <3>3 DEF SessionStep, InsertSession, EnsureSessionApp, CreateVolume,
         UndoVolume, FailSession, Provisioned, ReloadSession, RecordPower,
         DestroyVolume, DeleteRow, db, fly
  <2>3. /\ \A q \in Requests \ {r} : req'[q] = req[q]
        /\ req'[r].pc \in SessionPcs \cup {"done"}
    BY SessionStepMoves, GoesEffect, AnswerEffect
  <2>4. req'[r].pc \in BootPcs =>
          req[r].pc \in BootPcs /\ req'[r].img = req[r].img /\ req'[r].org = req[r].org
    <3>1. CASE InsertSession(r) \/ EnsureSessionApp(r) \/ CreateVolume(r)
      <4>1. /\ req[r].pc \in BootPcs
            /\ (\E pc : Goes(r, pc)) \/ (\E code : Answer(r, code))
        BY ZenonT(60), <3>1 DEF InsertSession, EnsureSessionApp, CreateVolume, BootPcs, Goes
      <4> QED
        BY <4>1, GoesEffect, AnswerEffect, PcsApart
    <3>2. CASE UndoVolume(r) \/ FailSession(r) \/ Provisioned(r) \/ ReloadSession(r) \/ Power(r)
               \/ RecordPower(r) \/ DestroyMachine(r) \/ DestroyVolume(r) \/ DeleteRow(r)
      <4>1. \/ \E pc \in {"failSession", "reloadSession", "setStatus", "destroyVolume", "deleteRow"} :
                 \E x : GoTo(r, pc, x)
            \/ \E code : Answer(r, code)
        <5>1. CASE UndoVolume(r) \/ FailSession(r) \/ Provisioned(r) \/ ReloadSession(r)
          BY <5>1 DEF UndoVolume, FailSession, Provisioned, ReloadSession
        <5>2. CASE Power(r)
          BY <5>2 DEF Power
        <5>3. CASE RecordPower(r) \/ DestroyMachine(r) \/ DestroyVolume(r) \/ DeleteRow(r)
          BY <5>3 DEF RecordPower, DestroyMachine, Destruction, DestroyVolume, DeleteRow
        <5> QED
          BY <3>2, <5>1, <5>2, <5>3
      <4>2. req'[r].pc \notin BootPcs
        BY <4>1, GoToEffect, AnswerEffect DEF BootPcs
      <4> QED
        BY <4>2
    <3> QED
      BY <1>2, <3>1, <3>2 DEF SessionStep
  <2>5. req'[r].pc \notin {"markBuilding", "markReady"}
    BY <2>3, PcsApart
  <2> QED
    BY <2>1, <2>2, <2>3, <2>4, <2>5, HandlerOnly
<1> QED
  BY <1>1, <1>2

LEMMA CreateSessionImages ==
  ASSUME TypeOK, Isolated, ImagesFit, NEW r \in Requests, CreateSession(r)
  PROVE  ImagesFit'
<1>1. UNCHANGED <<templates, registry, machines, boots>>
  BY DEF CreateSession, fly
<1>2. \A q \in Requests \ {r} : req'[q] = req[q]
  BY CreateSessionEffect
<1>3. CASE req'[r].pc = "done" /\ UNCHANGED mintedBy
  BY <1>1, <1>2, <1>3, PcsApart, HandlerOnly
<1>4. CASE \E s \in SessionIds, org \in Orgs, t \in TemplateIds :
             /\ templates[t] # NoRow /\ templates[t].org = org
             /\ mintedBy[s] = NoId
             /\ mintedBy' = [mintedBy EXCEPT ![s] = org]
             /\ req'[r].pc = "insertSession"
             /\ req'[r].org = org
             /\ req'[r].img = ImageToBoot(templates[t])
  <2>1. PICK s \in SessionIds, org \in Orgs, t \in TemplateIds :
          /\ templates[t] # NoRow /\ templates[t].org = org
          /\ mintedBy[s] = NoId
          /\ mintedBy' = [mintedBy EXCEPT ![s] = org]
          /\ req'[r].pc = "insertSession"
          /\ req'[r].org = org
          /\ req'[r].img = ImageToBoot(templates[t])
    BY <1>4
  <2>2. mintedBy[t] = org /\ s # t
    BY <2>1, IdsAreDistinct DEF Isolated, RowsStayInTenant
  <2>3. Growing
    BY <1>1, <2>1 DEF Growing, TypeOK
  <2>4. \/ req'[r].img = DefaultImage
        \/ req'[r].img = t /\ t \in registry
    BY <2>1 DEF ImageToBoot, ImagesFit, HasOwnImage
  <2>5. mintedBy'[t] = org
    BY <2>1, <2>2 DEF TypeOK
  <2>6. CarriesBootable(r)'
    BY <1>1, <2>1, <2>4, <2>5 DEF CarriesBootable
  <2>7. \A u \in TemplateIds : HasOwnImage(u)'
    BY <1>1 DEF ImagesFit, HasOwnImage
  <2> QED
    BY <1>1, <1>2, <2>1, <2>3, <2>6, <2>7, CarriedOver
<1> QED
  BY <1>3, <1>4, CreateSessionEffect

LEMMA SessionArrivalImages ==
  ASSUME TypeOK, Isolated, ImagesFit, NEW r \in Requests, SessionArrival(r)
  PROVE  ImagesFit'
<1>1. CASE CreateSession(r)
  BY <1>1, CreateSessionImages
<1>2. CASE ~CreateSession(r)
  <2>1. UNCHANGED <<templates, mintedBy, registry, machines, boots>>
    BY <1>2 DEF SessionArrival, ReadSession, ListSessions, ResumeSession,
       HibernateSession, DeleteSession, LookUpSession, db, fly
  <2>2. /\ req'[r].pc \in {"done", "power", "destroyMachine", "destroyVolume", "deleteRow"}
        /\ \A q \in Requests \ {r} : req'[q] = req[q]
    <3>1. CASE ReadSession(r) \/ ListSessions(r)
      BY <3>1, ReadEffect
    <3>2. CASE \E op \in SessionOps : LookUpSession(r, op)
      BY <3>2, LookUpEffect, FirstCallKnows
    <3> QED
      BY <1>2, <3>1, <3>2 DEF SessionArrival, ResumeSession, HibernateSession,
         DeleteSession, SessionOps
  <2>3. req'[r].pc \notin BootPcs \cup {"markBuilding", "markReady"}
    BY <2>2 DEF BootPcs
  <2> QED
    BY <2>1, <2>2, <2>3, HandlerOnly
<1> QED
  BY <1>1, <1>2

-----------------------------------------------------------------------------
(* Template routes.                                                        *)

\* An UPDATE of one template's status and image.
LEMMA UpdatedImage ==
  ASSUME TypeOK, NEW t \in TemplateIds, NEW status \in TemplateStatus, NEW image \in Images,
         templates' = UpdateBuildStatus(t, status, image)
  PROVE  /\ \A u \in TemplateIds \ {t} : templates'[u] = templates[u]
         /\ templates'[t] # NoRow => templates'[t].image = image
<1>1. templates \in [TemplateIds -> TemplateRow \cup {NoRow}]
  BY DEF TypeOK
<1> DEFINE row == [templates[t] EXCEPT !.status = status, !.image = image]
<1>2. templates[t] # NoRow => row.image = image
  BY <1>1 DEF TemplateRow
<1>3. /\ templates'[t] = IF templates[t] = NoRow THEN NoRow ELSE row
      /\ \A u \in TemplateIds \ {t} : templates'[u] = templates[u]
  BY <1>1 DEF UpdateBuildStatus
<1> HIDE DEF row
<1> QED
  BY <1>2, <1>3

LEMMA BuildImageImages ==
  ASSUME TypeOK, Isolated, ImagesFit, NEW r \in Requests, BuildImage(r)
  PROVE  ImagesFit'
<1> DEFINE t == req[r].tid
<1>1. PICK x \in Replies(req[r].live, FlyFaults["BuildImage"], t \in apps) :
        /\ registry' = IF x.applied THEN registry \cup {t} ELSE registry
        /\ req' = [req EXCEPT ![r].pc = IF x.failed THEN "markFailed" ELSE "markReady",
                              ![r].img = IF x.failed THEN NoImage ELSE t,
                              ![r].live = x.live]
  BY DEF BuildImage
<1>2. UNCHANGED <<templates, mintedBy, machines, boots>>
  BY DEF BuildImage, db
<1>3. ~x.failed => x.applied
  BY CarriedOut
<1>4. req \in [Requests -> Request]
  BY DEF TypeOK
<1>5. /\ \A q \in Requests \ {r} : req'[q] = req[q]
      /\ req'[r].pc = IF x.failed THEN "markFailed" ELSE "markReady"
      /\ req'[r].img = IF x.failed THEN NoImage ELSE t
      /\ req'[r].tid = t
  BY <1>1, <1>4 DEF Request
<1>6. Growing
  BY <1>1, <1>2 DEF Growing
<1>7. req'[r].pc = "markReady" => CarriesOwnImage(r)'
  BY <1>1, <1>3, <1>5 DEF CarriesOwnImage
<1>8. \A u \in TemplateIds : HasOwnImage(u)'
  BY <1>2, <1>6 DEF ImagesFit, HasOwnImage, Growing
<1>9. req'[r].pc \notin BootPcs /\ req'[r].pc # "markBuilding"
  BY <1>5 DEF BootPcs
<1> QED
  BY <1>2, <1>5, <1>6, <1>7, <1>8, <1>9, CarriedOver

LEMMA TemplateStepImages ==
  ASSUME TypeOK, Isolated, ImagesFit, NEW r \in Requests, TemplateStep(r)
  PROVE  ImagesFit'
<1> DEFINE t == req[r].tid
<1>1. CASE BuildImage(r)
  BY <1>1, BuildImageImages
<1>2. CASE ~BuildImage(r)
  <2>1. UNCHANGED <<mintedBy, registry, machines, boots>>
    BY <1>2 DEF TemplateStep, MarkBuilding, EnsureTemplateApp, MarkReady, MarkFailed,
       ReloadTemplate, db, fly
  <2>2. /\ \A q \in Requests \ {r} : req'[q] = req[q]
        /\ req'[r].pc \notin BootPcs \cup {"markBuilding", "markReady"}
    <3>1. \/ \E pc \in {"ensureTemplateApp", "markFailed", "buildImage", "reloadTemplate"} :
               \E x : GoTo(r, pc, x)
          \/ \E code : Answer(r, code)
      BY ZenonT(60), <1>2 DEF TemplateStep, MarkBuilding, EnsureTemplateApp, MarkReady, MarkFailed,
         ReloadTemplate
    <3>2. /\ req'[r].pc \in {"ensureTemplateApp", "markFailed", "buildImage", "reloadTemplate",
                             "done"}
          /\ \A q \in Requests \ {r} : req'[q] = req[q]
      BY <3>1, GoToEffect, AnswerEffect
    <3> QED
      BY <3>2 DEF BootPcs
  <2>3. t \in TemplateIds /\ req[r].img \in Images
    BY TemplateStepMoves DEF TypeOK, HasTarget, Request, TemplatePcs
  <2>4. ASSUME NEW status \in TemplateStatus, NEW image \in Images,
               templates' = UpdateBuildStatus(t, status, image),
               image = NoImage \/ (image = t /\ t \in registry),
               NEW u \in TemplateIds
        PROVE  HasOwnImage(u)'
    BY <2>1, <2>3, <2>4, UpdatedImage DEF ImagesFit, HasOwnImage
  <2>5. \A u \in TemplateIds : HasOwnImage(u)'
    <3>1. CASE UNCHANGED templates
      BY <2>1, <3>1 DEF ImagesFit, HasOwnImage
    <3>2. CASE MarkBuilding(r)
      <4>1. CarriesOwnImage(r)
        BY <3>2 DEF MarkBuilding, ImagesFit
      <4>2. req[r].img = NoImage \/ (req[r].img = t /\ t \in registry)
        BY <4>1 DEF CarriesOwnImage
      <4>3. \/ UNCHANGED templates
            \/ templates' = UpdateBuildStatus(t, "building", req[r].img)
        BY <3>2 DEF MarkBuilding
      <4> QED
        BY <2>3, <2>4, <3>1, <4>2, <4>3 DEF TemplateStatus
    <3>3. CASE MarkReady(r)
      <4>1. CarriesOwnImage(r) /\ req[r].pc = "markReady"
        BY <3>3 DEF MarkReady, ImagesFit
      <4>2. req[r].img = t /\ t \in registry
        BY <4>1 DEF CarriesOwnImage
      <4>3. \/ UNCHANGED templates
            \/ templates' = UpdateBuildStatus(t, "ready", req[r].img)
        BY <3>3 DEF MarkReady
      <4> QED
        BY <2>3, <2>4, <3>1, <4>2, <4>3 DEF TemplateStatus
    <3>4. CASE MarkFailed(r)
      <4>1. \/ UNCHANGED templates
            \/ templates' = UpdateBuildStatus(t, "failed", NoImage)
        BY <3>4 DEF MarkFailed
      <4> QED
        BY <2>4, <3>1, <4>1 DEF TemplateStatus, Images
    <3> QED
      BY <1>2, <3>1, <3>2, <3>3, <3>4 DEF TemplateStep, EnsureTemplateApp, ReloadTemplate, db
  <2>6. Growing
    BY <2>1 DEF Growing
  <2> QED
    BY <2>1, <2>2, <2>5, <2>6, CarriedOver
<1> QED
  BY <1>1, <1>2

\* The image reference a build starts with is that of the row it was read from.
LEMMA BuildTemplateImages ==
  ASSUME TypeOK, Isolated, ImagesFit, NEW r \in Requests, BuildTemplate(r)
  PROVE  ImagesFit'
<1>1. PICK org \in Orgs, t \in TemplateIds, x \in Queried(TRUE) :
        \/ AnswerAtOnce(r, "buildTemplate", org, t, MapError(TemplateError(LookupError)))
        \/ /\ GetTemplate(org, t, x) # NoRow
           /\ req' = [req EXCEPT ![r] =
                        [Accept("buildTemplate", org, NoId, t, x)
                           EXCEPT !.pc = "markBuilding",
                                  !.img = GetTemplate(org, t, x).image]]
  BY DEF BuildTemplate, Minted
<1>2. UNCHANGED <<templates, mintedBy, registry, machines, boots>>
  BY DEF BuildTemplate, db, fly
<1>3. CASE AnswerAtOnce(r, "buildTemplate", org, t, MapError(TemplateError(LookupError)))
  <2>1. "buildTemplate" \in TemplateOps
    BY DEF TemplateOps
  <2>2. req'[r].pc = "done" /\ \A q \in Requests \ {r} : req'[q] = req[q]
    BY <1>3, <2>1, AnswerAtOnceEffect
  <2> QED
    BY <1>2, <2>2, PcsApart, HandlerOnly
<1>4. CASE /\ GetTemplate(org, t, x) # NoRow
           /\ req' = [req EXCEPT ![r] =
                        [Accept("buildTemplate", org, NoId, t, x)
                           EXCEPT !.pc = "markBuilding",
                                  !.img = GetTemplate(org, t, x).image]]
  <2> DEFINE new == Accept("buildTemplate", org, NoId, t, x)
             img == GetTemplate(org, t, x).image
             q == [new EXCEPT !.pc = "markBuilding", !.img = img]
  <2>1. img = templates[t].image /\ templates[t] # NoRow
    BY <1>4 DEF GetTemplate
  <2>2. new \in Request /\ new.tid = t
    <3>1. x.live \in BOOLEAN
      BY FirstReplyType
    <3> QED
      BY <3>1, AcceptType DEF TemplateOps
  <2>3. req' = [req EXCEPT ![r] = q]
    BY <1>4
  <2> HIDE DEF new, img
  <2>4. q.pc = "markBuilding" /\ q.tid = t /\ q.img = img
    BY <2>2 DEF Request
  <2> HIDE DEF q
  <2>5. req'[r] = q /\ \A u \in Requests \ {r} : req'[u] = req[u]
    BY <2>3 DEF TypeOK
  <2>6. img = NoImage \/ (img = t /\ t \in registry)
    BY <2>1 DEF ImagesFit, HasOwnImage
  <2>7. CarriesOwnImage(r)'
    BY <1>2, <2>4, <2>5, <2>6 DEF CarriesOwnImage
  <2>8. req'[r].pc \notin BootPcs
    BY <2>4, <2>5, PcsApart
  <2> QED
    BY <1>2, <2>5, <2>7, <2>8, HandlerOnly
<1> QED
  BY <1>1, <1>3, <1>4

LEMMA TemplateArrivalImages ==
  ASSUME TypeOK, Isolated, ImagesFit, NEW r \in Requests, TemplateArrival(r)
  PROVE  ImagesFit'
<1>1. CASE BuildTemplate(r)
  BY <1>1, BuildTemplateImages
<1>2. CASE ~BuildTemplate(r)
  <2>1. UNCHANGED <<registry, machines, boots>>
    BY <1>2 DEF TemplateArrival, CreateTemplate, ReadTemplate, ListTemplates, DeleteTemplate, fly
  <2>2. \E op \in TemplateOps, org \in Orgs, t \in TemplateIds \cup {NoId} : \E code :
          AnswerAtOnce(r, op, org, t, code)
    <3> USE DEF TemplateOps
    <3>1. CASE CreateTemplate(r)
      BY <3>1 DEF CreateTemplate
    <3>2. CASE ReadTemplate(r)
      BY <3>2 DEF ReadTemplate, Minted
    <3>3. CASE ListTemplates(r)
      BY <3>3 DEF ListTemplates
    <3>4. CASE DeleteTemplate(r)
      BY <3>4 DEF DeleteTemplate, Minted
    <3> QED
      BY <1>2, <3>1, <3>2, <3>3, <3>4 DEF TemplateArrival
  <2>3. req'[r].pc = "done" /\ \A q \in Requests \ {r} : req'[q] = req[q]
    BY <2>2, AnswerAtOnceEffect
  <2>4. Growing
    <3>1. \/ UNCHANGED mintedBy
          \/ \E t \in TemplateIds, org \in Orgs :
               mintedBy[t] = NoId /\ mintedBy' = [mintedBy EXCEPT ![t] = org]
      BY <1>2 DEF TemplateArrival, CreateTemplate, ReadTemplate, ListTemplates,
         DeleteTemplate, Minted, db
    <3> QED
      BY <2>1, <3>1 DEF Growing, TypeOK
  <2>5. ASSUME NEW u \in TemplateIds PROVE HasOwnImage(u)'
    <3>1. \/ UNCHANGED templates
          \/ \E t \in TemplateIds : templates' = [templates EXCEPT ![t] = NoRow]
          \/ \E t \in TemplateIds, org \in Orgs : templates' = [templates EXCEPT ![t] = DraftRow(org)]
      BY <1>2 DEF TemplateArrival, CreateTemplate, ReadTemplate, ListTemplates,
         DeleteTemplate, Minted, db
    <3>2. \/ templates'[u] = templates[u]
          \/ templates'[u] = NoRow
          \/ \E org \in Orgs : templates'[u] = DraftRow(org)
      BY <3>1 DEF TypeOK
    <3>3. \A org \in Orgs : DraftRow(org).image = NoImage
      BY DEF DraftRow
    <3> QED
      BY <2>1, <3>2, <3>3 DEF ImagesFit, HasOwnImage
  <2>6. req'[r].pc \notin BootPcs \cup {"markBuilding", "markReady"}
    BY <2>3, PcsApart
  <2> QED
    BY <2>1, <2>3, <2>4, <2>5, <2>6, CarriedOver
<1> QED
  BY <1>1, <1>2

\* Restarts and the proxy.
LEMMA EnvironmentImages ==
  ASSUME TypeOK, Isolated, ImagesFit,
         Crash \/ (\E s \in SessionIds : Autostop(s) \/ Autostart(s)) \/ UNCHANGED vars
  PROVE  ImagesFit'
<1>1. UNCHANGED <<templates, mintedBy, registry, boots>>
  BY DEF Crash, Autostop, Autostart, vars, db, fly
<1>2. \A u \in SessionIds : machines'[u] # "none" => machines[u] # "none"
  <2>1. CASE \E s \in SessionIds : Autostop(s) \/ Autostart(s)
    <3>1. PICK s \in SessionIds : Autostop(s) \/ Autostart(s)
      BY <2>1
    <3>2. machines[s] # "none" /\ \A u \in SessionIds \ {s} : machines'[u] = machines[u]
      BY <3>1 DEF Autostop, Autostart, TypeOK
    <3> QED
      BY <3>2
  <2> QED
    BY <2>1 DEF Crash, vars, fly
<1>3. \/ req' = req
      \/ \A q \in Requests : req'[q].pc \notin BootPcs \cup {"markBuilding", "markReady"}
  BY DEF Crash, Autostop, Autostart, vars, Idle, BootPcs
<1>4. Growing
  BY <1>1 DEF Growing
<1>5. \A t \in TemplateIds : HasOwnImage(t)'
  BY <1>1 DEF ImagesFit, HasOwnImage
<1> QED
  BY <1>1, <1>2, <1>3, <1>4, <1>5, CarriedOver

LEMMA InitImages == Init => ImagesFit
BY DEF Init, ImagesFit, HasOwnImage, Idle, BootPcs

LEMMA NextImages == TypeOK /\ Isolated /\ ImagesFit /\ [Next]_vars => ImagesFit'
<1> SUFFICES ASSUME TypeOK, Isolated, ImagesFit, [Next]_vars PROVE ImagesFit'
  OBVIOUS
<1>1. CASE \E r \in Requests : SessionArrival(r) \/ TemplateArrival(r) \/ Advance(r)
  BY <1>1, SessionArrivalImages, TemplateArrivalImages, SessionStepImages, TemplateStepImages
     DEF Advance
<1>2. CASE Crash \/ (\E s \in SessionIds : Autostop(s) \/ Autostart(s)) \/ UNCHANGED vars
  BY <1>2, EnvironmentImages
<1> QED
  BY <1>1, <1>2 DEF Next

\* However builds, deletions, launches and restarts overlap, no row and no
\* machine refers to an image that was not pushed, and no machine boots the image
\* of another tenant's template.
THEOREM ImagesComeFromBuilds == Spec => []ImagesArePushed
BY TypeCorrect, TenantsIsolated, InitImages, NextImages, ImagesFitSuffices, PTL DEF Spec

-----------------------------------------------------------------------------
(* A sheltered control plane: the database answers, no client hangs up, no *)
(* process dies.  Fly may still fail as it likes.                          *)

Sheltered == DbFaults = {} /\ ~Disconnects /\ ~Crashes

ClientsStay == \A r \in Requests : req[r].live = TRUE

LEMMA ShelteredReply ==
  ASSUME Sheltered, NEW faults, NEW possible, NEW x \in Replies(TRUE, faults, possible)
  PROVE  x.live = TRUE
<1>1. x \in {Done, Refused, Lost, HungUp(TRUE), HungUp(FALSE)} /\ (~x.live => Disconnects)
  BY DEF Replies
<1>2. x \in Reply
  BY <1>1, ReplyKinds
<1> QED
  BY <1>1, <1>2 DEF Sheltered, Reply

LEMMA ShelteredStatement ==
  ASSUME Sheltered, NEW possible, possible, NEW x \in Replies(TRUE, DbFaults, possible)
  PROVE  x.applied /\ ~x.failed /\ x.live = TRUE
<1>1. /\ x \in {Done, Refused, Lost, HungUp(TRUE), HungUp(FALSE)}
      /\ ~x.live => Disconnects
      /\ x # Refused /\ x # Lost
  BY DEF Replies, Sheltered
<1>2. Done.applied /\ ~Done.failed /\ Done.live = TRUE
  BY DEF Done
<1>3. ~HungUp(TRUE).live /\ ~HungUp(FALSE).live
  BY DEF HungUp
<1> QED
  BY <1>1, <1>2, <1>3 DEF Sheltered

LEMMA ShelteredQuery ==
  ASSUME Sheltered, ClientsStay, NEW r \in Requests, NEW x \in Queried(req[r].live)
  PROVE  x.applied /\ ~x.failed
<1>1. x \in Replies(TRUE, DbFaults, TRUE)
  BY DEF Queried, ClientsStay
<1> QED
  BY <1>1, ShelteredStatement

LEMMA LiveMoves ==
  ASSUME TypeOK, NEW r \in Requests
  PROVE  /\ \A pc, x : GoTo(r, pc, x) => req'[r].live = x.live
         /\ \A pc, x, what, told : GoOn(r, pc, x, what, told) => req'[r].live = x.live
         /\ \A code : Answer(r, code) => req'[r].live = TRUE
<1>1. req \in [Requests -> Request]
  BY DEF TypeOK
<1>2. ASSUME NEW pc, NEW x, NEW what, NEW told, GoOn(r, pc, x, what, told)
      PROVE  req'[r].live = x.live
  <2> DEFINE ids == IF told THEN req[r].ids \cup {what} ELSE req[r].ids
             q   == [req[r] EXCEPT !.pc = pc, !.live = x.live, !.ids = ids]
  <2>1. req' = [req EXCEPT ![r] = q]
    BY <1>1, <1>2 DEF GoOn, Request
  <2> HIDE DEF ids
  <2>2. q.live = x.live
    BY <1>1 DEF Request
  <2> HIDE DEF q
  <2> QED
    BY <1>1, <2>1, <2>2
<1>3. ASSUME NEW pc, NEW x, GoTo(r, pc, x) PROVE req'[r].live = x.live
  BY <1>1, <1>3 DEF GoTo, Request
<1>4. ASSUME NEW code, Answer(r, code) PROVE req'[r].live = TRUE
  BY <1>1, <1>4 DEF Answer, Request
<1> QED
  BY <1>2, <1>3, <1>4

LEMMA SessionStepLive ==
  ASSUME Sheltered, TypeOK, ClientsStay, NEW r \in Requests, SessionStep(r)
  PROVE  req'[r].live = TRUE
<1>0. req[r].live = TRUE
  BY DEF ClientsStay
<1>1. ASSUME NEW faults, NEW possible, NEW x \in Replies(req[r].live, faults, possible)
      PROVE  x.live = TRUE
  BY <1>0, <1>1, ShelteredReply
<1>2. \/ \E x : x.live = TRUE /\ \E pc : GoTo(r, pc, x)
      \/ \E x : x.live = TRUE /\ \E pc, what, told : GoOn(r, pc, x, what, told)
      \/ \E code : Answer(r, code)
  <2>1. CASE InsertSession(r)
    BY <1>1, <2>1 DEF InsertSession
  <2>2. CASE EnsureSessionApp(r)
    BY <1>1, <2>2 DEF EnsureSessionApp
  <2>3. CASE CreateVolume(r)
    BY <1>1, <2>3 DEF CreateVolume
  <2>4. CASE CreateMachine(r)
    BY <1>1, <2>4 DEF CreateMachine, AskForMachine, CreateMachineReplies
  <2>5. CASE UndoVolume(r)
    BY <1>1, <2>5 DEF UndoVolume, DestroyVolumeReplies
  <2>6. CASE FailSession(r)
    BY <2>6 DEF FailSession
  <2>7. CASE Provisioned(r)
    BY <1>1, <2>7 DEF Provisioned, Queried
  <2>8. CASE ReloadSession(r)
    BY <2>8 DEF ReloadSession
  <2>9. CASE Power(r)
    BY ZenonT(60), <1>1, <2>9 DEF Power
  <2>10. CASE RecordPower(r)
    BY <1>1, <2>10 DEF RecordPower, Queried
  <2>11. CASE DestroyMachine(r)
    BY <1>1, <2>11 DEF DestroyMachine
  <2>12. CASE DestroyVolume(r)
    BY <1>1, <2>12 DEF DestroyVolume, DestroyVolumeReplies
  <2>13. CASE DeleteRow(r)
    BY <2>13 DEF DeleteRow
  <2> QED
    BY <2>1, <2>2, <2>3, <2>4, <2>5, <2>6, <2>7, <2>8, <2>9, <2>10, <2>11, <2>12, <2>13
       DEF SessionStep
<1> QED
  BY <1>2, LiveMoves

LEMMA TemplateStepLive ==
  ASSUME Sheltered, TypeOK, ClientsStay, NEW r \in Requests, TemplateStep(r)
  PROVE  req'[r].live = TRUE
<1>0. req[r].live = TRUE
  BY DEF ClientsStay
<1>1. ASSUME NEW faults, NEW possible, NEW x \in Replies(req[r].live, faults, possible)
      PROVE  x.live = TRUE
  BY <1>0, <1>1, ShelteredReply
<1>2. CASE BuildImage(r)
  <2>1. PICK x \in Replies(req[r].live, FlyFaults["BuildImage"], req[r].tid \in apps) :
          req' = [req EXCEPT ![r].pc = IF x.failed THEN "markFailed" ELSE "markReady",
                             ![r].img = IF x.failed THEN NoImage ELSE req[r].tid,
                             ![r].live = x.live]
    BY <1>2 DEF BuildImage
  <2>2. x.live = TRUE
    BY <1>1
  <2> QED
    BY <2>1, <2>2 DEF TypeOK, Request
<1>3. CASE ~BuildImage(r)
  <2>1. \/ \E x : x.live = TRUE /\ \E pc : GoTo(r, pc, x)
        \/ \E code : Answer(r, code)
    <3>1. CASE MarkBuilding(r)
      BY <1>1, <3>1 DEF MarkBuilding, Queried
    <3>2. CASE EnsureTemplateApp(r)
      BY <1>1, <3>2 DEF EnsureTemplateApp
    <3>3. CASE MarkReady(r)
      BY <1>1, <3>3 DEF MarkReady, Queried
    <3>4. CASE MarkFailed(r)
      BY <3>4 DEF MarkFailed
    <3>5. CASE ReloadTemplate(r)
      BY <3>5 DEF ReloadTemplate
    <3> QED
      BY <1>3, <3>1, <3>2, <3>3, <3>4, <3>5 DEF TemplateStep
  <2> QED
    BY <2>1, LiveMoves
<1> QED
  BY <1>2, <1>3

LEMMA AcceptLive ==
  ASSUME NEW op, NEW org, NEW s, NEW t, NEW x, x.live = TRUE
  PROVE  Accept(op, org, s, t, x).live = TRUE
BY DEF Accept, Idle

\* A request arrives with its client there.
LEMMA ArrivedLive ==
  ASSUME TypeOK, NEW r \in Requests, NEW q, q.live = TRUE, req' = [req EXCEPT ![r] = q]
  PROVE  req'[r].live = TRUE
BY DEF TypeOK

LEMMA LookUpLive ==
  ASSUME Sheltered, TypeOK, NEW r \in Requests, NEW op \in SessionOps, LookUpSession(r, op)
  PROVE  req'[r].live = TRUE
<1>1. PICK org \in Orgs, s \in SessionIds, x \in Queried(TRUE) :
        LET row == GetSession(org, s, x)
            pc  == IF row = NoRow THEN "done" ELSE FirstCall(op, row.ids)
            new == Accept(op, org, s, NoId, x)
        IN  req' = [req EXCEPT ![r] =
              IF pc = "done"
              THEN [new EXCEPT !.pc = "done", !.live = TRUE,
                               !.ans = MapError("ErrSessionNotFound")]
              ELSE [new EXCEPT !.pc = pc, !.ids = row.ids]]
  BY DEF LookUpSession, Minted
<1> DEFINE row == GetSession(org, s, x)
           pc  == IF row = NoRow THEN "done" ELSE FirstCall(op, row.ids)
           new == Accept(op, org, s, NoId, x)
           code == MapError("ErrSessionNotFound")
           q   == IF pc = "done"
                  THEN [new EXCEPT !.pc = "done", !.live = TRUE, !.ans = code]
                  ELSE [new EXCEPT !.pc = pc, !.ids = row.ids]
<1>2. x.live = TRUE
  BY ShelteredReply DEF Queried
<1>3. new \in Request /\ new.live = TRUE
  <2>1. x.live \in BOOLEAN
    BY FirstReplyType
  <2>2. new \in Request
    BY <2>1, AcceptType
  <2>3. new.live = TRUE
    BY <1>2, AcceptLive
  <2> QED
    BY <2>2, <2>3
<1>4. req' = [req EXCEPT ![r] = q]
  BY <1>1
<1> HIDE DEF new, pc, code, row
<1>5. q.live = TRUE
  BY <1>3 DEF Request
<1> HIDE DEF q
<1> QED
  BY <1>4, <1>5, ArrivedLive

LEMMA CreateSessionLive ==
  ASSUME Sheltered, TypeOK, NEW r \in Requests, CreateSession(r)
  PROVE  req'[r].live = TRUE
<1>1. PICK org \in Orgs, t \in TemplateIds, x \in Queried(TRUE) :
        LET tpl == GetTemplate(org, t, x)
            new == Accept("createSession", org, NoId, t, x)
            reject(e) == /\ req' = [req EXCEPT ![r] =
                               [new EXCEPT !.pc = "done", !.live = TRUE, !.ans = MapError(e)]]
                         /\ UNCHANGED mintedBy
        IN  \/ tpl = NoRow /\ reject(TemplateError(LookupError))
            \/ tpl # NoRow /\ ImageToBoot(tpl) = NoImage /\ reject("ErrTemplateNotReady")
            \/ /\ tpl # NoRow
               /\ ImageToBoot(tpl) # NoImage
               /\ \E s \in SessionIds \ Minted(SessionIds) :
                    /\ mintedBy' = [mintedBy EXCEPT ![s] = org]
                    /\ req' = [req EXCEPT ![r] = [new EXCEPT !.pc = "insertSession",
                                 !.sid = s, !.img = ImageToBoot(tpl)]]
  BY DEF CreateSession, Minted
<1> DEFINE new == Accept("createSession", org, NoId, t, x)
<1>2. x.live = TRUE
  BY ShelteredReply DEF Queried
<1>3. new \in Request /\ new.live = TRUE
  <2>1. x.live \in BOOLEAN
    BY FirstReplyType
  <2>2. new \in Request
    BY <2>1, AcceptType DEF SessionOps
  <2>3. new.live = TRUE
    BY <1>2, AcceptLive
  <2> QED
    BY <2>2, <2>3
<1>4. PICK q : req' = [req EXCEPT ![r] = q] /\ q.live = TRUE
  <2>1. CASE \E e : req' = [req EXCEPT ![r] = [new
               EXCEPT !.pc = "done", !.live = TRUE, !.ans = MapError(e)]]
    <3>1. PICK e : req' = [req EXCEPT ![r] = [new
               EXCEPT !.pc = "done", !.live = TRUE, !.ans = MapError(e)]]
      BY <2>1
    <3> DEFINE code == MapError(e)
    <3> HIDE DEF new, code
    <3>2. [new EXCEPT !.pc = "done", !.live = TRUE, !.ans = code].live = TRUE
      BY <1>3 DEF Request
    <3> QED
      BY <3>1, <3>2 DEF code
  <2>2. CASE \E s \in SessionIds : \E img : req' = [req EXCEPT ![r] = [new
               EXCEPT !.pc = "insertSession", !.sid = s, !.img = img]]
    <3>1. PICK s \in SessionIds : \E img : req' = [req EXCEPT ![r] = [new
               EXCEPT !.pc = "insertSession", !.sid = s, !.img = img]]
      BY <2>2
    <3>2. PICK img : req' = [req EXCEPT ![r] = [new
               EXCEPT !.pc = "insertSession", !.sid = s, !.img = img]]
      BY <3>1
    <3> HIDE DEF new
    <3>3. [new EXCEPT !.pc = "insertSession", !.sid = s, !.img = img].live = TRUE
      BY <1>3 DEF Request
    <3> QED
      BY <3>2, <3>3
  <2> QED
    BY <1>1, <2>1, <2>2
<1> QED
  BY <1>4, ArrivedLive

LEMMA ReadLive ==
  ASSUME TypeOK, NEW r \in Requests, ReadSession(r) \/ ListSessions(r)
  PROVE  req'[r].live = TRUE
<1>1. PICK op \in {"getSession", "listSessions"}, org \in Orgs, s \in SessionIds \cup {NoId} :
        \E code : req' = [req EXCEPT ![r] =
          [Accept(op, org, s, NoId, Done) EXCEPT !.pc = "done", !.ans = code]]
  <2>1. CASE ReadSession(r)
    <3>1. PICK org \in Orgs, s \in SessionIds, x \in Queried(TRUE) :
            req' = [req EXCEPT ![r] =
                      [Accept("getSession", org, s, NoId, Done)
                         EXCEPT !.pc = "done",
                                !.ans = IF GetSession(org, s, x) = NoRow
                                        THEN MapError(LookupError) ELSE 200]]
      BY <2>1 DEF ReadSession, Minted
    <3> QED
      BY ZenonT(60), <3>1
  <2>2. CASE ListSessions(r)
    <3>1. PICK org \in Orgs, x \in Queried(TRUE) :
            req' = [req EXCEPT ![r] =
                      [Accept("listSessions", org, NoId, NoId, Done)
                         EXCEPT !.pc = "done",
                                !.ans = IF ListSucceeds(sessions, org, x) THEN 200 ELSE 500]]
      BY <2>2 DEF ListSessions
    <3> DEFINE code == IF ListSucceeds(sessions, org, x) THEN 200 ELSE 500
    <3>2. req' = [req EXCEPT ![r] =
            [Accept("listSessions", org, NoId, NoId, Done) EXCEPT !.pc = "done", !.ans = code]]
      BY <3>1
    <3> HIDE DEF code
    <3> QED
      BY <3>2
  <2> QED
    BY <2>1, <2>2
<1> DEFINE new == Accept(op, org, s, NoId, Done)
<1>2. new \in Request
  BY AcceptType, DoneIsLive DEF SessionOps
<1>3. new.live = TRUE
  BY AcceptLive DEF Done
<1> HIDE DEF new
<1>4. PICK code : req' = [req EXCEPT ![r] = [new EXCEPT !.pc = "done", !.ans = code]]
  BY <1>1 DEF new
<1>5. [new EXCEPT !.pc = "done", !.ans = code].live = TRUE
  BY <1>2, <1>3 DEF Request
<1> QED
  BY <1>4, <1>5, ArrivedLive

LEMMA AnswerAtOnceLive ==
  ASSUME TypeOK, NEW r \in Requests, NEW op \in TemplateOps, NEW org \in Orgs,
         NEW t \in TemplateIds \cup {NoId}, NEW code, AnswerAtOnce(r, op, org, t, code)
  PROVE  req'[r].live = TRUE
<1> DEFINE new == Accept(op, org, NoId, t, Done)
<1>1. new \in Request
  BY AcceptType, DoneIsLive
<1>2. new.live = TRUE
  BY AcceptLive DEF Done
<1>3. req' = [req EXCEPT ![r] = [new EXCEPT !.pc = "done", !.ans = code]]
  BY DEF AnswerAtOnce
<1> HIDE DEF new
<1>4. [new EXCEPT !.pc = "done", !.ans = code].live = TRUE
  BY <1>1, <1>2 DEF Request
<1> QED
  BY <1>3, <1>4, ArrivedLive

LEMMA TemplateArrivalLive ==
  ASSUME Sheltered, TypeOK, NEW r \in Requests, TemplateArrival(r)
  PROVE  req'[r].live = TRUE
<1>1. CASE \E op \in TemplateOps, org \in Orgs, t \in TemplateIds \cup {NoId} : \E code :
             AnswerAtOnce(r, op, org, t, code)
  BY <1>1, AnswerAtOnceLive
<1>2. CASE \E org \in Orgs, t \in TemplateIds, x \in Queried(TRUE) :
             req' = [req EXCEPT ![r] =
                       [Accept("buildTemplate", org, NoId, t, x)
                          EXCEPT !.pc = "markBuilding",
                                 !.img = GetTemplate(org, t, x).image]]
  <2>1. PICK org \in Orgs, t \in TemplateIds, x \in Queried(TRUE) :
             req' = [req EXCEPT ![r] =
                       [Accept("buildTemplate", org, NoId, t, x)
                          EXCEPT !.pc = "markBuilding",
                                 !.img = GetTemplate(org, t, x).image]]
    BY <1>2
  <2> DEFINE new == Accept("buildTemplate", org, NoId, t, x)
             img == GetTemplate(org, t, x).image
  <2>2. x.live = TRUE
    BY ShelteredReply DEF Queried
  <2>3. new \in Request
    <3>1. x.live \in BOOLEAN
      BY FirstReplyType
    <3> QED
      BY <3>1, AcceptType DEF TemplateOps
  <2>4. new.live = TRUE
    BY <2>2, AcceptLive
  <2> HIDE DEF new, img
  <2>5. req' = [req EXCEPT ![r] = [new EXCEPT !.pc = "markBuilding", !.img = img]]
    BY <2>1 DEF new, img
  <2>6. [new EXCEPT !.pc = "markBuilding", !.img = img].live = TRUE
    BY <2>3, <2>4 DEF Request
  <2> QED
    BY <2>5, <2>6, ArrivedLive
<1> USE DEF TemplateOps
<1>3. CASE CreateTemplate(r)
  <2>1. \E org \in Orgs, t \in TemplateIds : \E code :
          AnswerAtOnce(r, "createTemplate", org, t, code)
    BY <1>3 DEF CreateTemplate
  <2> QED
    BY <1>1, <2>1
<1>4. CASE ReadTemplate(r)
  <2>1. \E org \in Orgs, t \in TemplateIds : \E code :
          AnswerAtOnce(r, "getTemplate", org, t, code)
    BY <1>4 DEF ReadTemplate, Minted
  <2> QED
    BY <1>1, <2>1
<1>5. CASE ListTemplates(r)
  <2>1. \E org \in Orgs : \E code : AnswerAtOnce(r, "listTemplates", org, NoId, code)
    BY <1>5 DEF ListTemplates
  <2> QED
    BY <1>1, <2>1
<1>6. CASE DeleteTemplate(r)
  <2>1. \E org \in Orgs, t \in TemplateIds : \E code :
          AnswerAtOnce(r, "deleteTemplate", org, t, code)
    BY <1>6 DEF DeleteTemplate, Minted
  <2> QED
    BY <1>1, <2>1
<1>7. CASE BuildTemplate(r)
  <2>1. \/ \E org \in Orgs, t \in TemplateIds : \E code :
             AnswerAtOnce(r, "buildTemplate", org, t, code)
        \/ \E org \in Orgs, t \in TemplateIds, x \in Queried(TRUE) :
             req' = [req EXCEPT ![r] =
                       [Accept("buildTemplate", org, NoId, t, x)
                          EXCEPT !.pc = "markBuilding",
                                 !.img = GetTemplate(org, t, x).image]]
    BY <1>7 DEF BuildTemplate, Minted
  <2> QED
    BY <1>1, <1>2, <2>1
<1> QED
  BY <1>3, <1>4, <1>5, <1>6, <1>7 DEF TemplateArrival

LEMMA NextClientsStay ==
  ASSUME Sheltered PROVE TypeOK /\ ClientsStay /\ [Next]_vars => ClientsStay'
<1> SUFFICES ASSUME TypeOK, ClientsStay, [Next]_vars PROVE ClientsStay'
  OBVIOUS
<1>1. ASSUME NEW r \in Requests, SessionStep(r) \/ TemplateStep(r) \/ SessionArrival(r)
                                   \/ TemplateArrival(r)
      PROVE  ClientsStay'
  <2>1. CASE SessionStep(r)
    <3>1. \A q \in Requests \ {r} : req'[q] = req[q]
      BY <2>1, SessionStepMoves, GoesEffect, AnswerEffect
    <3>2. req'[r].live = TRUE
      BY <2>1, SessionStepLive
    <3> QED
      BY <3>1, <3>2 DEF ClientsStay
  <2>2. CASE TemplateStep(r)
    BY <2>2, TemplateStepLive, TemplateStepMoves DEF ClientsStay
  <2>3. CASE TemplateArrival(r)
    BY <2>3, TemplateArrivalLive, TemplateArrivalMoves DEF ClientsStay
  <2>4. CASE CreateSession(r)
    BY <2>4, CreateSessionLive, CreateSessionEffect DEF ClientsStay
  <2>5. CASE ReadSession(r) \/ ListSessions(r)
    BY <2>5, ReadLive, ReadEffect DEF ClientsStay
  <2>6. CASE \E op \in SessionOps : LookUpSession(r, op)
    BY <2>6, LookUpLive, LookUpEffect DEF ClientsStay
  <2> QED
    BY <1>1, <2>1, <2>2, <2>3, <2>4, <2>5, <2>6 DEF SessionArrival, ResumeSession,
       HibernateSession, DeleteSession, SessionOps
<1>2. ~Crash
  BY DEF Crash, Sheltered
<1>3. CASE UNCHANGED req
  BY <1>3 DEF ClientsStay
<1> QED
  BY <1>1, <1>2, <1>3 DEF Next, Advance, Autostop, Autostart, vars

LEMMA ClientsDoStay == ASSUME Sheltered PROVE Spec => []ClientsStay
<1>1. Init => ClientsStay
  BY DEF Init, ClientsStay, Idle
<1>2. TypeOK /\ ClientsStay /\ [Next]_vars => ClientsStay'
  BY NextClientsStay
<1> QED
  BY <1>1, <1>2, TypeCorrect, PTL DEF Spec

LEMMA SessionArrivalMoves ==
  ASSUME TypeOK, NEW r \in Requests, SessionArrival(r)
  PROVE  /\ \A q \in Requests \ {r} : req'[q] = req[q]
         /\ req'[r].pc \in {"done", "insertSession", "power", "destroyMachine",
                           "destroyVolume", "deleteRow"}
<1>1. CASE CreateSession(r)
  BY <1>1, CreateSessionEffect
<1>2. CASE ReadSession(r) \/ ListSessions(r)
  BY <1>2, ReadEffect
<1>3. CASE \E op \in SessionOps : LookUpSession(r, op)
  BY <1>3, LookUpEffect, FirstCallKnows
<1> QED
  BY <1>1, <1>2, <1>3 DEF SessionArrival, ResumeSession, HibernateSession,
     DeleteSession, SessionOps

LEMMA ArrivesFree ==
  ASSUME NEW r \in Requests, SessionArrival(r) \/ TemplateArrival(r)
  PROVE  req[r].pc \in {"idle", "done"}
BY DEF SessionArrival, CreateSession, ReadSession, ListSessions, ResumeSession,
   HibernateSession, DeleteSession, LookUpSession, TemplateArrival, CreateTemplate,
   ReadTemplate, ListTemplates, DeleteTemplate, BuildTemplate, Free

-----------------------------------------------------------------------------
(* A driver that refuses to scan NULL into a string, as pgx v5 does.       *)

\* Then no template ever gets an image, since none can be read back to be built,
\* and no session a row or a handler.
Unlaunched ==
  ~NullAsEmpty =>
    /\ \A t \in TemplateIds : templates[t] # NoRow => templates[t].image = NoImage
    /\ \A s \in SessionIds : ~Stored(s)
    /\ \A r \in Requests : req[r].pc \notin SessionPcs \cup TemplatePcs

LEMMA NothingIsRead ==
  ASSUME TypeOK, Unlaunched, ~NullAsEmpty, NEW org, NEW x
  PROVE  /\ \A t \in TemplateIds : GetTemplate(org, t, x) = NoRow
         /\ \A s \in SessionIds : GetSession(org, s, x) = NoRow
<1>1. ASSUME NEW t \in TemplateIds, templates[t] # NoRow PROVE ~Readable(templates[t])
  <2>1. templates[t] \in TemplateRow /\ templates[t].image = NoImage
    BY <1>1 DEF TypeOK, Unlaunched
  <2>2. "ids" \notin DOMAIN templates[t]
    BY <2>1 DEF TemplateRow
  <2> QED
    BY <2>1, <2>2 DEF Readable
<1> QED
  BY <1>1 DEF Unlaunched, Stored, GetTemplate, GetSession

LEMMA SessionArrivalUnlaunched ==
  ASSUME TypeOK, Unlaunched, ~NullAsEmpty, NEW r \in Requests, SessionArrival(r)
  PROVE  Unlaunched'
<1>1. sessions' = sessions /\ templates' = templates
  BY DEF SessionArrival, CreateSession, ReadSession, ListSessions, ResumeSession,
     HibernateSession, DeleteSession, LookUpSession, db
<1>2. \A q \in Requests \ {r} : req'[q] = req[q]
  BY SessionArrivalMoves
<1>3. req'[r].pc = "done"
  <2>1. CASE CreateSession(r)
    <3>1. PICK org \in Orgs, t \in TemplateIds, x \in Queried(TRUE) :
            GetTemplate(org, t, x) = NoRow =>
              req' = [req EXCEPT ![r] =
                        [Accept("createSession", org, NoId, t, x)
                           EXCEPT !.pc = "done", !.live = TRUE,
                                  !.ans = MapError(TemplateError(LookupError))]]
      BY <2>1 DEF CreateSession, Minted
    <3> DEFINE new  == Accept("createSession", org, NoId, t, x)
               code == MapError(TemplateError(LookupError))
    <3>2. new \in Request
      <4>1. x.live \in BOOLEAN
        BY FirstReplyType
      <4> QED
        BY <4>1, AcceptType DEF SessionOps
    <3>3. req' = [req EXCEPT ![r] = [new EXCEPT !.pc = "done", !.live = TRUE, !.ans = code]]
      BY <3>1, NothingIsRead
    <3> HIDE DEF new, code
    <3>4. [new EXCEPT !.pc = "done", !.live = TRUE, !.ans = code].pc = "done"
      BY <3>2 DEF Request
    <3> QED
      BY <3>3, <3>4 DEF TypeOK
  <2>2. CASE ReadSession(r) \/ ListSessions(r)
    BY <2>2, ReadEffect
  <2>3. CASE \E op \in SessionOps : LookUpSession(r, op)
    BY <2>3, LookUpEffect DEF Unlaunched
  <2> QED
    BY <2>1, <2>2, <2>3 DEF SessionArrival, ResumeSession, HibernateSession,
       DeleteSession, SessionOps
<1> QED
  BY <1>1, <1>2, <1>3 DEF Unlaunched, Stored, SessionPcs, TemplatePcs

LEMMA TemplateArrivalUnlaunched ==
  ASSUME TypeOK, Unlaunched, ~NullAsEmpty, NEW r \in Requests, TemplateArrival(r)
  PROVE  Unlaunched'
<1>1. \A q \in Requests \ {r} : req'[q] = req[q]
  BY TemplateArrivalMoves
<1>2. req'[r].pc = "done"
  <2>1. \E op \in TemplateOps, org \in Orgs, t \in TemplateIds \cup {NoId} : \E code :
          AnswerAtOnce(r, op, org, t, code)
    <3>1. CASE CreateTemplate(r)
      <4>1. \E org \in Orgs, t \in TemplateIds : \E code :
              AnswerAtOnce(r, "createTemplate", org, t, code)
        BY <3>1 DEF CreateTemplate
      <4> QED
        BY <4>1 DEF TemplateOps
    <3>2. CASE ReadTemplate(r)
      <4>1. PICK org \in Orgs, t \in TemplateIds, x \in Queried(TRUE) :
              AnswerAtOnce(r, "getTemplate", org, t,
                           IF GetTemplate(org, t, x) = NoRow THEN MapError(LookupError)
                                                             ELSE 200)
        BY <3>2 DEF ReadTemplate, Minted
      <4> QED
        BY <4>1 DEF TemplateOps
    <3>3. CASE ListTemplates(r)
      <4>1. \E org \in Orgs : \E code : AnswerAtOnce(r, "listTemplates", org, NoId, code)
        BY <3>3 DEF ListTemplates
      <4> QED
        BY <4>1 DEF TemplateOps
    <3>4. CASE DeleteTemplate(r)
      <4>1. \E org \in Orgs, t \in TemplateIds : \E code :
              AnswerAtOnce(r, "deleteTemplate", org, t, code)
        BY <3>4 DEF DeleteTemplate, Minted
      <4> QED
        BY <4>1 DEF TemplateOps
    <3>5. CASE BuildTemplate(r)
      <4>1. PICK org \in Orgs, t \in TemplateIds, x \in Queried(TRUE) :
              GetTemplate(org, t, x) = NoRow =>
                AnswerAtOnce(r, "buildTemplate", org, t, MapError(TemplateError(LookupError)))
        BY <3>5 DEF BuildTemplate, Minted
      <4> QED
        BY <4>1, NothingIsRead DEF TemplateOps
    <3> QED
      BY <3>1, <3>2, <3>3, <3>4, <3>5 DEF TemplateArrival
  <2> QED
    BY <2>1, AnswerAtOnceEffect
<1>3. \A s \in SessionIds : ~Stored(s)'
  <2>1. sessions' = sessions \/ \E t : sessions' = Cascade(t)
    BY DEF TemplateArrival, CreateTemplate, ReadTemplate, ListTemplates, DeleteTemplate,
       BuildTemplate, db
  <2> QED
    BY <2>1 DEF Unlaunched, Cascade, Stored
<1>4. \A u \in TemplateIds : templates'[u] # NoRow => templates'[u].image = NoImage
  <2>1. \/ templates' = templates
        \/ \E t \in TemplateIds : templates' = [templates EXCEPT ![t] = NoRow]
        \/ \E t \in TemplateIds, org \in Orgs :
             templates' = [templates EXCEPT ![t] = DraftRow(org)]
    BY DEF TemplateArrival, CreateTemplate, ReadTemplate, ListTemplates, DeleteTemplate,
       BuildTemplate, Minted, db
  <2>2. \A org \in Orgs : DraftRow(org).image = NoImage
    BY DEF DraftRow
  <2> QED
    BY <2>1, <2>2 DEF TypeOK, Unlaunched
<1> QED
  BY <1>1, <1>2, <1>3, <1>4 DEF Unlaunched, SessionPcs, TemplatePcs

LEMMA NextUnlaunched == TypeOK /\ Unlaunched /\ [Next]_vars => Unlaunched'
<1> SUFFICES ASSUME TypeOK, Unlaunched, [Next]_vars, ~NullAsEmpty PROVE Unlaunched'
  BY DEF Unlaunched
<1>1. ASSUME NEW r \in Requests PROVE ~SessionStep(r) /\ ~TemplateStep(r)
  BY SessionStepMoves, TemplateStepMoves DEF Unlaunched
<1>2. CASE Crash
  BY <1>2 DEF Crash, Idle, db, Unlaunched, Stored, SessionPcs, TemplatePcs
<1>3. CASE UNCHANGED <<sessions, templates, req>>
  BY <1>3 DEF Unlaunched, Stored
<1> QED
  BY <1>1, <1>2, <1>3, SessionArrivalUnlaunched, TemplateArrivalUnlaunched
     DEF Next, Advance, Autostop, Autostart, vars, db

LEMMA StaysUnlaunched == Spec => []Unlaunched
<1>1. Init => Unlaunched
  BY DEF Init, Idle, Unlaunched, Stored, SessionPcs, TemplatePcs
<1> QED
  BY <1>1, NextUnlaunched, TypeCorrect, PTL DEF Spec

\* With pgx v5, which refuses to scan NULL into a string, no session is ever
\* stored and no template ever has an image, whatever clients ask for.
THEOREM NothingIsLaunched ==
  ASSUME ~NullAsEmpty
  PROVE  Spec => [](/\ \A s \in SessionIds : ~Stored(s)
                    /\ \A t \in TemplateIds :
                         templates[t] # NoRow => templates[t].image = NoImage)
<1>1. Unlaunched => /\ \A s \in SessionIds : ~Stored(s)
                    /\ \A t \in TemplateIds :
                         templates[t] # NoRow => templates[t].image = NoImage
  BY DEF Unlaunched
<1> QED
  BY <1>1, StaysUnlaunched, PTL

-----------------------------------------------------------------------------
(* Pending rows.                                                           *)

Pending(s) == Stored(s) /\ sessions[s].status = "pending"

\* A step of handler r that makes no row pending but its own, and takes its own
\* row out of pending, if it was creating it, before it leaves it.
LEMMA TendedRows ==
  ASSUME PendingHasCreator, NEW r \in Requests,
         \A q \in Requests \ {r} : req'[q] = req[q],
         \A s \in SessionIds : Pending(s)' => Pending(s) \/ Creating(s)',
         req[r].pc \in CreatePcs =>
           \/ req'[r].pc \in CreatePcs /\ req'[r].sid = req[r].sid
           \/ \E s \in SessionIds : s = req[r].sid /\ ~Pending(s)'
  PROVE  PendingHasCreator'
<1>1. ASSUME NEW s \in SessionIds, Pending(s)' PROVE Creating(s)'
  <2>1. CASE Creating(s)'
    BY <2>1
  <2>2. CASE Pending(s)
    <3>1. PICK q \in Requests : req[q].pc \in CreatePcs /\ req[q].sid = s
      BY <2>2 DEF PendingHasCreator, Pending, Creating
    <3>2. req'[q].pc \in CreatePcs /\ req'[q].sid = s
      BY <1>1, <3>1
    <3> QED
      BY <3>2 DEF Creating
  <2> QED
    BY <1>1, <2>1, <2>2
<1> QED
  BY <1>1 DEF PendingHasCreator, Pending

\* No statement but INSERT makes a row pending.
LEMMA UpdatesKeepPending ==
  ASSUME TypeOK, NEW s \in SessionIds, NEW status \in SessionStatus \ {"pending"}, NEW ids,
         sessions' \in {SetStatus(s, status), MarkProvisioned(s, ids)}
  PROVE  ~Pending(s)' /\ \A u \in SessionIds : Pending(u)' => Pending(u)
<1>1. sessions \in [SessionIds -> SessionRow \cup {NoRow}]
  BY DEF TypeOK
<1>2. \A u \in SessionIds \ {s} : sessions'[u] = sessions[u]
  BY <1>1 DEF SetStatus, MarkProvisioned
<1>3. ~Pending(s)'
  <2>1. CASE ~Stored(s)
    BY <1>1, <2>1 DEF SetStatus, MarkProvisioned, Stored, Pending
  <2>2. CASE Stored(s)
    <3>1. sessions[s] \in SessionRow
      BY <1>1, <2>2 DEF Stored
    <3>2. \/ sessions'[s] = [sessions[s] EXCEPT !.status = status]
          \/ sessions'[s] = [sessions[s] EXCEPT !.status = "running",
                                               !.ids = ids \cup {"app"}]
      BY <1>1, <2>2 DEF SetStatus, MarkProvisioned, Stored
    <3> QED
      BY <3>1, <3>2 DEF SessionRow, Pending, Stored
  <2> QED
    BY <2>1, <2>2
<1> QED
  BY <1>2, <1>3 DEF Pending, Stored

LEMMA InsertSessionTended ==
  ASSUME Sheltered, Unlaunched, TypeOK, SessionsFit, ClientsStay, PendingHasCreator,
         NEW r \in Requests, InsertSession(r)
  PROVE  PendingHasCreator'
<1> DEFINE s == req[r].sid
           t == req[r].tid
<1>1. PICK x \in Replies(req[r].live, DbFaults, templates[t] # NoRow) :
        /\ sessions' = IF x.applied
                       THEN [sessions EXCEPT ![s] = PendingRow(req[r].org, t)]
                       ELSE sessions
        /\ IF ~x.failed /\ Readable(PendingRow(req[r].org, t))
           THEN GoTo(r, "ensureSessionApp", x)
           ELSE Answer(r, 500)
  BY DEF InsertSession
<1>2. req[r].pc = "insertSession" /\ "insertSession" \in CreatePcs
  BY DEF InsertSession, CreatePcs
<1>3. s \in SessionIds /\ ~Stored(s)
  BY <1>2, AtWorkHasSession DEF SessionsFit, CreatorsFit
<1>4. \A u \in SessionIds \ {s} : sessions'[u] = sessions[u]
  BY <1>1 DEF TypeOK
<1>5. CASE x.applied
  <2>1. templates[t] # NoRow
    BY <1>1, <1>5, AppliedIsPossible
  <2>2. ~x.failed
    <3>1. x \in Replies(TRUE, DbFaults, TRUE)
      <4>1. (templates[t] # NoRow) = TRUE /\ req[r].live = TRUE
        BY <2>1 DEF ClientsStay
      <4> QED
        BY <1>1, <4>1
    <3> QED
      BY <3>1, ShelteredStatement
  <2>3. Readable(PendingRow(req[r].org, t))
    BY <1>2 DEF Unlaunched, CreatePcs, SessionPcs, Readable
  <2>4. GoTo(r, "ensureSessionApp", x)
    BY <1>1, <2>2, <2>3
  <2>5. /\ req'[r].pc \in CreatePcs /\ req'[r].sid = s
        /\ \A q \in Requests \ {r} : req'[q] = req[q]
    BY <2>4, GoToEffect DEF CreatePcs
  <2>6. Creating(s)'
    BY <2>5 DEF Creating
  <2> QED
    BY <1>4, <2>5, <2>6, TendedRows DEF Pending, Stored
<1>6. CASE ~x.applied
  <2>1. sessions' = sessions
    BY <1>1, <1>6
  <2>2. \A q \in Requests \ {r} : req'[q] = req[q]
    BY <1>1, GoToEffect, AnswerEffect
  <2>3. PICK i \in SessionIds : i = s
    BY <1>3
  <2>4. ~Pending(i)' /\ \A u \in SessionIds : Pending(u)' => Pending(u)
    BY <1>3, <2>1, <2>3 DEF Pending, Stored
  <2> QED
    BY <2>2, <2>3, <2>4, TendedRows
<1> QED
  BY <1>5, <1>6

LEMMA SessionStepTended ==
  ASSUME Sheltered, Unlaunched, TypeOK, SessionsFit, ClientsStay, PendingHasCreator,
         NEW r \in Requests, SessionStep(r)
  PROVE  PendingHasCreator'
<1> DEFINE s == req[r].sid
<1>0. \A q \in Requests \ {r} : req'[q] = req[q]
  BY SessionStepMoves, GoesEffect, AnswerEffect
<1>1. CASE InsertSession(r)
  BY <1>1, InsertSessionTended
<1>2. CASE EnsureSessionApp(r) \/ CreateVolume(r) \/ CreateMachine(r) \/ UndoVolume(r)
  <2>1. sessions' = sessions
    BY <1>2 DEF EnsureSessionApp, CreateVolume, CreateMachine, AskForMachine, UndoVolume, db
  <2>2. \E pc \in CreatePcs : Goes(r, pc)
    BY <1>2 DEF EnsureSessionApp, CreateVolume, CreateMachine, AskForMachine, UndoVolume,
       CreatePcs, Goes
  <2>3. req'[r].pc \in CreatePcs /\ req'[r].sid = s
    BY <2>2, GoesEffect
  <2> QED
    BY <1>0, <2>1, <2>3, TendedRows DEF Pending, Stored
<1>3. CASE FailSession(r) \/ Provisioned(r)
  <2>1. req[r].pc \in CreatePcs
    BY <1>3 DEF FailSession, Provisioned, CreatePcs
  <2>2. PICK i \in SessionIds : i = s
    BY <2>1, AtWorkHasSession
  <2>3. PICK x \in Queried(req[r].live) :
          \/ sessions' = IF x.applied THEN SetStatus(i, "error") ELSE sessions
          \/ sessions' = IF x.applied THEN MarkProvisioned(i, req[r].ids) ELSE sessions
    BY <1>3, <2>2 DEF FailSession, Provisioned
  <2>4. x.applied
    BY ShelteredQuery
  <2>5. ~Pending(i)' /\ \A u \in SessionIds : Pending(u)' => Pending(u)
    BY <2>3, <2>4, UpdatesKeepPending DEF SessionStatus
  <2> QED
    BY <1>0, <2>2, <2>5, TendedRows
<1>4. CASE RecordPower(r)
  <2>1. req[r].pc \notin CreatePcs /\ req[r].pc \in UsePcs
    BY <1>4 DEF RecordPower, CreatePcs, UsePcs
  <2>2. PICK i \in SessionIds : i = s
    BY <2>1, AtWorkHasSession
  <2>3. PICK status \in {"running", "suspended"} :
          sessions' = sessions \/ sessions' = SetStatus(i, status)
    <3> DEFINE status == IF req[r].op = "resumeSession" THEN "running" ELSE "suspended"
    <3>1. status \in {"running", "suspended"}
      OBVIOUS
    <3>2. sessions' = sessions \/ sessions' = SetStatus(i, status)
      BY <1>4, <2>2 DEF RecordPower
    <3> HIDE DEF status
    <3> QED
      BY <3>1, <3>2
  <2>4. status \in SessionStatus \ {"pending"}
    BY DEF SessionStatus
  <2>5. \A u \in SessionIds : Pending(u)' => Pending(u)
    BY <2>3, <2>4, UpdatesKeepPending DEF Pending, Stored
  <2> QED
    BY <1>0, <2>1, <2>5, TendedRows
<1>5. CASE ReloadSession(r) \/ Power(r) \/ DestroyMachine(r) \/ DestroyVolume(r) \/ DeleteRow(r)
  <2>1. req[r].pc \notin CreatePcs
    BY <1>5 DEF ReloadSession, Power, DestroyMachine, DestroyVolume, DeleteRow, CreatePcs
  <2>2. sessions' = sessions \/ sessions' = [sessions EXCEPT ![s] = NoRow]
    BY <1>5 DEF ReloadSession, Power, DestroyMachine, DestroyVolume, DeleteRow, db
  <2>3. \A u \in SessionIds : Pending(u)' => Pending(u)
    BY <2>2 DEF Pending, Stored, TypeOK
  <2> QED
    BY <1>0, <2>1, <2>3, TendedRows
<1> QED
  BY <1>1, <1>2, <1>3, <1>4, <1>5 DEF SessionStep

LEMMA NextTended ==
  ASSUME Sheltered
  PROVE  TypeOK /\ SessionsFit /\ Unlaunched /\ ClientsStay /\ PendingHasCreator /\ [Next]_vars
           => PendingHasCreator'
<1> SUFFICES ASSUME TypeOK, SessionsFit, Unlaunched, ClientsStay, PendingHasCreator, [Next]_vars
             PROVE  PendingHasCreator'
  OBVIOUS
<1>1. ASSUME NEW r \in Requests, SessionStep(r) PROVE PendingHasCreator'
  BY <1>1, SessionStepTended
<1>2. ASSUME NEW r \in Requests, TemplateStep(r) \/ TemplateArrival(r) PROVE PendingHasCreator'
  <2>1. \A q \in Requests \ {r} : req'[q] = req[q]
    BY <1>2, TemplateStepMoves, TemplateArrivalMoves
  <2>2. req[r].pc \notin CreatePcs
    BY <1>2, TemplateStepMoves DEF TemplateArrival, CreateTemplate, ReadTemplate,
       ListTemplates, DeleteTemplate, BuildTemplate, Free, CreatePcs, TemplatePcs
  <2>3. sessions' = sessions \/ \E t : sessions' = Cascade(t)
    BY <1>2 DEF TemplateStep, TemplateArrival, MarkBuilding, EnsureTemplateApp,
       BuildImage, MarkReady, MarkFailed, ReloadTemplate, CreateTemplate, ReadTemplate,
       ListTemplates, BuildTemplate, DeleteTemplate, db
  <2>4. \A u \in SessionIds : Pending(u)' => Pending(u)
    BY <2>3 DEF Cascade, Pending, Stored
  <2> QED
    BY <2>1, <2>2, <2>4, TendedRows
<1>3. ASSUME NEW r \in Requests, SessionArrival(r) PROVE PendingHasCreator'
  <2>1. sessions' = sessions /\ req[r].pc \notin CreatePcs
    BY <1>3 DEF SessionArrival, CreateSession, ReadSession, ListSessions, ResumeSession,
       HibernateSession, DeleteSession, LookUpSession, db, Free, CreatePcs
  <2> QED
    BY <1>3, <2>1, SessionArrivalMoves, TendedRows DEF Pending, Stored
<1>4. ~Crash
  BY DEF Crash, Sheltered
<1>5. CASE UNCHANGED <<sessions, req>>
  BY <1>5 DEF PendingHasCreator, Stored, Creating
<1> QED
  BY <1>1, <1>2, <1>3, <1>4, <1>5 DEF Next, Advance, Autostop, Autostart, vars, db

\* While the database answers, clients stay and the process lives, no row is
\* left pending by a handler that returned: whatever Fly refuses or leaves
\* unanswered, each way out of createSession writes the row first. With a driver
\* that refuses NULL it is so because there are no rows.
THEOREM PendingIsTended ==
  ASSUME Sheltered
  PROVE  Spec => []PendingHasCreator
<1>1. Init => PendingHasCreator
  BY DEF Init, PendingHasCreator, Stored
<1>2. TypeOK /\ SessionsFit /\ Unlaunched /\ ClientsStay /\ PendingHasCreator /\ [Next]_vars
        => PendingHasCreator'
  BY NextTended
<1>3. Spec => []ClientsStay
  BY ClientsDoStay
<1> QED
  BY <1>1, <1>2, <1>3, SessionsStayFit, StaysUnlaunched, PTL DEF Spec

-----------------------------------------------------------------------------
(* Templates being built.                                                  *)

Marked(t) == templates[t] # NoRow /\ templates[t].status = "building"

\* A step of handler r that marks no template but its own, and takes its own out
\* of building, if it was building it, before it leaves it.
LEMMA TendedBuilds ==
  ASSUME BuildingHasBuilder, NEW r \in Requests,
         \A q \in Requests \ {r} : req'[q] = req[q],
         \A t \in TemplateIds : Marked(t)' => Marked(t) \/ Building(t)',
         req[r].pc \in BuildPcs =>
           \/ req'[r].pc \in BuildPcs /\ req'[r].tid = req[r].tid
           \/ \E t \in TemplateIds : t = req[r].tid /\ ~Marked(t)'
  PROVE  BuildingHasBuilder'
<1>1. ASSUME NEW t \in TemplateIds, Marked(t)' PROVE Building(t)'
  <2>1. CASE Building(t)'
    BY <2>1
  <2>2. CASE Marked(t)
    <3>1. PICK q \in Requests : req[q].pc \in BuildPcs /\ req[q].tid = t
      BY <2>2 DEF BuildingHasBuilder, Marked, Building
    <3>2. req'[q].pc \in BuildPcs /\ req'[q].tid = t
      BY <1>1, <3>1
    <3> QED
      BY <3>2 DEF Building
  <2> QED
    BY <1>1, <2>1, <2>2
<1> QED
  BY <1>1 DEF BuildingHasBuilder, Marked

LEMMA UpdateMarks ==
  ASSUME TypeOK, NEW t \in TemplateIds, NEW status \in TemplateStatus, NEW image \in Images,
         templates' = UpdateBuildStatus(t, status, image)
  PROVE  /\ status # "building" => ~Marked(t)'
         /\ \A u \in TemplateIds \ {t} : Marked(u)' => Marked(u)
<1>1. templates \in [TemplateIds -> TemplateRow \cup {NoRow}]
  BY DEF TypeOK
<1>2. \A u \in TemplateIds \ {t} : templates'[u] = templates[u]
  BY <1>1 DEF UpdateBuildStatus
<1>3. CASE templates[t] = NoRow
  BY <1>1, <1>2, <1>3 DEF UpdateBuildStatus, Marked
<1>4. CASE templates[t] # NoRow
  <2>1. templates[t] \in TemplateRow
    BY <1>1, <1>4
  <2>2. templates'[t] = [templates[t] EXCEPT !.status = status, !.image = image]
    BY <1>1, <1>4 DEF UpdateBuildStatus
  <2>3. templates'[t].status = status
    BY <2>1, <2>2 DEF TemplateRow
  <2> QED
    BY <1>2, <2>3 DEF Marked
<1> QED
  BY <1>3, <1>4

LEMMA TemplateStepTended ==
  ASSUME Sheltered, TypeOK, ClientsStay, BuildingHasBuilder,
         NEW r \in Requests, TemplateStep(r)
  PROVE  BuildingHasBuilder'
<1>0. \A q \in Requests \ {r} : req'[q] = req[q]
  BY TemplateStepMoves
<1>a. PICK t \in TemplateIds : t = req[r].tid
  BY TemplateStepMoves DEF TypeOK, HasTarget
<1>b. req[r].img \in Images /\ NoImage \in Images
  BY DEF TypeOK, Request, Images
<1>1. CASE MarkBuilding(r)
  <2>1. PICK x \in Queried(req[r].live) :
          /\ templates' = IF x.applied THEN UpdateBuildStatus(t, "building", req[r].img)
                          ELSE templates
          /\ IF x.failed THEN Answer(r, 500) ELSE GoTo(r, "ensureTemplateApp", x)
    BY <1>1, <1>a DEF MarkBuilding
  <2>2. x.applied /\ ~x.failed
    BY ShelteredQuery
  <2>3. GoTo(r, "ensureTemplateApp", x)
    BY <2>1, <2>2
  <2>4. req'[r].pc \in BuildPcs /\ req'[r].tid = t
    BY <1>a, <2>3, GoToEffect DEF BuildPcs
  <2>5. Building(t)'
    BY <2>4 DEF Building
  <2>6. \A u \in TemplateIds \ {t} : Marked(u)' => Marked(u)
    BY <1>b, <2>1, <2>2, UpdateMarks DEF TemplateStatus
  <2> QED
    BY <1>0, <1>a, <2>4, <2>5, <2>6, TendedBuilds
<1>2. CASE EnsureTemplateApp(r) \/ BuildImage(r)
  <2>1. templates' = templates
    BY <1>2 DEF EnsureTemplateApp, BuildImage, db
  <2>2. req'[r].pc \in BuildPcs /\ req'[r].tid = t
    <3>1. CASE EnsureTemplateApp(r)
      <4>1. \E pc \in {"markFailed", "buildImage"} : \E x : GoTo(r, pc, x)
        BY <3>1 DEF EnsureTemplateApp
      <4> QED
        BY <1>a, <4>1, GoToEffect DEF BuildPcs
    <3>2. CASE BuildImage(r)
      <4>1. PICK x \in Replies(req[r].live, FlyFaults["BuildImage"], req[r].tid \in apps) :
              req' = [req EXCEPT ![r].pc = IF x.failed THEN "markFailed" ELSE "markReady",
                                 ![r].img = IF x.failed THEN NoImage ELSE req[r].tid,
                                 ![r].live = x.live]
        BY <3>2 DEF BuildImage
      <4> QED
        BY <1>a, <4>1 DEF TypeOK, Request, BuildPcs
    <3> QED
      BY <1>2, <3>1, <3>2
  <2> QED
    BY <1>0, <1>a, <2>1, <2>2, TendedBuilds DEF Marked
<1>3. CASE MarkReady(r) \/ MarkFailed(r)
  <2>1. PICK x \in Queried(req[r].live), status \in {"ready", "failed"}, image \in Images :
          templates' = IF x.applied THEN UpdateBuildStatus(t, status, image) ELSE templates
    BY <1>3, <1>a, <1>b DEF MarkReady, MarkFailed
  <2>2. x.applied
    BY ShelteredQuery
  <2>3. ~Marked(t)' /\ \A u \in TemplateIds : Marked(u)' => Marked(u)
    BY <2>1, <2>2, UpdateMarks DEF TemplateStatus
  <2> QED
    BY <1>0, <1>a, <2>3, TendedBuilds
<1>4. CASE ReloadTemplate(r)
  <2>1. templates' = templates /\ req[r].pc \notin BuildPcs
    BY <1>4 DEF ReloadTemplate, db, BuildPcs
  <2> QED
    BY <1>0, <2>1, TendedBuilds DEF Marked
<1> QED
  BY <1>1, <1>2, <1>3, <1>4 DEF TemplateStep

\* A step of a handler that builds nothing.
LEMMA OtherRouteTended ==
  ASSUME TypeOK, BuildingHasBuilder, NEW r \in Requests,
         SessionStep(r) \/ SessionArrival(r) \/ TemplateArrival(r)
  PROVE  BuildingHasBuilder'
<1>1. \A q \in Requests \ {r} : req'[q] = req[q]
  BY SessionStepMoves, GoesEffect, AnswerEffect, SessionArrivalMoves, TemplateArrivalMoves
<1>2. req[r].pc \notin BuildPcs
  BY SessionStepMoves, ArrivesFree DEF SessionPcs, BuildPcs
<1>3. ASSUME NEW u \in TemplateIds, Marked(u)' PROVE Marked(u)
  <2>1. \/ templates' = templates
        \/ \E t \in TemplateIds : templates' = [templates EXCEPT ![t] = NoRow]
        \/ \E t \in TemplateIds, org \in Orgs : templates' = [templates EXCEPT ![t] = DraftRow(org)]
    <3>1. CASE SessionStep(r)
      BY <3>1 DEF SessionStep, InsertSession, EnsureSessionApp, CreateVolume, CreateMachine,
         AskForMachine, UndoVolume, FailSession, Provisioned, ReloadSession, Power,
         RecordPower, DestroyMachine, DestroyVolume, DeleteRow, db
    <3>2. CASE SessionArrival(r)
      BY <3>2 DEF SessionArrival, CreateSession, ReadSession, ListSessions, ResumeSession,
         HibernateSession, DeleteSession, LookUpSession, db
    <3>3. CASE TemplateArrival(r)
      BY <3>3 DEF TemplateArrival, CreateTemplate, ReadTemplate, ListTemplates,
         DeleteTemplate, BuildTemplate, Minted, db
    <3> QED
      BY <3>1, <3>2, <3>3
  <2>2. \/ templates'[u] = templates[u]
        \/ templates'[u] = NoRow
        \/ \E org \in Orgs : templates'[u] = DraftRow(org)
    BY <2>1 DEF TypeOK
  <2>3. \A org \in Orgs : DraftRow(org).status = "draft"
    BY DEF DraftRow
  <2> QED
    BY <1>3, <2>2, <2>3 DEF Marked
<1> QED
  BY <1>1, <1>2, <1>3, TendedBuilds

LEMMA NextBuildsTended ==
  ASSUME Sheltered
  PROVE  TypeOK /\ ClientsStay /\ BuildingHasBuilder /\ [Next]_vars => BuildingHasBuilder'
<1> SUFFICES ASSUME TypeOK, ClientsStay, BuildingHasBuilder, [Next]_vars
             PROVE  BuildingHasBuilder'
  OBVIOUS
<1>1. ~Crash
  BY DEF Crash, Sheltered
<1>2. CASE UNCHANGED <<templates, req>>
  BY <1>2 DEF BuildingHasBuilder, Building
<1> QED
  BY <1>1, <1>2, TemplateStepTended, OtherRouteTended
     DEF Next, Advance, Autostop, Autostart, vars, db

\* In the same circumstances no template is left in building by a handler that
\* returned: both outcomes of a build are recorded.
THEOREM BuildsAreTended ==
  ASSUME Sheltered
  PROVE  Spec => []BuildingHasBuilder
<1>1. Init => BuildingHasBuilder
  BY DEF Init, BuildingHasBuilder
<1>2. TypeOK /\ ClientsStay /\ BuildingHasBuilder /\ [Next]_vars => BuildingHasBuilder'
  BY NextBuildsTended
<1>3. Spec => []ClientsStay
  BY ClientsDoStay
<1> QED
  BY <1>1, <1>2, <1>3, TypeCorrect, PTL DEF Spec

-----------------------------------------------------------------------------
(* Rows and what they name on Fly.                                         *)

\* Of the resources ids names, the machine and the volume of s exist.
Real(s, ids) ==
  /\ "machine" \in ids => machines[s] # "none"
  /\ "volume" \in ids => s \in volumes

MakePcs == {"insertSession", "ensureSessionApp", "createVolume", "createMachine", "provisioned"}

\* What a handler that makes a session knows by its id exists.
HandFits == \A r \in Requests : req[r].pc \in MakePcs => Real(req[r].sid, req[r].ids)

LEMMA MakersCreate == MakePcs \subseteq CreatePcs /\ MakePcs \cap DeletePcs = {}
BY DEF MakePcs, CreatePcs, DeletePcs

\* The machine and the volume of s are not taken away in this step.
KeptOnFly(s) ==
  /\ machines[s] # "none" => machines'[s] # "none"
  /\ s \in volumes => s \in volumes'

\* A step of handler r.
LEMMA FlyCarriedOver ==
  ASSUME RowMatchesFly, HandFits, NEW r \in Requests,
         \A q \in Requests \ {r} : req'[q] = req[q],
         \A s \in SessionIds :
           \/ Deleting(s)'
           \/ Real(s, Named(s))'
           \/ Named(s)' \subseteq Named(s) /\ KeptOnFly(s),
         req[r].pc \in DeletePcs =>
           \/ req'[r].pc \in DeletePcs /\ req'[r].sid = req[r].sid
           \/ \E s \in SessionIds : s = req[r].sid /\ Named(s)' = {},
         \A q \in Requests \ {r} : req[q].pc \in MakePcs => KeptOnFly(req[q].sid),
         req'[r].pc \in MakePcs => Real(req[r].sid, req[r].ids)'
  PROVE  RowMatchesFly' /\ HandFits'
<1>1. ASSUME NEW s \in SessionIds, ~Deleting(s)' PROVE Real(s, Named(s))'
  <2>1. CASE Named(s)' = {}
    BY <2>1 DEF Real
  <2>2. CASE Named(s)' # {} /\ Named(s)' \subseteq Named(s) /\ KeptOnFly(s)
    <3>1. ~Deleting(s)
      <4>1. SUFFICES ASSUME NEW q \in Requests, req[q].pc \in DeletePcs, req[q].sid = s
                     PROVE  FALSE
        BY DEF Deleting
      <4>2. req'[q].pc \in DeletePcs /\ req'[q].sid = s
        BY <2>2, <4>1
      <4> QED
        BY <1>1, <4>2 DEF Deleting
    <3>2. Real(s, Named(s))
      BY <3>1 DEF RowMatchesFly, Real
    <3> QED
      BY <2>2, <3>2 DEF KeptOnFly, Real
  <2> QED
    BY <1>1, <2>1, <2>2
<1>2. RowMatchesFly'
  BY <1>1 DEF RowMatchesFly, Real
<1>3. HandFits'
  BY DEF HandFits, KeptOnFly, Real
<1> QED
  BY <1>2, <1>3

\* The same for a step that takes nothing away and adds no ids to a row.
LEMMA FlyGrows ==
  ASSUME TypeOK, RowMatchesFly, HandFits, NEW r \in Requests,
         \A q \in Requests \ {r} : req'[q] = req[q],
         \A s \in SessionIds : KeptOnFly(s) /\ Named(s)' \subseteq Named(s),
         req[r].pc \notin DeletePcs,
         req'[r].pc \in MakePcs =>
           \/ Real(req[r].sid, req[r].ids)'
           \/ /\ req[r].pc \in MakePcs
              /\ req'[r].sid = req[r].sid /\ req'[r].ids = req[r].ids
  PROVE  RowMatchesFly' /\ HandFits'
<1>1. \A q \in Requests : req[q].pc \in MakePcs => req[q].sid \in SessionIds
  BY DEF TypeOK, HasTarget, SessionPcs, MakePcs
<1>2. req'[r].pc \in MakePcs => Real(req[r].sid, req[r].ids)'
  BY <1>1 DEF HandFits, KeptOnFly, Real
<1> QED
  BY <1>1, <1>2, FlyCarriedOver

\* The creation of another handler works on another session.
LEMMA CreationsApart ==
  ASSUME SessionsFit, NEW r \in Requests, req[r].pc \in CreatePcs \cup UsePcs,
         NEW q \in Requests \ {r}, req[q].pc \in MakePcs
  PROVE  req[q].sid # req[r].sid
BY MakersCreate DEF SessionsFit, CreatorsFit

\* What a creation tells was made.
LEMMA ToldIsMade ==
  ASSUME NEW live, NEW faults, NEW possible, NEW x \in Replies(live, faults, possible),
         NEW some, NEW told \in Told(x, some)
  PROVE  told => x.applied
<1>1. told => ~x.failed
  BY DEF Told
<1> QED
  BY <1>1, CarriedOut

\* The row of a session that is being created names nothing.
LEMMA CreatorsHaveNoIds ==
  ASSUME SessionsFit, NEW r \in Requests, req[r].pc \in CreatePcs,
         NEW s \in SessionIds, s = req[r].sid
  PROVE  Named(s) = {}
BY DEF SessionsFit, CreatorsFit, IdsMatchStatus, Attached, Named

LEMMA CreationOnFly ==
  ASSUME TypeOK, SessionsFit, RowMatchesFly, HandFits, NEW r \in Requests,
         CreateVolume(r) \/ CreateMachine(r)
  PROVE  RowMatchesFly' /\ HandFits'
<1> DEFINE s == req[r].sid
<1>1. req[r].pc \notin DeletePcs /\ s \in SessionIds
  BY DEF CreateVolume, CreateMachine, AskForMachine, DeletePcs, TypeOK, HasTarget, SessionPcs
<1>2. sessions' = sessions
  BY DEF CreateVolume, CreateMachine, AskForMachine, db
<1>3. \A u \in SessionIds : Named(u)' = Named(u)
  BY <1>2 DEF Named, Stored
<1>0. Real(s, req[r].ids) /\ req[r].live \in BOOLEAN
  BY DEF CreateVolume, CreateMachine, AskForMachine, HandFits, MakePcs, TypeOK, Request
<1>4. CASE CreateVolume(r)
  <2>0. PICK x \in Replies(req[r].live, FlyFaults["CreateVolume"], s \in apps) :
          \E told \in Told(x, FlyFaults["CreateVolume"]) :
            /\ volumes' = IF x.applied THEN volumes \cup {s} ELSE volumes
            /\ GoOn(r, IF x.failed THEN "failSession" ELSE "createMachine", x, "volume", told)
    BY <1>4 DEF CreateVolume
  <2>1. PICK told \in Told(x, FlyFaults["CreateVolume"]) :
          /\ volumes' = IF x.applied THEN volumes \cup {s} ELSE volumes
          /\ GoOn(r, IF x.failed THEN "failSession" ELSE "createMachine", x, "volume", told)
    BY <2>0
  <2>2. machines' = machines
    BY <1>4 DEF CreateVolume
  <2>3. /\ told => req'[r].ids = req[r].ids \cup {"volume"}
        /\ ~told => req'[r].ids = req[r].ids
        /\ req'[r].sid = s
        /\ \A q \in Requests \ {r} : req'[q] = req[q]
    <3> DEFINE pc == IF x.failed THEN "failSession" ELSE "createMachine"
    <3>1. GoOn(r, pc, x, "volume", told)
      BY <2>1
    <3> HIDE DEF pc
    <3> QED
      BY <3>1, GoOnEffect
  <2>4. told => x.applied
    BY <1>0, ToldIsMade
  <2>5. Real(req[r].sid, req[r].ids)'
    BY <1>0, <2>1, <2>2, <2>3, <2>4 DEF Real
  <2> QED
    BY <1>1, <1>3, <2>1, <2>2, <2>3, <2>5, FlyGrows DEF KeptOnFly
<1>5. CASE CreateMachine(r)
  <2>0. PICK x \in CreateMachineReplies(r) :
          \E told \in Told(x, FlyFaults["CreateMachine"]) :
            /\ machines' = IF x.applied THEN [machines EXCEPT ![s] = "started"] ELSE machines
            /\ GoOn(r, IF x.failed THEN "undoVolume" ELSE "provisioned", x, "machine", told)
    BY <1>5 DEF CreateMachine, AskForMachine
  <2>1. PICK told \in Told(x, FlyFaults["CreateMachine"]) :
          /\ machines' = IF x.applied THEN [machines EXCEPT ![s] = "started"] ELSE machines
          /\ GoOn(r, IF x.failed THEN "undoVolume" ELSE "provisioned", x, "machine", told)
    BY <2>0
  <2>2. volumes' = volumes
    BY <1>5 DEF CreateMachine, AskForMachine
  <2>3. /\ told => req'[r].ids = req[r].ids \cup {"machine"}
        /\ ~told => req'[r].ids = req[r].ids
        /\ req'[r].sid = s
        /\ \A q \in Requests \ {r} : req'[q] = req[q]
    <3> DEFINE pc == IF x.failed THEN "undoVolume" ELSE "provisioned"
    <3>1. GoOn(r, pc, x, "machine", told)
      BY <2>1
    <3> HIDE DEF pc
    <3> QED
      BY <3>1, GoOnEffect
  <2>4. told => x.applied
    BY <1>0, <2>1, ToldIsMade DEF CreateMachineReplies
  <2>5. \A u \in SessionIds : KeptOnFly(u)
    BY <2>1, <2>2 DEF KeptOnFly, TypeOK
  <2>6. /\ x.applied => machines'[s] # "none"
        /\ machines[s] # "none" => machines'[s] # "none"
    BY <1>1, <2>1 DEF TypeOK
  <2>7. Real(req[r].sid, req[r].ids)'
    BY <1>0, <2>2, <2>3, <2>4, <2>6 DEF Real
  <2> QED
    BY <1>1, <1>3, <2>3, <2>5, <2>7, FlyGrows
<1> QED
  BY <1>4, <1>5

\* The volume a failed creation takes down belongs to a row without ids.
LEMMA UndoVolumeOnFly ==
  ASSUME TypeOK, SessionsFit, RowMatchesFly, HandFits, NEW r \in Requests, UndoVolume(r)
  PROVE  RowMatchesFly' /\ HandFits'
<1> DEFINE s == req[r].sid
<1>1. /\ req[r].pc = "undoVolume"
      /\ volumes' = volumes \/ volumes' = volumes \ {s}
      /\ machines' = machines /\ sessions' = sessions
      /\ \E x : GoTo(r, "failSession", x)
  BY DEF UndoVolume, db
<1>2. /\ req'[r].pc = "failSession" /\ req'[r].sid = s
      /\ \A q \in Requests \ {r} : req'[q] = req[q]
  BY <1>1, GoToEffect
<1>3. req[r].pc \in CreatePcs /\ req[r].pc \notin DeletePcs
  BY <1>1 DEF CreatePcs, DeletePcs
<1>4. PICK i \in SessionIds : i = s
  BY <1>3, AtWorkHasSession
<1>5. Named(i) = {}
  BY <1>3, <1>4, CreatorsHaveNoIds
<1>6. \A u \in SessionIds : Real(u, Named(u))' \/ (Named(u)' \subseteq Named(u) /\ KeptOnFly(u))
  BY <1>1, <1>4, <1>5 DEF Named, Stored, KeptOnFly, Real
<1>7. \A q \in Requests \ {r} : req[q].pc \in MakePcs => KeptOnFly(req[q].sid)
  BY <1>1, <1>3, CreationsApart DEF KeptOnFly
<1> QED
  BY <1>2, <1>3, <1>6, <1>7, FlyCarriedOver DEF MakePcs

LEMMA MarkedNames ==
  ASSUME TypeOK, NEW s \in SessionIds, NEW ids \in SUBSET FlyIds,
         sessions' = MarkProvisioned(s, ids)
  PROVE  /\ Stored(s)' <=> Stored(s)
         /\ Stored(s) => Named(s)' = ids \cup {"app"}
         /\ ~Stored(s) => Named(s)' = {}
<1>1. sessions \in [SessionIds -> SessionRow \cup {NoRow}]
  BY DEF TypeOK
<1>2. CASE ~Stored(s)
  <2>1. sessions'[s] = NoRow
    BY <1>1, <1>2 DEF MarkProvisioned, Stored
  <2> QED
    BY <1>2, <2>1 DEF Stored, Named
<1>3. CASE Stored(s)
  <2>1. sessions[s] \in SessionRow
    BY <1>1, <1>3 DEF Stored
  <2>2. sessions'[s] = [sessions[s] EXCEPT !.status = "running", !.ids = ids \cup {"app"}]
    BY <1>1, <1>3 DEF MarkProvisioned, Stored
  <2>3. sessions'[s] \in SessionRow /\ sessions'[s].ids = ids \cup {"app"}
    BY <2>1, <2>2 DEF SessionRow, SessionStatus, FlyIds
  <2>4. Stored(s)'
    BY <2>3, IdsAreDistinct DEF Stored
  <2> QED
    BY <1>3, <2>3, <2>4 DEF Named
<1> QED
  BY <1>2, <1>3

LEMMA ProvisionedOnFly ==
  ASSUME TypeOK, SessionsFit, RowMatchesFly, HandFits, NEW r \in Requests, Provisioned(r)
  PROVE  RowMatchesFly' /\ HandFits'
<1> DEFINE s == req[r].sid
<1>1. /\ req[r].pc = "provisioned"
      /\ machines' = machines /\ volumes' = volumes
      /\ sessions' = sessions \/ sessions' = MarkProvisioned(s, req[r].ids)
      /\ (\E x : GoTo(r, "reloadSession", x)) \/ Answer(r, 500)
  BY DEF Provisioned, fly
<1>2. /\ req'[r].pc \in {"reloadSession", "done"}
      /\ \A q \in Requests \ {r} : req'[q] = req[q]
  BY <1>1, GoToEffect, AnswerEffect
<1>3. PICK i \in SessionIds : i = s
  BY <1>1 DEF TypeOK, HasTarget, SessionPcs
<1>4. Real(i, req[r].ids)
  BY <1>1, <1>3 DEF HandFits, MakePcs
<1>5. \A u \in SessionIds \ {i} : sessions'[u] = sessions[u]
  BY <1>1, <1>3 DEF TypeOK, MarkProvisioned
<1>6. \A u \in SessionIds : Real(u, Named(u))' \/ (Named(u)' \subseteq Named(u) /\ KeptOnFly(u))
  <2>1. CASE sessions' = sessions
    BY <1>1, <2>1 DEF Named, Stored, KeptOnFly
  <2>2. CASE sessions' = MarkProvisioned(i, req[r].ids)
    <3>1. req[r].ids \in SUBSET FlyIds
      BY DEF TypeOK, Request
    <3>2. Named(i)' = req[r].ids \cup {"app"} \/ Named(i)' = {}
      BY <2>2, <3>1, MarkedNames
    <3>3. Real(i, Named(i))'
      BY <1>1, <1>4, <3>2 DEF Real
    <3>4. \A u \in SessionIds \ {i} : Named(u)' = Named(u) /\ KeptOnFly(u)
      BY <1>1, <1>5 DEF Named, Stored, KeptOnFly
    <3> QED
      BY <3>3, <3>4
  <2> QED
    BY <1>1, <1>3, <2>1, <2>2
<1>7. \A q \in Requests \ {r} : req[q].pc \in MakePcs => KeptOnFly(req[q].sid)
  BY <1>1 DEF KeptOnFly
<1>8. req[r].pc \notin DeletePcs
  BY <1>1 DEF DeletePcs
<1> QED
  BY <1>2, <1>6, <1>7, <1>8, FlyCarriedOver DEF MakePcs

\* A deletion goes on until the row is gone.
LEMMA DestructionOnFly ==
  ASSUME TypeOK, SessionsFit, RowMatchesFly, HandFits, NEW r \in Requests,
         DestroyMachine(r) \/ DestroyVolume(r)
  PROVE  RowMatchesFly' /\ HandFits'
<1> DEFINE s == req[r].sid
<1>1. /\ req[r].pc \in {"destroyMachine", "destroyVolume"}
      /\ volumes' = volumes \/ volumes' = volumes \ {s}
      /\ machines' = machines \/ machines' = [machines EXCEPT ![s] = "none"]
      /\ sessions' = sessions
      /\ \E pc \in {"destroyVolume", "deleteRow"} : \E x : GoTo(r, pc, x)
  BY DEF DestroyMachine, DestroyVolume, Destruction, db
<1>2. /\ req'[r].pc \in {"destroyVolume", "deleteRow"} /\ req'[r].sid = s
      /\ \A q \in Requests \ {r} : req'[q] = req[q]
  BY <1>1, GoToEffect
<1>3. req[r].pc \in UsePcs /\ req'[r].pc \in DeletePcs
  BY <1>1, <1>2 DEF UsePcs, DeletePcs
<1>4. PICK i \in SessionIds : i = s
  BY <1>3, AtWorkHasSession
<1>5. Deleting(i)'
  BY <1>2, <1>3, <1>4 DEF Deleting
<1>6. \A u \in SessionIds \ {i} : KeptOnFly(u)
  BY <1>1, <1>4 DEF KeptOnFly, TypeOK
<1>7. \A u \in SessionIds : Deleting(u)' \/ (Named(u)' \subseteq Named(u) /\ KeptOnFly(u))
  BY <1>1, <1>5, <1>6 DEF Named, Stored
<1>8. ASSUME NEW q \in Requests \ {r}, req[q].pc \in MakePcs
      PROVE  KeptOnFly(req[q].sid)
  <2>1. req[q].sid \in SessionIds \ {i}
    BY <1>3, <1>4, <1>8, CreationsApart DEF TypeOK, HasTarget, SessionPcs, MakePcs
  <2> QED
    BY <1>6, <2>1
<1> QED
  BY <1>2, <1>3, <1>7, <1>8, FlyCarriedOver DEF MakePcs, DeletePcs

LEMMA DeleteRowOnFly ==
  ASSUME Sheltered, TypeOK, Isolated, ClientsStay, RowMatchesFly, HandFits,
         NEW r \in Requests, DeleteRow(r)
  PROVE  RowMatchesFly' /\ HandFits'
<1> DEFINE s == req[r].sid
           found == sessions[s] # NoRow /\ sessions[s].org = req[r].org
<1>1. PICK x \in Queried(req[r].live) :
        /\ sessions' = IF x.applied /\ found
                       THEN [sessions EXCEPT ![s] = NoRow] ELSE sessions
        /\ \E code : Answer(r, code)
  BY DEF DeleteRow
<1>2. req[r].pc = "deleteRow" /\ machines' = machines /\ volumes' = volumes
  BY DEF DeleteRow, fly
<1>3. x.applied
  BY ShelteredQuery
<1>4. PICK i \in SessionIds : i = s
  BY <1>2 DEF TypeOK, HasTarget, SessionPcs
<1>5. sessions[i] # NoRow => found
  <2>1. Busy(r) /\ req[r].sid # NoId
    BY <1>2, <1>4, IdsAreDistinct DEF Busy, Free
  <2>2. mintedBy[i] = req[r].org
    BY <1>4, <2>1 DEF Isolated, HandlersStayInTenant
  <2>3. sessions[i] # NoRow => sessions[i].org = mintedBy[i]
    BY DEF Isolated, RowsStayInTenant, Stored
  <2> QED
    BY <1>4, <2>2, <2>3
<1>6. sessions'[i] = NoRow /\ \A u \in SessionIds \ {i} : sessions'[u] = sessions[u]
  BY <1>1, <1>3, <1>4, <1>5 DEF TypeOK
<1>7. Named(i)' = {} /\ \A u \in SessionIds : Named(u)' \subseteq Named(u) /\ KeptOnFly(u)
  BY <1>2, <1>6 DEF Named, Stored, KeptOnFly
<1>8. req'[r].pc = "done" /\ \A q \in Requests \ {r} : req'[q] = req[q]
  BY <1>1, AnswerEffect
<1>9. \A q \in Requests \ {r} : req[q].pc \in MakePcs => KeptOnFly(req[q].sid)
  BY <1>2 DEF KeptOnFly
<1> QED
  BY <1>4, <1>7, <1>8, <1>9, FlyCarriedOver DEF MakePcs

\* The steps that take nothing away and add no ids.
LEMMA OtherSessionStepOnFly ==
  ASSUME TypeOK, SessionsFit, RowMatchesFly, HandFits, NEW r \in Requests,
         \/ InsertSession(r) \/ EnsureSessionApp(r) \/ FailSession(r) \/ ReloadSession(r)
         \/ Power(r) \/ RecordPower(r)
  PROVE  RowMatchesFly' /\ HandFits'
<1> DEFINE s == req[r].sid
<1>1. req[r].pc \notin DeletePcs
  BY DEF InsertSession, EnsureSessionApp, FailSession, ReloadSession, Power, RecordPower,
     DeletePcs
<1>2. /\ \A q \in Requests \ {r} : req'[q] = req[q]
      /\ req'[r].pc \in MakePcs =>
           /\ req[r].pc \in MakePcs
           /\ req'[r].sid = s /\ req'[r].ids = req[r].ids
  <2>1. \/ \E pc : \E x : GoTo(r, pc, x) /\ (pc \in MakePcs => req[r].pc \in MakePcs)
        \/ \E code : Answer(r, code)
    <3>1. CASE InsertSession(r)
      BY ZenonT(60), <3>1 DEF InsertSession, MakePcs
    <3>2. CASE EnsureSessionApp(r)
      BY <3>2 DEF EnsureSessionApp, MakePcs
    <3>3. CASE FailSession(r) \/ ReloadSession(r)
      BY ZenonT(60), <3>3 DEF FailSession, ReloadSession
    <3>4. CASE Power(r)
      BY <3>4 DEF Power, MakePcs
    <3>5. CASE RecordPower(r)
      BY <3>5 DEF RecordPower, MakePcs
    <3> QED
      BY <3>1, <3>2, <3>3, <3>4, <3>5
  <2>2. CASE \E code : Answer(r, code)
    BY <2>2, AnswerEffect DEF MakePcs
  <2>3. CASE \E pc : \E x : GoTo(r, pc, x) /\ (pc \in MakePcs => req[r].pc \in MakePcs)
    BY <2>3, GoToEffect
  <2> QED
    BY <2>1, <2>2, <2>3
<1>3. s \in SessionIds
  BY SessionStepMoves DEF SessionStep, TypeOK, HasTarget
<1>4. ASSUME NEW u \in SessionIds PROVE Named(u)' \subseteq Named(u)
  <2>1. \/ sessions' = sessions
        \/ ~Stored(s) /\ sessions' = [sessions EXCEPT ![s] = PendingRow(req[r].org, req[r].tid)]
        \/ \E status \in SessionStatus : sessions' = SetStatus(s, status)
    <3>1. CASE InsertSession(r)
      <4>1. ~Stored(s)
        BY <3>1 DEF InsertSession, SessionsFit, CreatorsFit, CreatePcs
      <4> QED
        BY <3>1, <4>1 DEF InsertSession
    <3>2. CASE FailSession(r)
      BY <3>2 DEF FailSession, SessionStatus
    <3>3. CASE RecordPower(r)
      <4>1. \/ sessions' = sessions
            \/ sessions' = SetStatus(s, "running")
            \/ sessions' = SetStatus(s, "suspended")
        BY <3>3 DEF RecordPower
      <4> QED
        BY <4>1 DEF SessionStatus
    <3>4. CASE EnsureSessionApp(r) \/ ReloadSession(r) \/ Power(r)
      BY <3>4 DEF EnsureSessionApp, ReloadSession, Power, db
    <3> QED
      BY <3>1, <3>2, <3>3, <3>4
  <2>2. sessions \in [SessionIds -> SessionRow \cup {NoRow}]
    BY DEF TypeOK
  <2>3. CASE sessions' = [sessions EXCEPT ![s] = PendingRow(req[r].org, req[r].tid)]
    BY <1>3, <1>4, <2>2, <2>3 DEF Named, Stored, PendingRow
  <2>4. CASE \E status \in SessionStatus : sessions' = SetStatus(s, status)
    <3>1. PICK status \in SessionStatus : sessions' = SetStatus(s, status)
      BY <2>4
    <3>2. CASE u = s /\ Stored(s)
      <4>1. sessions[s] \in SessionRow
        BY <1>3, <2>2, <3>2 DEF Stored
      <4>2. sessions'[s] = [sessions[s] EXCEPT !.status = status]
        BY <1>3, <2>2, <3>1, <3>2 DEF SetStatus, Stored
      <4>3. sessions'[s].ids = sessions[s].ids
        BY <4>1, <4>2 DEF SessionRow
      <4> QED
        BY <3>2, <4>3 DEF Named, Stored
    <3>3. CASE u # s \/ ~Stored(s)
      <4>1. sessions'[u] = sessions[u]
        BY <1>3, <2>2, <3>1, <3>3 DEF SetStatus, Stored
      <4> QED
        BY <4>1 DEF Named, Stored
    <3> QED
      BY <3>2, <3>3
  <2> QED
    BY <2>1, <2>3, <2>4 DEF Named, Stored
<1>5. ASSUME NEW u \in SessionIds PROVE KeptOnFly(u)
  <2>1. volumes' = volumes
    BY DEF InsertSession, EnsureSessionApp, FailSession, ReloadSession, Power, RecordPower, fly
  <2>2. machines' = machines \/ \E to \in {"started", "stopped"} : machines' = [machines EXCEPT ![s] = to]
    <3>1. CASE Power(r)
      BY <3>1 DEF Power
    <3>2. CASE ~Power(r)
      BY <3>2 DEF InsertSession, EnsureSessionApp, FailSession, ReloadSession, RecordPower, fly
    <3> QED
      BY <3>1, <3>2
  <2> QED
    BY <2>1, <2>2 DEF KeptOnFly, TypeOK
<1> QED
  BY <1>1, <1>2, <1>4, <1>5, FlyGrows

\* A creation starts without ids.
LEMMA NewKnowsNothing ==
  ASSUME TypeOK, NEW r \in Requests, SessionArrival(r), req'[r].pc = "insertSession"
  PROVE  req'[r].ids = {}
<1>1. ~(\E op \in SessionOps : LookUpSession(r, op)) /\ ~ReadSession(r) /\ ~ListSessions(r)
  BY LookUpEffect, FirstCallKnows, ReadEffect
<1>2. CreateSession(r)
  BY <1>1 DEF SessionArrival, ResumeSession, HibernateSession, DeleteSession, SessionOps
<1>3. PICK org \in Orgs, t \in TemplateIds, x \in Queried(TRUE) :
        LET tpl == GetTemplate(org, t, x)
            new == Accept("createSession", org, NoId, t, x)
            reject(e) == /\ req' = [req EXCEPT ![r] =
                               [new EXCEPT !.pc = "done", !.live = TRUE, !.ans = MapError(e)]]
                         /\ UNCHANGED mintedBy
        IN  \/ tpl = NoRow /\ reject(TemplateError(LookupError))
            \/ tpl # NoRow /\ ImageToBoot(tpl) = NoImage /\ reject("ErrTemplateNotReady")
            \/ /\ tpl # NoRow
               /\ ImageToBoot(tpl) # NoImage
               /\ \E s \in SessionIds \ Minted(SessionIds) :
                    /\ mintedBy' = [mintedBy EXCEPT ![s] = org]
                    /\ req' = [req EXCEPT ![r] = [new EXCEPT !.pc = "insertSession",
                                 !.sid = s, !.img = ImageToBoot(tpl)]]
  BY <1>2 DEF CreateSession, Minted
<1> DEFINE new == Accept("createSession", org, NoId, t, x)
<1>4. new \in Request /\ new.ids = {}
  <2>1. x.live \in BOOLEAN
    BY FirstReplyType
  <2>2. new \in Request
    BY <2>1, AcceptType DEF SessionOps
  <2>3. new.ids = {}
    BY DEF Accept, Idle
  <2> QED
    BY <2>2, <2>3
<1>5. CASE \E e : req' = [req EXCEPT ![r] = [new
             EXCEPT !.pc = "done", !.live = TRUE, !.ans = MapError(e)]]
  <2>1. PICK e : req' = [req EXCEPT ![r] = [new
             EXCEPT !.pc = "done", !.live = TRUE, !.ans = MapError(e)]]
    BY <1>5
  <2> DEFINE code == MapError(e)
             q == [new EXCEPT !.pc = "done", !.live = TRUE, !.ans = code]
  <2>2. req' = [req EXCEPT ![r] = q]
    BY <2>1
  <2> HIDE DEF new, code
  <2>3. q.pc = "done"
    BY <1>4 DEF Request
  <2> HIDE DEF q
  <2> QED
    BY <2>2, <2>3 DEF TypeOK
<1>6. CASE \E s \in SessionIds : \E img : req' = [req EXCEPT ![r] = [new
             EXCEPT !.pc = "insertSession", !.sid = s, !.img = img]]
  <2>1. PICK s \in SessionIds : \E img : req' = [req EXCEPT ![r] = [new
             EXCEPT !.pc = "insertSession", !.sid = s, !.img = img]]
    BY <1>6
  <2>2. PICK img : req' = [req EXCEPT ![r] = [new
             EXCEPT !.pc = "insertSession", !.sid = s, !.img = img]]
    BY <2>1
  <2> HIDE DEF new
  <2> DEFINE q == [new EXCEPT !.pc = "insertSession", !.sid = s, !.img = img]
  <2>3. q.ids = {}
    BY <1>4 DEF Request
  <2>4. req' = [req EXCEPT ![r] = q]
    BY <2>2
  <2> HIDE DEF q
  <2> QED
    BY <2>3, <2>4 DEF TypeOK
<1> QED
  BY <1>3, <1>5, <1>6

\* Arrivals, and the handlers of template routes.
LEMMA OtherStepOnFly ==
  ASSUME TypeOK, RowMatchesFly, HandFits, NEW r \in Requests,
         SessionArrival(r) \/ TemplateArrival(r) \/ TemplateStep(r)
  PROVE  RowMatchesFly' /\ HandFits'
<1>1. /\ \A q \in Requests \ {r} : req'[q] = req[q]
      /\ req'[r].pc \in MakePcs => req'[r].ids = {}
  BY SessionArrivalMoves, NewKnowsNothing, TemplateArrivalMoves, TemplateStepMoves
     DEF TemplatePcs, MakePcs
<1>2. req[r].pc \notin DeletePcs
  BY ArrivesFree, TemplateStepMoves DEF TemplatePcs, DeletePcs
<1>3. machines' = machines /\ volumes' = volumes
  <2>1. CASE SessionArrival(r)
    BY <2>1 DEF SessionArrival, CreateSession, ReadSession, ListSessions, ResumeSession,
       HibernateSession, DeleteSession, LookUpSession, fly
  <2>2. CASE TemplateArrival(r)
    BY <2>2 DEF TemplateArrival, CreateTemplate, ReadTemplate, ListTemplates,
       DeleteTemplate, BuildTemplate, fly
  <2>3. CASE TemplateStep(r)
    BY <2>3 DEF TemplateStep, MarkBuilding, EnsureTemplateApp, BuildImage, MarkReady,
       MarkFailed, ReloadTemplate, fly
  <2> QED
    BY <2>1, <2>2, <2>3
<1>4. sessions' = sessions \/ \E t : sessions' = Cascade(t)
  <2>1. CASE SessionArrival(r)
    BY <2>1 DEF SessionArrival, CreateSession, ReadSession, ListSessions, ResumeSession,
       HibernateSession, DeleteSession, LookUpSession, db
  <2>2. CASE TemplateArrival(r) \/ TemplateStep(r)
    BY <2>2 DEF TemplateArrival, CreateTemplate, ReadTemplate, ListTemplates,
       DeleteTemplate, BuildTemplate, TemplateStep, MarkBuilding, EnsureTemplateApp,
       BuildImage, MarkReady, MarkFailed, ReloadTemplate, db
  <2> QED
    BY <2>1, <2>2
<1>5. \A u \in SessionIds : KeptOnFly(u) /\ Named(u)' \subseteq Named(u)
  BY <1>3, <1>4 DEF KeptOnFly, Named, Stored, Cascade
<1> QED
  BY <1>1, <1>2, <1>5, FlyGrows DEF Real

LEMMA NextOnFly ==
  ASSUME Sheltered
  PROVE  TypeOK /\ Isolated /\ SessionsFit /\ ClientsStay /\ RowMatchesFly /\ HandFits
           /\ [Next]_vars => RowMatchesFly' /\ HandFits'
<1> SUFFICES ASSUME TypeOK, Isolated, SessionsFit, ClientsStay, RowMatchesFly, HandFits,
                    [Next]_vars
             PROVE  RowMatchesFly' /\ HandFits'
  OBVIOUS
<1>1. ASSUME NEW r \in Requests, SessionStep(r) PROVE RowMatchesFly' /\ HandFits'
  BY <1>1, CreationOnFly, UndoVolumeOnFly, ProvisionedOnFly, DestructionOnFly, DeleteRowOnFly,
     OtherSessionStepOnFly DEF SessionStep
<1>2. ASSUME NEW r \in Requests, SessionArrival(r) \/ TemplateArrival(r) \/ TemplateStep(r)
      PROVE  RowMatchesFly' /\ HandFits'
  BY <1>2, OtherStepOnFly
<1>3. ~Crash
  BY DEF Crash, Sheltered
<1>4. CASE (\E s \in SessionIds : Autostop(s) \/ Autostart(s)) \/ UNCHANGED vars
  <2>1. UNCHANGED <<sessions, volumes, req>>
    BY <1>4 DEF Autostop, Autostart, vars, db
  <2>2. \A u \in SessionIds : machines[u] # "none" => machines'[u] # "none"
    <3>1. \/ machines' = machines
          \/ \E s \in SessionIds, to \in {"started", "suspended"} :
               machines' = [machines EXCEPT ![s] = to]
      BY <1>4 DEF Autostop, Autostart, vars
    <3> QED
      BY <3>1 DEF TypeOK
  <2>3. RowMatchesFly'
    BY <2>1, <2>2 DEF RowMatchesFly, Named, Stored, Deleting
  <2>4. HandFits'
    BY <2>1, <2>2 DEF HandFits, Real, MakePcs, TypeOK, HasTarget, SessionPcs
  <2> QED
    BY <2>3, <2>4
<1> QED
  BY <1>1, <1>2, <1>3, <1>4 DEF Next, Advance

\* In the same circumstances a row names only what exists: a creation records the
\* ids it was told, of what it made, and what a deletion takes down takes the row
\* with it.
THEOREM RowsMatchFly ==
  ASSUME Sheltered
  PROVE  Spec => []RowMatchesFly
<1>1. Init => RowMatchesFly /\ HandFits
  BY DEF Init, RowMatchesFly, HandFits, MakePcs, Named, Stored, Idle
<1>2. TypeOK /\ Isolated /\ SessionsFit /\ ClientsStay /\ RowMatchesFly /\ HandFits
        /\ [Next]_vars => RowMatchesFly' /\ HandFits'
  BY NextOnFly
<1>3. Spec => []ClientsStay
  BY ClientsDoStay
<1> QED
  BY <1>1, <1>2, <1>3, SessionsStayFit, PTL DEF Spec

-----------------------------------------------------------------------------
(* What NoOrphans and StatusMatchesMachine both need.                      *)

\* A request that is accepted changes nothing on Fly, and at most the deletion of
\* a template, which is one statement, changes sessions.
LEMMA ArrivalChangesNothing ==
  ASSUME NEW r \in Requests, SessionArrival(r) \/ TemplateArrival(r)
  PROVE  /\ UNCHANGED <<volumes, machines, astray>>
         /\ UNCHANGED sessions \/ DeleteTemplate(r)
<1>1. CASE SessionArrival(r)
  BY <1>1 DEF SessionArrival, CreateSession, ReadSession, ListSessions, ResumeSession,
     HibernateSession, DeleteSession, LookUpSession, db, fly
<1>2. CASE TemplateArrival(r)
  BY <1>2 DEF TemplateArrival, CreateTemplate, ReadTemplate, ListTemplates,
     DeleteTemplate, BuildTemplate, db, fly
<1> QED
  BY <1>1, <1>2

LEMMA TemplateStepChangesNothing ==
  ASSUME NEW r \in Requests, TemplateStep(r)
  PROVE  UNCHANGED <<sessions, volumes, machines, astray>>
BY DEF TemplateStep, MarkBuilding, EnsureTemplateApp, BuildImage, MarkReady,
   MarkFailed, ReloadTemplate, db, fly

\* A call that failed, with a reply that was not lost and a client that stayed,
\* was refused.
LEMMA RefusedMeansNotDone ==
  ASSUME Sheltered, NEW faults, "lost" \notin faults, NEW possible,
         NEW x \in Replies(TRUE, faults, possible), x.failed
  PROVE  ~x.applied
<1>1. x \in {Done, Refused, Lost, HungUp(TRUE), HungUp(FALSE)} /\ x # Lost
  BY DEF Replies
<1>2. x.live
  BY ShelteredReply
<1>3. ~HungUp(TRUE).live /\ ~HungUp(FALSE).live /\ ~Done.failed /\ ~Refused.applied
  BY DEF HungUp, Done, Refused
<1> QED
  BY <1>1, <1>2, <1>3

\* What a deletion ends with.
LEMMA DeleteRowRemoves ==
  ASSUME Sheltered, TypeOK, Isolated, ClientsStay, NEW r \in Requests, DeleteRow(r)
  PROVE  /\ sessions'[req[r].sid] = NoRow
         /\ \A u \in SessionIds \ {req[r].sid} : sessions'[u] = sessions[u]
         /\ req'[r].pc = "done"
         /\ \A q \in Requests \ {r} : req'[q] = req[q]
<1> DEFINE s == req[r].sid
           found == sessions[s] # NoRow /\ sessions[s].org = req[r].org
<1>1. PICK x \in Queried(req[r].live) :
        /\ sessions' = IF x.applied /\ found
                       THEN [sessions EXCEPT ![s] = NoRow] ELSE sessions
        /\ \E code : Answer(r, code)
  BY DEF DeleteRow
<1>2. req[r].pc = "deleteRow"
  BY DEF DeleteRow
<1>3. x.applied
  BY ShelteredQuery
<1>4. PICK i \in SessionIds : i = s
  BY <1>2 DEF TypeOK, HasTarget, SessionPcs
<1>5. sessions[i] # NoRow => found
  <2>1. Busy(r) /\ req[r].sid # NoId
    BY <1>2, <1>4, IdsAreDistinct DEF Busy, Free
  <2>2. mintedBy[i] = req[r].org
    BY <1>4, <2>1 DEF Isolated, HandlersStayInTenant
  <2>3. sessions[i] # NoRow => sessions[i].org = mintedBy[i]
    BY DEF Isolated, RowsStayInTenant, Stored
  <2> QED
    BY <1>4, <2>2, <2>3
<1>6. sessions'[i] = NoRow /\ \A u \in SessionIds \ {i} : sessions'[u] = sessions[u]
  BY <1>1, <1>3, <1>4, <1>5 DEF TypeOK
<1> QED
  BY <1>1, <1>4, <1>6, AnswerEffect

-----------------------------------------------------------------------------
(* NoOrphans.  Anything may overlap but a creation and its own deletion.   *)

OnFly(s) == machines[s] # "none" \/ s \in volumes

\* Of the machine and the volume of s, ids names what there is.
Tracked(s, ids) ==
  /\ machines[s] # "none" => "machine" \in ids
  /\ s \in volumes => "volume" \in ids

\* Whatever Fly does.
TidyWorld == Sheltered /\ "deleteTemplate" \notin Ops

\* What handler r has put up, or has still to take down, of a session that did
\* not go astray.
HandTidy(r) ==
  /\ req[r].pc \in {"insertSession", "ensureSessionApp", "createVolume", "failSession"} =>
       ~OnFly(req[r].sid)
  /\ req[r].pc \in {"createMachine", "undoVolume"} => machines[req[r].sid] = "none"
  /\ req[r].pc \in {"createMachine", "provisioned"} => Tracked(req[r].sid, req[r].ids)
  /\ req[r].pc = "destroyMachine" =>
       (req[r].sid \in volumes => Destruction(req[r].ids) = "destroyVolume")
  /\ req[r].pc \in {"destroyVolume", "deleteRow"} => machines[req[r].sid] = "none"
  /\ req[r].pc = "deleteRow" => req[r].sid \notin volumes

TidyHandler(r) ==
  /\ req[r].pc \in CreatePcs \ {"insertSession"} => Stored(req[r].sid)
  /\ req[r].pc \in DeletePcs => ~Creating(req[r].sid)
  /\ req[r].sid \notin astray => HandTidy(r)

TidyFit == NoOrphans /\ \A r \in Requests : TidyHandler(r)

LEMMA OrphansAreUntracked ==
  /\ NoOrphans <=> \A s \in SessionIds \ astray : ~Creating(s) => Tracked(s, Named(s))
  /\ NoOrphans' <=> \A s \in SessionIds \ astray' : ~Creating(s)' => Tracked(s, Named(s))'
BY DEF NoOrphans, Tracked

\* Nothing that matters to the tidiness of s changes in this step.
Undisturbed(s) ==
  /\ machines'[s] = "none" <=> machines[s] = "none"
  /\ s \in volumes' <=> s \in volumes
  /\ Stored(s) => Stored(s)'
  /\ Named(s) \subseteq Named(s)'

\* Nothing of s appears on Fly in this step.
Dwindling(s) ==
  /\ machines[s] = "none" => machines'[s] = "none"
  /\ s \in volumes' => s \in volumes

\* A creation that handler r starts in this step is one of a new id.
CreatesNew(r) ==
  req'[r].pc \in CreatePcs =>
    \/ req[r].pc \in CreatePcs /\ req'[r].sid = req[r].sid
    \/ mintedBy[req'[r].sid] = NoId

\* A step of handler r, which disturbs at most its own session.
LEMMA TidyCarriedOver ==
  ASSUME TypeOK, Isolated, SessionsFit, TidyFit, NEW r \in Requests,
         \A q \in Requests \ {r} : req'[q] = req[q],
         \A u \in SessionIds :
           \/ Undisturbed(u)
           \/ u = req[r].sid /\ req[r].pc \in CreatePcs
           \/ u = req[r].sid /\ req[r].pc \in DeletePcs /\ Dwindling(u),
         TidyHandler(r)', CreatesNew(r), astray \subseteq astray',
         \A s \in SessionIds : req[r].pc \in CreatePcs \cup DeletePcs /\ s = req[r].sid =>
           \/ req'[r].pc \in CreatePcs /\ req'[r].sid = s
           \/ s \in astray'
           \/ Tracked(s, Named(s))'
  PROVE  TidyFit'
<1>1. ASSUME NEW u \in SessionIds \ astray', ~Creating(u)'
      PROVE  Tracked(u, Named(u))'
  <2>1. CASE req[r].pc \in CreatePcs \cup DeletePcs /\ u = req[r].sid
    BY <1>1, <2>1 DEF Creating
  <2>2. CASE ~(req[r].pc \in CreatePcs \cup DeletePcs /\ u = req[r].sid)
    <3>1. Undisturbed(u)
      BY <2>2
    <3>2. ~Creating(u)
      <4>1. SUFFICES ASSUME NEW q \in Requests, req[q].pc \in CreatePcs, req[q].sid = u
                     PROVE  FALSE
        BY DEF Creating
      <4>2. q # r
        BY <2>2, <4>1
      <4>3. req'[q].pc \in CreatePcs /\ req'[q].sid = u
        BY <4>1, <4>2
      <4> QED
        BY <1>1, <4>3 DEF Creating
    <3>3. Tracked(u, Named(u))
      BY <3>2, OrphansAreUntracked DEF TidyFit
    <3> QED
      BY <3>1, <3>3 DEF Tracked, Undisturbed
  <2> QED
    BY <2>1, <2>2
<1>2. NoOrphans'
  BY <1>1, OrphansAreUntracked
<1>3. ASSUME NEW q \in Requests \ {r} PROVE TidyHandler(q)'
  <2>1. req'[q] = req[q] /\ TidyHandler(q)
    BY DEF TidyFit
  <2>2. CASE req[q].pc \notin CreatePcs \cup DeletePcs
    BY <2>1, <2>2 DEF TidyHandler, HandTidy, CreatePcs, DeletePcs
  <2>3. CASE req[q].pc \in CreatePcs
    <3>1. PICK v \in SessionIds : v = req[q].sid
      BY <2>3, AtWorkHasSession
    <3>2. ~(v = req[r].sid /\ req[r].pc \in CreatePcs \cup DeletePcs)
      <4>1. req[r].pc \in CreatePcs => req[r].sid # v
        BY <2>3, <3>1 DEF SessionsFit, CreatorsFit
      <4>2. req[r].pc \in DeletePcs => req[r].sid # v
        BY <2>3, <3>1 DEF TidyFit, TidyHandler, Creating
      <4> QED
        BY <4>1, <4>2
    <3>3. Undisturbed(v)
      BY <3>2
    <3>4. req[q].pc \notin DeletePcs
      BY <2>3 DEF CreatePcs, DeletePcs
    <3>5. HandTidy(q) => HandTidy(q)'
      BY <2>1, <3>1, <3>3, <3>4 DEF HandTidy, Undisturbed, OnFly, Tracked, DeletePcs
    <3> QED
      BY <2>1, <2>3, <3>1, <3>3, <3>4, <3>5 DEF TidyHandler, Undisturbed
  <2>4. CASE req[q].pc \in DeletePcs
    <3>1. PICK v \in SessionIds : v = req[q].sid
      BY <2>4 DEF TypeOK, HasTarget, SessionPcs, DeletePcs
    <3>2. ~Creating(v)
      BY <2>1, <2>4, <3>1 DEF TidyHandler
    <3>3. ~Creating(v)'
      <4>1. mintedBy[v] # NoId
        BY <2>4, <3>1, IdsAreDistinct
           DEF Isolated, HandlersStayInTenant, Busy, Free, DeletePcs, TypeOK, HasTarget, SessionPcs
      <4>2. ~(req'[r].pc \in CreatePcs /\ req'[r].sid = v)
        BY <3>2, <4>1 DEF CreatesNew, Creating
      <4>3. \A u \in Requests \ {r} : ~(req'[u].pc \in CreatePcs /\ req'[u].sid = v)
        BY <3>2 DEF Creating
      <4> QED
        BY <4>2, <4>3 DEF Creating
    <3>4. Dwindling(v)
      <4>1. ~(v = req[r].sid /\ req[r].pc \in CreatePcs)
        BY <3>2 DEF Creating
      <4> QED
        BY <4>1 DEF Undisturbed, Dwindling
    <3>5. HandTidy(q) => HandTidy(q)'
      BY <2>1, <2>4, <3>1, <3>4 DEF HandTidy, Dwindling, OnFly, DeletePcs
    <3>6. req[q].pc \notin CreatePcs
      BY <2>4 DEF CreatePcs, DeletePcs
    <3> QED
      BY <2>1, <2>4, <3>1, <3>3, <3>5, <3>6 DEF TidyHandler
  <2> QED
    BY <2>2, <2>3, <2>4
<1> QED
  BY <1>2, <1>3 DEF TidyFit

\* A step that leaves the rows and Fly alone.
LEMMA TidyUntouched ==
  ASSUME TypeOK, Isolated, SessionsFit, TidyFit, NEW r \in Requests,
         \A q \in Requests \ {r} : req'[q] = req[q],
         UNCHANGED <<sessions, machines, volumes, astray>>,
         TidyHandler(r)', CreatesNew(r),
         req[r].pc \in CreatePcs \cup DeletePcs =>
           req'[r].pc \in CreatePcs /\ req'[r].sid = req[r].sid
  PROVE  TidyFit'
<1>1. \A u \in SessionIds : Undisturbed(u)
  BY DEF Undisturbed, Named, Stored
<1> QED
  BY <1>1, TidyCarriedOver

\* An id that is new has nothing on Fly.
LEMMA NewIsNotOnFly ==
  ASSUME TypeOK, Isolated, TidyFit, NEW s \in SessionIds \ astray, mintedBy[s] = NoId
  PROVE  ~OnFly(s)
<1>1. ~Stored(s) /\ ~Creating(s)
  BY TakenIsMinted DEF Creating
<1>2. Tracked(s, {})
  BY <1>1, OrphansAreUntracked DEF TidyFit, Named
<1> QED
  BY <1>2 DEF Tracked, OnFly

LEMMA ArrivalTidy ==
  ASSUME TidyWorld, TypeOK, Isolated, SessionsFit, TidyFit, Patient, NEW r \in Requests,
         SessionArrival(r) \/ TemplateArrival(r)
  PROVE  TidyFit'
<1>1. ~DeleteTemplate(r)
  BY DEF TidyWorld, DeleteTemplate
<1>2. UNCHANGED <<sessions, machines, volumes, astray>>
  BY <1>1, ArrivalChangesNothing
<1>3. req[r].pc \notin CreatePcs \cup DeletePcs
  BY ArrivesFree DEF CreatePcs, DeletePcs
<1>4. \A q \in Requests \ {r} : req'[q] = req[q]
  BY SessionArrivalMoves, TemplateArrivalMoves
<1>5. ASSUME req'[r].pc \in {"done", "markBuilding", "power"} PROVE TidyHandler(r)'
  BY <1>5 DEF TidyHandler, HandTidy, CreatePcs, DeletePcs
<1>6. TidyHandler(r)'
  <2>1. CASE CreateSession(r)
    <3>1. CASE req'[r].pc = "done"
      BY <3>1, <1>5
    <3>2. CASE req'[r].pc # "done"
      <4>1. PICK s \in SessionIds : mintedBy[s] = NoId /\ req'[r].sid = s
                                    /\ req'[r].pc = "insertSession"
        BY <2>1, <3>2, CreateSessionEffect
      <4>2. s \notin astray => ~OnFly(s)'
        BY <1>2, <4>1, NewIsNotOnFly DEF OnFly
      <4> QED
        BY <1>2, <4>1, <4>2 DEF TidyHandler, HandTidy, CreatePcs, DeletePcs
    <3> QED
      BY <3>1, <3>2
  <2>2. CASE ReadSession(r) \/ ListSessions(r) \/ TemplateArrival(r)
    BY <1>5, <2>2, ReadEffect, TemplateArrivalMoves
  <2>3. CASE ResumeSession(r) \/ HibernateSession(r)
    <3>1. req'[r].pc \in {"done", "power"}
      <4>1. \A ids : /\ FirstCall("resumeSession", ids) \in {"done", "power"}
                     /\ FirstCall("hibernateSession", ids) \in {"done", "power"}
        BY DEF FirstCall
      <4> QED
        BY <2>3, <4>1, LookUpEffect DEF ResumeSession, HibernateSession, SessionOps
    <3> QED
      BY <1>5, <3>1
  <2>4. CASE DeleteSession(r)
    <3>1. CASE req'[r].pc = "done"
      BY <1>5, <3>1
    <3>2. CASE req'[r].pc # "done"
      <4>1. PICK s \in SessionIds :
              /\ req'[r].sid = s
              /\ Stored(s)
              /\ req'[r].ids = sessions[s].ids
              /\ req'[r].pc = FirstCall("deleteSession", sessions[s].ids)
        BY <2>4, <3>2, LookUpEffect DEF DeleteSession, SessionOps
      <4>2. PICK ids : ids = sessions[s].ids
        OBVIOUS
      <4>3. req'[r].pc \in DeletePcs
        BY <4>1 DEF FirstCall, Destruction, DeletePcs
      <4>4. ~Creating(s)
        BY <1>3, <4>1, <4>3, ArrivesFree DEF Patient, Free
      <4>5. ~Creating(s)'
        BY <1>4, <4>1, <4>3, <4>4 DEF Creating, CreatePcs, DeletePcs
      <4>6. s \notin astray => Tracked(s, ids)
        BY <4>1, <4>2, <4>4, OrphansAreUntracked DEF TidyFit, Named
      <4>7. ids # {} => "app" \in ids
        BY <4>1, <4>2, RowsTell DEF SessionsFit, RowTells
      <4>8. s \notin astray' => HandTidy(r)'
        <5>1. SUFFICES ASSUME s \notin astray PROVE HandTidy(r)'
          BY <1>2
        <5>2. /\ machines'[s] # "none" => {"app", "machine"} \subseteq ids
              /\ s \in volumes' => {"app", "volume"} \subseteq ids
          BY <1>2, <4>6, <4>7, <5>1 DEF Tracked
        <5>3. req'[r].pc = IF {"app", "machine"} \subseteq ids THEN "destroyMachine"
                           ELSE Destruction(ids)
          BY <4>1, <4>2 DEF FirstCall
        <5> QED
          BY <4>1, <4>2, <4>3, <5>2, <5>3 DEF HandTidy, Destruction, DeletePcs
      <4>9. req'[r].pc \notin CreatePcs
        BY <4>3 DEF CreatePcs, DeletePcs
      <4> QED
        BY <4>1, <4>5, <4>8, <4>9 DEF TidyHandler
    <3> QED
      BY <3>1, <3>2
  <2> QED
    BY <2>1, <2>2, <2>3, <2>4 DEF SessionArrival
<1>7. CreatesNew(r)
  <2>1. CASE CreateSession(r)
    BY <2>1, CreateSessionEffect DEF CreatesNew, CreatePcs
  <2>2. CASE ~CreateSession(r)
    <3>1. req'[r].pc \in {"done", "power", "destroyMachine", "destroyVolume", "deleteRow",
                          "markBuilding"}
      <4>1. CASE ReadSession(r) \/ ListSessions(r) \/ TemplateArrival(r)
        BY <4>1, ReadEffect, TemplateArrivalMoves
      <4>2. CASE \E op \in SessionOps : LookUpSession(r, op)
        BY <4>2, LookUpEffect, FirstCallKnows
      <4> QED
        BY <2>2, <4>1, <4>2 DEF SessionArrival, ResumeSession, HibernateSession,
           DeleteSession, SessionOps
    <3> QED
      BY <3>1 DEF CreatesNew, CreatePcs
  <2> QED
    BY <2>1, <2>2
<1> QED
  BY <1>2, <1>3, <1>4, <1>6, <1>7, TidyUntouched

\* The row of a creation is there once it has been inserted.
LEMMA InsertSessionTidy ==
  ASSUME TidyWorld, TypeOK, Isolated, SessionsFit, ClientsStay, TidyFit,
         NEW r \in Requests, InsertSession(r)
  PROVE  TidyFit'
<1> DEFINE s == req[r].sid
           t == req[r].tid
<1>1. PICK x \in Replies(req[r].live, DbFaults, templates[t] # NoRow) :
        /\ sessions' = IF x.applied
                       THEN [sessions EXCEPT ![s] = PendingRow(req[r].org, t)]
                       ELSE sessions
        /\ IF ~x.failed /\ Readable(PendingRow(req[r].org, t))
           THEN GoTo(r, "ensureSessionApp", x)
           ELSE Answer(r, 500)
  BY DEF InsertSession
<1>2. req[r].pc = "insertSession" /\ UNCHANGED <<machines, volumes, astray>>
  BY DEF InsertSession, fly
<1>3. PICK i \in SessionIds : i = s
  BY <1>2 DEF TypeOK, HasTarget, SessionPcs
<1>4. ~Stored(i) /\ (i \notin astray' => ~OnFly(i)')
  BY <1>2, <1>3 DEF SessionsFit, CreatorsFit, CreatePcs, TidyFit, TidyHandler, HandTidy, OnFly
<1>5. \A u \in SessionIds : Undisturbed(u)
  <2>1. \A u \in SessionIds \ {i} : sessions'[u] = sessions[u]
    BY <1>1, <1>3 DEF TypeOK
  <2> QED
    BY <1>2, <1>4, <2>1 DEF Undisturbed, Stored, Named
<1>6. /\ req'[r].pc \in {"ensureSessionApp", "done"}
      /\ req'[r].pc = "ensureSessionApp" => ~x.failed /\ req'[r].sid = s
      /\ \A q \in Requests \ {r} : req'[q] = req[q]
  BY <1>1, GoToEffect, AnswerEffect
<1>7. ~x.failed => Stored(i)'
  <2>1. PendingRow(req[r].org, t) # NoRow
    <3>1. req[r].org \in Orgs /\ t \in TemplateIds
      BY <1>2 DEF TypeOK, HasTarget, SessionPcs
    <3>2. PendingRow(req[r].org, t) \in SessionRow
      BY <3>1 DEF PendingRow, SessionRow, SessionStatus
    <3> QED
      BY <3>2, IdsAreDistinct
  <2>2. ~x.failed => sessions'[i] = PendingRow(req[r].org, t)
    BY <1>1, <1>3, CarriedOut DEF TypeOK
  <2> QED
    BY <2>1, <2>2 DEF Stored
<1>8. TidyHandler(r)'
  BY <1>3, <1>4, <1>6, <1>7 DEF TidyHandler, HandTidy, DeletePcs, CreatePcs
<1>9. i \in astray' \/ Tracked(i, Named(i))'
  BY <1>4 DEF OnFly, Tracked
<1> QED
  BY <1>2, <1>3, <1>5, <1>6, <1>8, <1>9, TidyCarriedOver
     DEF CreatesNew, CreatePcs

LEMMA EnsureSessionAppTidy ==
  ASSUME TypeOK, Isolated, SessionsFit, TidyFit, NEW r \in Requests, EnsureSessionApp(r)
  PROVE  TidyFit'
<1>1. /\ req[r].pc = "ensureSessionApp"
      /\ \E pc \in {"failSession", "createVolume"} : \E x : GoTo(r, pc, x)
      /\ UNCHANGED <<sessions, machines, volumes, astray>>
  BY DEF EnsureSessionApp, db
<1>2. /\ req'[r].pc \in {"failSession", "createVolume"} /\ req'[r].sid = req[r].sid
      /\ \A q \in Requests \ {r} : req'[q] = req[q]
  BY <1>1, GoToEffect
<1>3. Stored(req[r].sid) /\ (req[r].sid \notin astray => ~OnFly(req[r].sid))
  BY <1>1 DEF TidyFit, TidyHandler, HandTidy, CreatePcs
<1>4. Stored(req[r].sid)' /\ (req[r].sid \notin astray => ~OnFly(req[r].sid))'
  BY <1>1, <1>2, <1>3 DEF OnFly, Stored
<1>5. TidyHandler(r)'
  BY <1>2, <1>4 DEF TidyHandler, HandTidy, DeletePcs, CreatePcs
<1> QED
  BY <1>1, <1>2, <1>5, TidyUntouched
     DEF CreatesNew, CreatePcs

\* A volume is there only if the creation knows of it, or went astray.
LEMMA CreateVolumeTidy ==
  ASSUME TypeOK, Isolated, SessionsFit, TidyFit, NEW r \in Requests, CreateVolume(r)
  PROVE  TidyFit'
<1> DEFINE s == req[r].sid
<1>0. PICK x \in Replies(req[r].live, FlyFaults["CreateVolume"], s \in apps) :
        \E told \in Told(x, FlyFaults["CreateVolume"]) :
          /\ volumes' = IF x.applied THEN volumes \cup {s} ELSE volumes
          /\ StraysIf(s, x.applied /\ ~told)
          /\ GoOn(r, IF x.failed THEN "failSession" ELSE "createMachine", x, "volume", told)
  BY DEF CreateVolume
<1>1. PICK told \in Told(x, FlyFaults["CreateVolume"]) :
        /\ volumes' = IF x.applied THEN volumes \cup {s} ELSE volumes
        /\ StraysIf(s, x.applied /\ ~told)
        /\ GoOn(r, IF x.failed THEN "failSession" ELSE "createMachine", x, "volume", told)
  BY <1>0
<1>2. req[r].pc = "createVolume" /\ UNCHANGED <<sessions, machines>>
  BY DEF CreateVolume, db
<1>3. PICK i \in SessionIds : i = s
  BY <1>2 DEF TypeOK, HasTarget, SessionPcs
<1>4. /\ req'[r].pc \in {"failSession", "createMachine"}
      /\ req'[r].pc = "failSession" => x.failed
      /\ req'[r].sid = s
      /\ told => req'[r].ids = req[r].ids \cup {"volume"}
      /\ \A q \in Requests \ {r} : req'[q] = req[q]
  <2> DEFINE pc == IF x.failed THEN "failSession" ELSE "createMachine"
  <2>1. GoOn(r, pc, x, "volume", told)
    BY <1>1
  <2>2. pc \in {"failSession", "createMachine"} /\ (pc = "failSession" => x.failed)
    OBVIOUS
  <2> HIDE DEF pc
  <2> QED
    BY <2>1, <2>2, GoOnEffect
<1>5. (told => ~x.failed) /\ (i \notin astray' => i \notin astray /\ (x.applied => told))
  BY <1>1, <1>3 DEF Told, StraysIf
<1>6. Stored(i)' /\ astray \subseteq astray'
  BY <1>1, <1>2, <1>3 DEF TidyFit, TidyHandler, CreatePcs, Stored, StraysIf
<1>7. i \notin astray' =>
        /\ machines'[i] = "none"
        /\ x.failed => i \notin volumes'
        /\ i \in volumes' => "volume" \in req'[r].ids
  <2>1. SUFFICES ASSUME i \notin astray'
                 PROVE  /\ machines'[i] = "none"
                        /\ x.failed => i \notin volumes'
                        /\ i \in volumes' => "volume" \in req'[r].ids
    OBVIOUS
  <2>2. ~OnFly(i)
    BY <1>2, <1>3, <1>5, <2>1 DEF TidyFit, TidyHandler, HandTidy
  <2> QED
    BY <1>1, <1>2, <1>3, <1>4, <1>5, <2>1, <2>2 DEF OnFly
<1>8. TidyHandler(r)'
  BY <1>3, <1>4, <1>6, <1>7 DEF TidyHandler, HandTidy, Tracked, OnFly, DeletePcs, CreatePcs
<1>9. \A u \in SessionIds : u = s \/ Undisturbed(u)
  BY <1>1, <1>2 DEF Undisturbed, Stored, Named
<1> QED
  BY <1>2, <1>3, <1>4, <1>6, <1>8, <1>9, TidyCarriedOver
     DEF CreatesNew, CreatePcs

LEMMA CreateMachineTidy ==
  ASSUME TypeOK, Isolated, SessionsFit, TidyFit, NEW r \in Requests, CreateMachine(r)
  PROVE  TidyFit'
<1> DEFINE s == req[r].sid
<1>0. PICK x \in CreateMachineReplies(r) :
        \E told \in Told(x, FlyFaults["CreateMachine"]) :
          /\ machines' = IF x.applied THEN [machines EXCEPT ![s] = "started"] ELSE machines
          /\ StraysIf(s, x.applied /\ ~told)
          /\ GoOn(r, IF x.failed THEN "undoVolume" ELSE "provisioned", x, "machine", told)
  BY DEF CreateMachine, AskForMachine
<1>1. PICK told \in Told(x, FlyFaults["CreateMachine"]) :
        /\ machines' = IF x.applied THEN [machines EXCEPT ![s] = "started"] ELSE machines
        /\ StraysIf(s, x.applied /\ ~told)
        /\ GoOn(r, IF x.failed THEN "undoVolume" ELSE "provisioned", x, "machine", told)
  BY <1>0
<1>2. req[r].pc = "createMachine" /\ UNCHANGED <<sessions, volumes>>
  BY DEF CreateMachine, AskForMachine, db
<1>3. PICK i \in SessionIds : i = s
  BY <1>2 DEF TypeOK, HasTarget, SessionPcs
<1>4. /\ req'[r].pc \in {"undoVolume", "provisioned"}
      /\ req'[r].pc = "undoVolume" => x.failed
      /\ req'[r].sid = s
      /\ told => req'[r].ids = req[r].ids \cup {"machine"}
      /\ ~told => req'[r].ids = req[r].ids
      /\ \A q \in Requests \ {r} : req'[q] = req[q]
  <2> DEFINE pc == IF x.failed THEN "undoVolume" ELSE "provisioned"
  <2>1. GoOn(r, pc, x, "machine", told)
    BY <1>1
  <2>2. pc \in {"undoVolume", "provisioned"} /\ (pc = "undoVolume" => x.failed)
    OBVIOUS
  <2> HIDE DEF pc
  <2> QED
    BY <2>1, <2>2, GoOnEffect
<1>5. (told => ~x.failed) /\ (i \notin astray' => i \notin astray /\ (x.applied => told))
  BY <1>1, <1>3 DEF Told, StraysIf
<1>6. Stored(i)' /\ astray \subseteq astray'
  BY <1>1, <1>2, <1>3 DEF TidyFit, TidyHandler, CreatePcs, Stored, StraysIf
<1>7. i \notin astray' =>
        /\ x.failed => machines'[i] = "none"
        /\ machines'[i] # "none" => "machine" \in req'[r].ids
        /\ i \in volumes' => "volume" \in req'[r].ids
  <2>1. SUFFICES ASSUME i \notin astray'
                 PROVE  /\ x.failed => machines'[i] = "none"
                        /\ machines'[i] # "none" => "machine" \in req'[r].ids
                        /\ i \in volumes' => "volume" \in req'[r].ids
    OBVIOUS
  <2>2. machines[i] = "none" /\ (i \in volumes => "volume" \in req[r].ids)
    BY <1>2, <1>3, <1>5, <2>1 DEF TidyFit, TidyHandler, HandTidy, Tracked
  <2> QED
    BY <1>1, <1>2, <1>3, <1>4, <1>5, <2>1, <2>2
<1>8. TidyHandler(r)'
  BY <1>3, <1>4, <1>6, <1>7 DEF TidyHandler, HandTidy, Tracked, DeletePcs, CreatePcs
<1>9. \A u \in SessionIds : u = s \/ Undisturbed(u)
  BY <1>1, <1>2 DEF Undisturbed, Stored, Named, TypeOK
<1> QED
  BY <1>2, <1>3, <1>4, <1>6, <1>8, <1>9, TidyCarriedOver
     DEF CreatesNew, CreatePcs

LEMMA UndoVolumeTidy ==
  ASSUME TypeOK, Isolated, SessionsFit, TidyFit, NEW r \in Requests, UndoVolume(r)
  PROVE  TidyFit'
<1> DEFINE s == req[r].sid
<1>1. PICK x \in DestroyVolumeReplies(r) :
        /\ volumes' = IF x.applied THEN volumes \ {s} ELSE volumes
        /\ StraysIf(s, s \in volumes')
        /\ GoTo(r, "failSession", x)
  BY DEF UndoVolume
<1>2. req[r].pc = "undoVolume" /\ UNCHANGED <<sessions, machines>>
  BY DEF UndoVolume, db
<1>3. PICK i \in SessionIds : i = s
  BY <1>2 DEF TypeOK, HasTarget, SessionPcs
<1>4. /\ req'[r].pc = "failSession" /\ req'[r].sid = s
      /\ \A q \in Requests \ {r} : req'[q] = req[q]
  BY <1>1, GoToEffect
<1>5. Stored(i)' /\ (i \notin astray => machines'[i] = "none")
  BY <1>2, <1>3 DEF TidyFit, TidyHandler, HandTidy, CreatePcs, Stored
<1>6. astray \subseteq astray' /\ (i \notin astray' => i \notin volumes')
  BY <1>1, <1>3 DEF StraysIf
<1>7. TidyHandler(r)'
  BY <1>3, <1>4, <1>5, <1>6 DEF TidyHandler, HandTidy, DeletePcs, CreatePcs, OnFly
<1>8. \A u \in SessionIds : u = s \/ Undisturbed(u)
  BY <1>1, <1>2 DEF Undisturbed, Stored, Named
<1> QED
  BY <1>2, <1>3, <1>4, <1>6, <1>7, <1>8, TidyCarriedOver
     DEF CreatesNew, CreatePcs

LEMMA FailSessionTidy ==
  ASSUME TypeOK, Isolated, SessionsFit, TidyFit, NEW r \in Requests, FailSession(r)
  PROVE  TidyFit'
<1> DEFINE s == req[r].sid
<1>1. /\ req[r].pc = "failSession"
      /\ Answer(r, 500)
      /\ sessions' = sessions \/ sessions' = SetStatus(s, "error")
      /\ UNCHANGED <<machines, volumes, astray>>
  BY DEF FailSession, fly
<1>2. PICK i \in SessionIds : i = s
  BY <1>1 DEF TypeOK, HasTarget, SessionPcs
<1>3. req'[r].pc = "done" /\ \A q \in Requests \ {r} : req'[q] = req[q]
  BY <1>1, AnswerEffect
<1>4. i \in astray' \/ Tracked(i, Named(i))'
  BY <1>1, <1>2 DEF TidyFit, TidyHandler, HandTidy, OnFly, Tracked
<1>5. \A u \in SessionIds \ {i} : sessions'[u] = sessions[u]
  BY <1>1, <1>2 DEF SetStatus, TypeOK
<1>6. \A u \in SessionIds : u = s \/ Undisturbed(u)
  BY <1>1, <1>2, <1>5 DEF Undisturbed, Stored, Named
<1>7. TidyHandler(r)'
  BY <1>3 DEF TidyHandler, HandTidy, DeletePcs, CreatePcs
<1> QED
  BY <1>1, <1>2, <1>3, <1>4, <1>6, <1>7, TidyCarriedOver
     DEF CreatesNew, CreatePcs

\* The row takes over what the creation has made.
LEMMA ProvisionedTidy ==
  ASSUME TidyWorld, TypeOK, Isolated, SessionsFit, ClientsStay, TidyFit,
         NEW r \in Requests, Provisioned(r)
  PROVE  TidyFit'
<1> DEFINE s == req[r].sid
<1>1. PICK x \in Queried(req[r].live) :
        /\ sessions' = IF x.applied THEN MarkProvisioned(s, req[r].ids) ELSE sessions
        /\ IF x.failed THEN Answer(r, 500) ELSE GoTo(r, "reloadSession", x)
  BY DEF Provisioned
<1>2. req[r].pc = "provisioned" /\ UNCHANGED <<machines, volumes, astray>>
  BY DEF Provisioned, fly
<1>3. PICK i \in SessionIds : i = s
  BY <1>2 DEF TypeOK, HasTarget, SessionPcs
<1>4. sessions' = MarkProvisioned(i, req[r].ids)
  BY <1>1, <1>3, ShelteredQuery DEF TidyWorld
<1>5. Stored(i) /\ (i \notin astray => Tracked(i, req[r].ids))
  BY <1>2, <1>3 DEF TidyFit, TidyHandler, HandTidy, CreatePcs
<1>6. \A u \in SessionIds \ {i} : sessions'[u] = sessions[u]
  BY <1>4 DEF MarkProvisioned, TypeOK
<1>7. Named(i)' = req[r].ids \cup {"app"}
  BY <1>4, <1>5, MarkedNames DEF TypeOK, Request
<1>8. i \in astray' \/ Tracked(i, Named(i))'
  BY <1>2, <1>5, <1>7 DEF Tracked
<1>9. /\ req'[r].pc \in {"reloadSession", "done"}
      /\ \A q \in Requests \ {r} : req'[q] = req[q]
  BY <1>1, GoToEffect, AnswerEffect
<1>10. TidyHandler(r)'
  BY <1>9 DEF TidyHandler, HandTidy, DeletePcs, CreatePcs
<1>11. \A u \in SessionIds : u = s \/ Undisturbed(u)
  BY <1>2, <1>3, <1>6 DEF Undisturbed, Stored, Named
<1> QED
  BY <1>2, <1>3, <1>8, <1>9, <1>10, <1>11, TidyCarriedOver
     DEF CreatesNew, CreatePcs

\* The handlers that found a row with its ids and let it live.
LEMMA PowerTidy ==
  ASSUME TypeOK, Isolated, SessionsFit, TidyFit, NEW r \in Requests,
         Power(r) \/ RecordPower(r) \/ ReloadSession(r)
  PROVE  TidyFit'
<1> DEFINE s == req[r].sid
<1>1. /\ req[r].pc \in {"power", "setStatus", "reloadSession"}
      /\ (\E pc \in {"setStatus", "reloadSession"} : \E x : GoTo(r, pc, x))
           \/ \E code : Answer(r, code)
      /\ UNCHANGED <<volumes, astray>>
  BY DEF Power, RecordPower, ReloadSession, fly
<1>2. /\ req'[r].pc \in {"setStatus", "reloadSession", "done"}
      /\ \A q \in Requests \ {r} : req'[q] = req[q]
  BY <1>1, GoToEffect, AnswerEffect
<1>3. PICK i \in SessionIds : i = s
  BY <1>1 DEF TypeOK, HasTarget, SessionPcs
<1>4. \A u \in SessionIds : machines'[u] = "none" <=> machines[u] = "none"
  <2>1. \/ machines' = machines
        \/ machines[i] # "none" /\ \E to \in {"started", "stopped"} :
             machines' = [machines EXCEPT ![i] = to]
    <3>1. CASE Power(r)
      <4> DEFINE call == IF req[r].op = "resumeSession" THEN "StartMachine" ELSE "StopMachine"
                 to == IF call = "StartMachine" THEN "started" ELSE "stopped"
      <4>1. PICK x \in Replies(req[r].live, FlyFaults[call], machines[s] # "none") :
              machines' = IF x.applied THEN [machines EXCEPT ![s] = to] ELSE machines
        BY <3>1 DEF Power
      <4>2. x.applied => machines[s] # "none"
        BY DEF Replies, HungUp
      <4>3. to \in {"started", "stopped"}
        OBVIOUS
      <4> QED
        BY <1>3, <4>1, <4>2, <4>3
    <3>2. CASE RecordPower(r) \/ ReloadSession(r)
      BY <3>2 DEF RecordPower, ReloadSession, fly
    <3> QED
      BY <3>1, <3>2
  <2> QED
    BY <2>1 DEF TypeOK
<1>5. \A u \in SessionIds : (Stored(u) => Stored(u)') /\ Named(u) \subseteq Named(u)'
  <2>1. sessions' = sessions \/ \E status \in SessionStatus : sessions' = SetStatus(i, status)
    BY <1>3 DEF Power, RecordPower, ReloadSession, db, SessionStatus
  <2>2. CASE \E status \in SessionStatus : sessions' = SetStatus(i, status)
    <3>1. PICK status \in SessionStatus : sessions' = SetStatus(i, status)
      BY <2>2
    <3>2. \A u \in SessionIds \ {i} : sessions'[u] = sessions[u]
      BY <3>1 DEF SetStatus, TypeOK
    <3>3. CASE Stored(i)
      <4>1. sessions[i] \in SessionRow /\ sessions'[i] = [sessions[i] EXCEPT !.status = status]
        BY <3>1, <3>3 DEF SetStatus, TypeOK, Stored
      <4>2. sessions'[i] \in SessionRow /\ sessions'[i].ids = sessions[i].ids
        BY <4>1 DEF SessionRow
      <4> QED
        BY <3>2, <4>2, IdsAreDistinct DEF Stored, Named
    <3> QED
      BY <3>2, <3>3 DEF Stored, Named
  <2> QED
    BY <2>1, <2>2 DEF Stored, Named
<1>6. \A u \in SessionIds : Undisturbed(u)
  BY <1>1, <1>4, <1>5 DEF Undisturbed
<1>7. TidyHandler(r)'
  BY <1>2 DEF TidyHandler, HandTidy, DeletePcs, CreatePcs
<1>8. req[r].pc \notin CreatePcs \cup DeletePcs
  BY <1>1 DEF DeletePcs, CreatePcs
<1> QED
  BY <1>1, <1>2, <1>6, <1>7, <1>8, TidyCarriedOver DEF CreatesNew, CreatePcs

\* A deletion takes down the machine, then the volume, then the row.
LEMMA DestroyMachineTidy ==
  ASSUME TypeOK, Isolated, SessionsFit, TidyFit, NEW r \in Requests, DestroyMachine(r)
  PROVE  TidyFit'
<1> DEFINE s == req[r].sid
<1>1. PICK x \in Replies(req[r].live, FlyFaults["DestroyMachine"], machines[s] # "none") :
        /\ machines' = IF x.applied THEN [machines EXCEPT ![s] = "none"] ELSE machines
        /\ StraysIf(s, machines'[s] # "none")
        /\ GoTo(r, Destruction(req[r].ids), x)
  BY DEF DestroyMachine
<1>2. req[r].pc = "destroyMachine" /\ UNCHANGED <<sessions, volumes>>
  BY DEF DestroyMachine, db
<1>3. PICK i \in SessionIds : i = s
  BY <1>2 DEF TypeOK, HasTarget, SessionPcs
<1>4. /\ req'[r].pc = Destruction(req[r].ids) /\ req'[r].sid = s
      /\ \A q \in Requests \ {r} : req'[q] = req[q]
  <2> DEFINE pc == Destruction(req[r].ids)
  <2>1. GoTo(r, pc, x)
    BY <1>1
  <2> HIDE DEF pc
  <2>2. req'[r].pc = pc /\ req'[r].sid = s /\ \A q \in Requests \ {r} : req'[q] = req[q]
    BY <2>1, GoToEffect
  <2> QED
    BY <2>2 DEF pc
<1>5. req'[r].pc \in {"destroyVolume", "deleteRow"}
  BY <1>4 DEF Destruction
<1>6. /\ astray \subseteq astray'
      /\ i \notin astray' => i \notin astray /\ machines'[i] = "none"
  BY <1>1, <1>3 DEF StraysIf
<1>7. ~Creating(i) /\ ~Creating(i)'
  BY <1>2, <1>3, <1>4, <1>5 DEF TidyFit, TidyHandler, Creating, CreatePcs, DeletePcs
<1>8. i \notin astray' => (req'[r].pc = "deleteRow" => i \notin volumes')
  BY <1>2, <1>3, <1>4, <1>6 DEF TidyFit, TidyHandler, HandTidy
<1>9. TidyHandler(r)'
  BY <1>3, <1>4, <1>5, <1>6, <1>7, <1>8 DEF TidyHandler, HandTidy, CreatePcs
<1>10. \A u \in SessionIds : Undisturbed(u) \/ (u = s /\ Dwindling(u))
  BY <1>1, <1>2, <1>3 DEF Undisturbed, Dwindling, Stored, Named, TypeOK
<1>11. i \in astray' \/ Tracked(i, Named(i))'
  <2>1. i \notin astray => Tracked(i, Named(i))
    BY <1>7, OrphansAreUntracked DEF TidyFit
  <2> QED
    BY <1>2, <1>6, <2>1 DEF Tracked, Named, Stored
<1> QED
  BY <1>2, <1>3, <1>4, <1>5, <1>6, <1>9, <1>10, <1>11, TidyCarriedOver
     DEF CreatesNew, CreatePcs, DeletePcs

LEMMA DestroyVolumeTidy ==
  ASSUME TypeOK, Isolated, SessionsFit, TidyFit, NEW r \in Requests, DestroyVolume(r)
  PROVE  TidyFit'
<1> DEFINE s == req[r].sid
<1>1. PICK x \in DestroyVolumeReplies(r) :
        /\ volumes' = IF x.applied THEN volumes \ {s} ELSE volumes
        /\ StraysIf(s, s \in volumes')
        /\ GoTo(r, "deleteRow", x)
  BY DEF DestroyVolume
<1>2. req[r].pc = "destroyVolume" /\ UNCHANGED <<sessions, machines>>
  BY DEF DestroyVolume, db
<1>3. PICK i \in SessionIds : i = s
  BY <1>2 DEF TypeOK, HasTarget, SessionPcs
<1>4. /\ req'[r].pc = "deleteRow" /\ req'[r].sid = s
      /\ \A q \in Requests \ {r} : req'[q] = req[q]
  BY <1>1, GoToEffect
<1>5. /\ astray \subseteq astray'
      /\ i \notin astray' => i \notin astray /\ i \notin volumes'
  BY <1>1, <1>3 DEF StraysIf
<1>6. ~Creating(i)'
  BY <1>2, <1>3, <1>4 DEF TidyFit, TidyHandler, Creating, CreatePcs, DeletePcs
<1>7. i \notin astray' => machines'[i] = "none"
  BY <1>2, <1>3, <1>5 DEF TidyFit, TidyHandler, HandTidy
<1>8. TidyHandler(r)'
  BY <1>3, <1>4, <1>5, <1>6, <1>7 DEF TidyHandler, HandTidy, CreatePcs
<1>9. \A u \in SessionIds : Undisturbed(u) \/ (u = s /\ Dwindling(u))
  BY <1>1, <1>2, <1>3 DEF Undisturbed, Dwindling, Stored, Named
<1>10. i \in astray' \/ Tracked(i, Named(i))'
  BY <1>5, <1>7 DEF Tracked
<1> QED
  BY <1>2, <1>3, <1>4, <1>5, <1>8, <1>9, <1>10, TidyCarriedOver
     DEF CreatesNew, CreatePcs, DeletePcs

LEMMA DeleteRowTidy ==
  ASSUME TidyWorld, TypeOK, Isolated, SessionsFit, ClientsStay, TidyFit,
         NEW r \in Requests, DeleteRow(r)
  PROVE  TidyFit'
<1> DEFINE s == req[r].sid
<1>1. /\ \A u \in SessionIds \ {s} : sessions'[u] = sessions[u]
      /\ req'[r].pc = "done"
      /\ \A q \in Requests \ {r} : req'[q] = req[q]
  BY DeleteRowRemoves DEF TidyWorld
<1>2. req[r].pc = "deleteRow" /\ UNCHANGED <<machines, volumes, astray>>
  BY DEF DeleteRow, fly
<1>3. PICK i \in SessionIds : i = s
  BY <1>2 DEF TypeOK, HasTarget, SessionPcs
<1>4. i \in astray' \/ Tracked(i, Named(i))'
  BY <1>2, <1>3 DEF TidyFit, TidyHandler, HandTidy, Tracked
<1>5. \A u \in SessionIds : Undisturbed(u) \/ (u = s /\ Dwindling(u))
  BY <1>1, <1>2 DEF Undisturbed, Dwindling, Stored, Named
<1>6. TidyHandler(r)'
  BY <1>1 DEF TidyHandler, HandTidy, CreatePcs, DeletePcs
<1> QED
  BY <1>1, <1>2, <1>3, <1>4, <1>5, <1>6, TidyCarriedOver
     DEF CreatesNew, CreatePcs, DeletePcs

LEMMA TemplateStepTidy ==
  ASSUME TypeOK, Isolated, SessionsFit, TidyFit, NEW r \in Requests, TemplateStep(r)
  PROVE  TidyFit'
<1>1. /\ req[r].pc \in TemplatePcs /\ req'[r].pc \in TemplatePcs \cup {"done"}
      /\ \A q \in Requests \ {r} : req'[q] = req[q]
  BY TemplateStepMoves
<1>2. UNCHANGED <<sessions, machines, volumes, astray>>
  BY TemplateStepChangesNothing
<1>3. TidyHandler(r)' /\ req[r].pc \notin CreatePcs \cup DeletePcs
  BY <1>1 DEF TidyHandler, HandTidy, CreatePcs, DeletePcs, TemplatePcs
<1> QED
  BY <1>1, <1>2, <1>3, TidyUntouched DEF CreatesNew, CreatePcs, TemplatePcs

\* Fly's proxy moves machines, and makes none.
LEMMA ProxyTidy ==
  ASSUME TypeOK, TidyFit,
         (\E s \in SessionIds : Autostop(s) \/ Autostart(s)) \/ UNCHANGED vars
  PROVE  TidyFit'
<1>1. UNCHANGED <<sessions, volumes, astray, req>>
  BY DEF Autostop, Autostart, vars, db
<1>2. \A u \in SessionIds : machines'[u] = "none" <=> machines[u] = "none"
  <2>1. \/ machines' = machines
        \/ \E s \in SessionIds, to \in {"started", "suspended"} :
             machines[s] # "none" /\ machines' = [machines EXCEPT ![s] = to]
    BY DEF Autostop, Autostart, vars
  <2> QED
    BY <2>1 DEF TypeOK
<1>3. \A u \in SessionIds : (Tracked(u, Named(u))' <=> Tracked(u, Named(u)))
                            /\ (Stored(u)' <=> Stored(u)) /\ (Creating(u)' <=> Creating(u))
  BY <1>1, <1>2 DEF Tracked, Named, Stored, Creating
<1>4. NoOrphans'
  BY <1>1, <1>3, OrphansAreUntracked DEF TidyFit
<1>5. ASSUME NEW q \in Requests PROVE TidyHandler(q)'
  <2>1. TidyHandler(q) /\ req'[q] = req[q]
    BY <1>1 DEF TidyFit
  <2>2. CASE req[q].pc \notin CreatePcs \cup DeletePcs
    BY <2>1, <2>2 DEF TidyHandler, HandTidy, CreatePcs, DeletePcs
  <2>3. CASE req[q].pc \in CreatePcs \cup DeletePcs
    <3>1. PICK i \in SessionIds : i = req[q].sid
      BY <2>3 DEF TypeOK, HasTarget, SessionPcs, CreatePcs, DeletePcs
    <3>2. HandTidy(q) => HandTidy(q)'
      BY <1>1, <1>2, <2>1, <3>1 DEF HandTidy, OnFly, Tracked
    <3> QED
      BY <1>1, <1>3, <2>1, <3>1, <3>2 DEF TidyHandler
  <2> QED
    BY <2>2, <2>3
<1> QED
  BY <1>4, <1>5 DEF TidyFit

LEMMA NextTidy ==
  ASSUME TidyWorld
  PROVE  /\ TypeOK /\ Isolated /\ SessionsFit /\ ClientsStay /\ TidyFit
         /\ [Next /\ Patient]_vars
         => TidyFit'
<1> SUFFICES ASSUME TypeOK, Isolated, SessionsFit, ClientsStay, TidyFit,
                    [Next /\ Patient]_vars
             PROVE  TidyFit'
  OBVIOUS
<1>1. ASSUME NEW r \in Requests, SessionStep(r) PROVE TidyFit'
  BY <1>1, InsertSessionTidy, EnsureSessionAppTidy, CreateVolumeTidy, CreateMachineTidy,
     UndoVolumeTidy, FailSessionTidy, ProvisionedTidy, PowerTidy, DestroyMachineTidy,
     DestroyVolumeTidy, DeleteRowTidy DEF SessionStep
<1>2. ASSUME Patient, NEW r \in Requests, SessionArrival(r) \/ TemplateArrival(r)
      PROVE  TidyFit'
  BY <1>2, ArrivalTidy
<1>3. ASSUME NEW r \in Requests, TemplateStep(r) PROVE TidyFit'
  BY <1>3, TemplateStepTidy
<1>4. ~Crash
  BY DEF Crash, TidyWorld, Sheltered
<1>5. CASE (\E s \in SessionIds : Autostop(s) \/ Autostart(s)) \/ UNCHANGED vars
  BY <1>5, ProxyTidy
<1> QED
  BY <1>1, <1>2, <1>3, <1>4, <1>5 DEF Next, Advance

\* While the database and the clients stay, no template is deleted and nobody
\* deletes a session that is still being created, no machine and no volume is left
\* on Fly without a row that names it, whatever requests overlap and whatever Fly
\* refuses or loses: the failure paths of createSession take down the volume they
\* put up, and deleteSession drops the row last.  It says nothing of a session of
\* which Fly made something without telling its id, or did not destroy what it was
\* asked to (astray), and nothing of apps, which no code destroys.
THEOREM NothingIsOrphaned ==
  ASSUME TidyWorld
  PROVE  PatientSpec => []NoOrphans
<1>1. Init => TidyFit
  BY DEF Init, TidyFit, TidyHandler, HandTidy, NoOrphans, Idle, CreatePcs, DeletePcs
<1>2. TypeOK /\ Isolated /\ SessionsFit /\ ClientsStay /\ TidyFit /\ [Next /\ Patient]_vars
      => TidyFit'
  BY NextTidy
<1>3. PatientSpec => Spec
  <2>1. [Next /\ Patient]_vars => [Next]_vars
    OBVIOUS
  <2> QED
    BY <2>1, PTL DEF PatientSpec, Spec
<1>4. Spec => []ClientsStay
  BY ClientsDoStay DEF TidyWorld
<1>5. TidyFit => NoOrphans
  BY DEF TidyFit
<1> QED
  BY <1>1, <1>2, <1>3, <1>4, <1>5, SessionsStayFit, PTL DEF PatientSpec

-----------------------------------------------------------------------------
(* Taking turns.                                                           *)

\* No two handlers are at work on one session, or build one template.
TurnsTaken ==
  \A q, r \in Requests : q # r =>
    /\ {req[q].pc, req[r].pc} \subseteq SessionPcs => req[r].sid # req[q].sid
    /\ {req[q].pc, req[r].pc} \subseteq TemplatePcs => req[r].tid # req[q].tid

\* A handler that goes on goes on with its session or its template.
LEMMA StepKeepsTask ==
  ASSUME TypeOK, NEW r \in Requests, SessionStep(r) \/ TemplateStep(r)
  PROVE  /\ \A q \in Requests \ {r} : req'[q] = req[q]
         /\ req'[r].pc \in SessionPcs => req[r].pc \in SessionPcs /\ req'[r].sid = req[r].sid
         /\ req'[r].pc \in TemplatePcs => req[r].pc \in TemplatePcs /\ req'[r].tid = req[r].tid
         /\ req'[r].pc # "markBuilding"
<1>1. CASE SessionStep(r)
  <2>1. /\ req[r].pc \in SessionPcs
        /\ \/ \E pc \in SessionPcs \ {"insertSession"} : Goes(r, pc)
           \/ \E code : Answer(r, code)
    BY <1>1, SessionStepMoves
  <2>2. /\ \A q \in Requests \ {r} : req'[q] = req[q]
        /\ req'[r].pc \in SessionPcs \cup {"done"} /\ req'[r].sid = req[r].sid
    BY <2>1, GoesEffect, AnswerEffect
  <2> QED
    BY <2>1, <2>2 DEF SessionPcs, TemplatePcs
<1>2. CASE TemplateStep(r)
  <2>1. /\ req[r].pc \in TemplatePcs /\ req'[r].pc \in TemplatePcs \cup {"done"}
        /\ \A q \in Requests \ {r} : req'[q] = req[q]
    BY <1>2, TemplateStepMoves
  <2>2. CASE BuildImage(r)
    <3>1. /\ req'[r].tid = req[r].tid
          /\ req'[r].pc \in {"markFailed", "markReady"}
      BY <2>2 DEF BuildImage, TypeOK, Request
    <3> QED
      BY <2>1, <3>1 DEF SessionPcs, TemplatePcs
  <2>3. CASE ~BuildImage(r)
    <3>1. \/ \E pc \in {"ensureTemplateApp", "markFailed", "buildImage", "reloadTemplate"} :
               \E x : GoTo(r, pc, x)
          \/ \E code : Answer(r, code)
      BY ZenonT(60), <1>2, <2>3 DEF TemplateStep, MarkBuilding, EnsureTemplateApp, MarkReady,
         MarkFailed, ReloadTemplate
    <3>2. /\ req'[r].pc = "done" \/ req'[r].tid = req[r].tid
          /\ req'[r].pc # "markBuilding"
      BY <3>1, GoToEffect, AnswerEffect
    <3> QED
      BY <2>1, <3>2 DEF SessionPcs, TemplatePcs
  <2> QED
    BY <2>2, <2>3
<1> QED
  BY <1>1, <1>2

LEMMA NextTurns == TypeOK /\ TurnsTaken /\ [Next /\ InTurn]_vars => TurnsTaken'
<1> SUFFICES ASSUME TypeOK, TurnsTaken, [Next /\ InTurn]_vars PROVE TurnsTaken'
  OBVIOUS
<1>1. CASE Crash \/ (\E s \in SessionIds : Autostop(s) \/ Autostart(s)) \/ UNCHANGED vars
  <2>1. UNCHANGED req \/ \A r \in Requests : req'[r].pc = "idle"
    BY <1>1 DEF Crash, Idle, Autostop, Autostart, vars
  <2> QED
    BY <2>1 DEF TurnsTaken, SessionPcs, TemplatePcs
<1>2. ASSUME NEW r \in Requests, SessionStep(r) \/ TemplateStep(r) PROVE TurnsTaken'
  BY <1>2, StepKeepsTask DEF TurnsTaken
<1>3. ASSUME InTurn, NEW r \in Requests, SessionArrival(r) \/ TemplateArrival(r)
      PROVE  TurnsTaken'
  <2>1. Free(r) /\ \A q \in Requests \ {r} : req'[q] = req[q]
    BY <1>3, ArrivesFree, SessionArrivalMoves, TemplateArrivalMoves DEF Free
  <2> QED
    BY <1>3, <2>1 DEF TurnsTaken, InTurn
<1> QED
  BY <1>1, <1>2, <1>3 DEF Next, Advance

-----------------------------------------------------------------------------
(* ImageIsKept.  One build of a template at a time, whatever fails.        *)

\* What a build read of the row is what the row still says when it is marked.
ReadFits ==
  \A r \in Requests :
    req[r].pc = "markBuilding" /\ templates[req[r].tid] # NoRow =>
      templates[req[r].tid].image = req[r].img

\* What a step of handler r may do to the row of template t.
KeepsImage(t) ==
  (templates[t] # NoRow /\ templates'[t] # NoRow /\ templates[t].image # NoImage) =>
    (templates'[t].image # NoImage \/ templates'[t].status = "failed")

LEMMA UpdatedStatus ==
  ASSUME TypeOK, NEW t \in TemplateIds, NEW status \in TemplateStatus, NEW image \in Images,
         templates' = UpdateBuildStatus(t, status, image)
  PROVE  templates'[t] # NoRow => templates[t] # NoRow /\ templates'[t].status = status
<1>1. templates \in [TemplateIds -> TemplateRow \cup {NoRow}]
  BY DEF TypeOK
<1> DEFINE row == [templates[t] EXCEPT !.status = status, !.image = image]
<1>2. templates[t] # NoRow => row.status = status
  BY <1>1 DEF TemplateRow
<1>3. templates'[t] = IF templates[t] = NoRow THEN NoRow ELSE row
  BY <1>1 DEF UpdateBuildStatus
<1> HIDE DEF row
<1> QED
  BY <1>2, <1>3

LEMMA TemplateStepKeepsImages ==
  ASSUME TypeOK, ImagesFit, ReadFits, NEW r \in Requests, TemplateStep(r),
         NEW u \in TemplateIds
  PROVE  KeepsImage(u)
<1> DEFINE t == req[r].tid
<1>1. t \in TemplateIds /\ req[r].img \in Images /\ NoImage \in Images
  BY TemplateStepMoves DEF TypeOK, HasTarget, Request, TemplatePcs, Images
<1>2. CASE UNCHANGED templates
  BY <1>2 DEF KeepsImage
<1>3. ASSUME NEW status \in TemplateStatus, NEW image \in Images,
             templates' = UpdateBuildStatus(t, status, image),
             templates[t] # NoRow => image = templates[t].image \/ image # NoImage
                                       \/ status = "failed"
      PROVE  KeepsImage(u)
  BY <1>1, <1>3, UpdatedImage, UpdatedStatus DEF KeepsImage
<1>4. CASE MarkBuilding(r) /\ templates' = UpdateBuildStatus(t, "building", req[r].img)
  <2>1. templates[t] # NoRow => req[r].img = templates[t].image
    BY <1>4 DEF MarkBuilding, ReadFits
  <2> QED
    BY <1>1, <1>3, <1>4, <2>1 DEF TemplateStatus
<1>5. CASE MarkReady(r) /\ templates' = UpdateBuildStatus(t, "ready", req[r].img)
  <2>1. req[r].img # NoImage
    <3>1. req[r].pc = "markReady"
      BY <1>5 DEF MarkReady
    <3>2. CarriesOwnImage(r)
      BY <3>1 DEF ImagesFit
    <3> QED
      BY <1>1, <3>1, <3>2, IdsAreDistinct DEF CarriesOwnImage
  <2> QED
    BY <1>1, <1>3, <1>5, <2>1 DEF TemplateStatus
<1>6. CASE templates' = UpdateBuildStatus(t, "failed", NoImage)
  BY <1>1, <1>3, <1>6 DEF TemplateStatus
<1> QED
  BY <1>2, <1>4, <1>5, <1>6 DEF TemplateStep, MarkBuilding, EnsureTemplateApp, BuildImage,
     MarkReady, MarkFailed, ReloadTemplate, db

\* A template that is new has no row yet.
LEMMA TemplateArrivalKeepsImages ==
  ASSUME TypeOK, Isolated, NEW r \in Requests, TemplateArrival(r), NEW u \in TemplateIds
  PROVE  KeepsImage(u)
<1>1. \/ UNCHANGED templates
      \/ \E t \in TemplateIds : templates' = [templates EXCEPT ![t] = NoRow]
      \/ \E t \in TemplateIds, org \in Orgs :
           mintedBy[t] = NoId /\ templates' = [templates EXCEPT ![t] = DraftRow(org)]
  BY DEF TemplateArrival, CreateTemplate, ReadTemplate, ListTemplates, DeleteTemplate,
     BuildTemplate, Minted, db
<1>2. \A t \in TemplateIds : mintedBy[t] = NoId => templates[t] = NoRow
  <2>1. ASSUME NEW t \in TemplateIds, templates[t] # NoRow PROVE mintedBy[t] # NoId
    <3>1. templates[t].org \in Orgs
      BY <2>1 DEF TypeOK, TemplateRow
    <3> QED
      BY <2>1, <3>1, IdsAreDistinct DEF Isolated, RowsStayInTenant
  <2> QED
    BY <2>1
<1> QED
  BY <1>1, <1>2 DEF KeepsImage, TypeOK

\* A build that has just read its row, of which it is the only handler.
LEMMA BuildTemplateReads ==
  ASSUME TypeOK, NEW r \in Requests, BuildTemplate(r), req'[r].pc = "markBuilding"
  PROVE  templates'[req'[r].tid].image = req'[r].img
<1>1. PICK org \in Orgs, t \in TemplateIds, x \in Queried(TRUE) :
        \/ AnswerAtOnce(r, "buildTemplate", org, t, MapError(TemplateError(LookupError)))
        \/ /\ GetTemplate(org, t, x) # NoRow
           /\ req' = [req EXCEPT ![r] =
                        [Accept("buildTemplate", org, NoId, t, x)
                           EXCEPT !.pc = "markBuilding",
                                  !.img = GetTemplate(org, t, x).image]]
  BY DEF BuildTemplate, Minted
<1>2. UNCHANGED templates
  BY DEF BuildTemplate, db
<1>3. ~AnswerAtOnce(r, "buildTemplate", org, t, MapError(TemplateError(LookupError)))
  <2>1. "buildTemplate" \in TemplateOps
    BY DEF TemplateOps
  <2> QED
    BY <2>1, AnswerAtOnceEffect
<1> DEFINE new == Accept("buildTemplate", org, NoId, t, x)
           img == GetTemplate(org, t, x).image
           q == [new EXCEPT !.pc = "markBuilding", !.img = img]
<1>4. img = templates[t].image
  BY <1>1, <1>3 DEF GetTemplate
<1>5. new \in Request /\ new.tid = t
  <2>1. x.live \in BOOLEAN
    BY FirstReplyType
  <2> QED
    BY <2>1, AcceptType DEF TemplateOps
<1>6. req' = [req EXCEPT ![r] = q]
  BY <1>1, <1>3
<1> HIDE DEF new, img
<1>7. q.tid = t /\ q.img = img
  BY <1>5 DEF Request
<1> HIDE DEF q
<1>8. req'[r] = q
  BY <1>6 DEF TypeOK
<1> QED
  BY <1>2, <1>4, <1>7, <1>8

LEMMA SessionsLeaveTemplates ==
  ASSUME NEW r \in Requests, SessionStep(r) \/ SessionArrival(r)
  PROVE  UNCHANGED templates
BY DEF SessionStep, InsertSession, EnsureSessionApp, CreateVolume, CreateMachine,
   AskForMachine, UndoVolume, FailSession, Provisioned, ReloadSession, Power, RecordPower,
   DestroyMachine, DestroyVolume, DeleteRow, SessionArrival, CreateSession, ReadSession,
   ListSessions, ResumeSession, HibernateSession, DeleteSession, LookUpSession, db

\* What handler r does to the row of a template that another one builds.
LEMMA OthersKeepRead ==
  ASSUME TypeOK, Isolated, TurnsTaken, NEW r \in Requests, NEW q \in Requests, q # r,
         req[q].pc = "markBuilding", NEW u \in TemplateIds, u = req[q].tid,
         TemplateStep(r) \/ TemplateArrival(r)
  PROVE  templates'[u] = templates[u] \/ templates'[u] = NoRow
<1>1. CASE TemplateStep(r)
  <2>1. req[r].pc \in TemplatePcs
    BY <1>1, TemplateStepMoves
  <2>2. req[r].tid # u
    BY <2>1 DEF TurnsTaken, TemplatePcs
  <2>3. \/ UNCHANGED templates
        \/ \E status \in TemplateStatus : \E image :
             templates' = UpdateBuildStatus(req[r].tid, status, image)
    BY <1>1 DEF TemplateStep, MarkBuilding, EnsureTemplateApp, BuildImage, MarkReady,
       MarkFailed, ReloadTemplate, TemplateStatus, db
  <2> QED
    BY <2>2, <2>3 DEF UpdateBuildStatus, TypeOK
<1>2. CASE TemplateArrival(r)
  <2>1. \/ UNCHANGED templates
        \/ \E t \in TemplateIds : templates' = [templates EXCEPT ![t] = NoRow]
        \/ \E t \in TemplateIds, org \in Orgs :
             mintedBy[t] = NoId /\ templates' = [templates EXCEPT ![t] = DraftRow(org)]
    BY <1>2 DEF TemplateArrival, CreateTemplate, ReadTemplate, ListTemplates, DeleteTemplate,
       BuildTemplate, Minted, db
  <2>2. mintedBy[u] # NoId
    <3>1. Busy(q) /\ req[q].org \in Orgs
      BY DEF TypeOK, HasTarget, TemplatePcs, Busy, Free
    <3> QED
      BY <3>1, IdsAreDistinct DEF Isolated, HandlersStayInTenant
  <2> QED
    BY <2>1, <2>2 DEF TypeOK
<1> QED
  BY <1>1, <1>2

LEMMA NextReads ==
  TypeOK /\ Isolated /\ TurnsTaken /\ ReadFits /\ [Next]_vars => ReadFits'
<1> SUFFICES ASSUME TypeOK, Isolated, TurnsTaken, ReadFits, [Next]_vars, NEW q \in Requests,
                    req'[q].pc = "markBuilding"
             PROVE  templates'[req'[q].tid] # NoRow =>
                      templates'[req'[q].tid].image = req'[q].img
  BY DEF ReadFits
<1>1. ASSUME req'[q] = req[q], \A u \in TemplateIds : u = req[q].tid =>
               templates'[u] = templates[u] \/ templates'[u] = NoRow
      PROVE  templates'[req'[q].tid] # NoRow => templates'[req'[q].tid].image = req'[q].img
  <2>1. req[q].tid \in TemplateIds
    BY <1>1 DEF TypeOK, HasTarget, TemplatePcs
  <2> QED
    BY <1>1, <2>1 DEF ReadFits
<1>2. CASE BuildTemplate(q)
  BY <1>2, BuildTemplateReads
<1>3. ASSUME NEW r \in Requests, q # r, SessionStep(r) \/ TemplateStep(r)
      PROVE  req'[q] = req[q] /\ \A u \in TemplateIds : u = req[q].tid =>
               templates'[u] = templates[u] \/ templates'[u] = NoRow
  <2>1. req'[q] = req[q]
    BY <1>3, StepKeepsTask
  <2>2. CASE TemplateStep(r)
    BY <1>3, <2>1, <2>2, OthersKeepRead
  <2>3. CASE SessionStep(r)
    BY <2>1, <2>3, SessionsLeaveTemplates
  <2> QED
    BY <1>3, <2>2, <2>3
<1>4. ASSUME NEW r \in Requests, q # r, SessionArrival(r) \/ TemplateArrival(r)
      PROVE  req'[q] = req[q] /\ \A u \in TemplateIds : u = req[q].tid =>
               templates'[u] = templates[u] \/ templates'[u] = NoRow
  <2>1. req'[q] = req[q]
    BY <1>4, SessionArrivalMoves, TemplateArrivalMoves
  <2>2. CASE TemplateArrival(r)
    BY <1>4, <2>1, <2>2, OthersKeepRead
  <2>3. CASE SessionArrival(r)
    BY <2>1, <2>3, SessionsLeaveTemplates
  <2> QED
    BY <1>4, <2>2, <2>3
<1>5. ~SessionStep(q) /\ ~TemplateStep(q) /\ ~SessionArrival(q)
  BY StepKeepsTask, SessionArrivalMoves
<1>6. TemplateArrival(q) => BuildTemplate(q)
  <2>1. ASSUME TemplateArrival(q), ~BuildTemplate(q)
        PROVE  \E op \in TemplateOps, org \in Orgs, t \in TemplateIds \cup {NoId} : \E code :
                 AnswerAtOnce(q, op, org, t, code)
    <3> USE DEF TemplateOps
    <3>1. CASE CreateTemplate(q)
      BY <3>1 DEF CreateTemplate
    <3>2. CASE ReadTemplate(q)
      BY <3>2 DEF ReadTemplate, Minted
    <3>3. CASE ListTemplates(q)
      BY <3>3 DEF ListTemplates
    <3>4. CASE DeleteTemplate(q)
      BY <3>4 DEF DeleteTemplate, Minted
    <3> QED
      BY <2>1, <3>1, <3>2, <3>3, <3>4 DEF TemplateArrival
  <2> QED
    BY <2>1, AnswerAtOnceEffect
<1>7. ~Crash
  BY DEF Crash, Idle
<1>8. CASE (\E s \in SessionIds : Autostop(s) \/ Autostart(s)) \/ UNCHANGED vars
  <2>1. UNCHANGED <<templates, req>>
    BY <1>8 DEF Autostop, Autostart, vars, db
  <2> QED
    BY <1>1, <2>1
<1> QED
  BY <1>1, <1>2, <1>3, <1>4, <1>5, <1>6, <1>7, <1>8 DEF Next, Advance

LEMMA NextKeepsImages ==
  TypeOK /\ Isolated /\ ImagesFit /\ ReadFits /\ [Next]_vars =>
    \A u \in TemplateIds : KeepsImage(u)
<1> SUFFICES ASSUME TypeOK, Isolated, ImagesFit, ReadFits, [Next]_vars,
                    NEW u \in TemplateIds
             PROVE  KeepsImage(u)
  OBVIOUS
<1>1. ASSUME UNCHANGED templates PROVE KeepsImage(u)
  BY <1>1 DEF KeepsImage
<1>2. ASSUME NEW r \in Requests, SessionStep(r) \/ SessionArrival(r) PROVE UNCHANGED templates
  BY <1>2, SessionsLeaveTemplates
<1>3. ASSUME NEW r \in Requests, TemplateStep(r) \/ TemplateArrival(r) PROVE KeepsImage(u)
  BY <1>3, TemplateStepKeepsImages, TemplateArrivalKeepsImages
<1>4. CASE \/ Crash \/ (\E s \in SessionIds : Autostop(s) \/ Autostart(s))
           \/ UNCHANGED vars
  BY <1>1, <1>4 DEF Crash, Autostop, Autostart, vars, db
<1> QED
  BY <1>1, <1>2, <1>3, <1>4 DEF Next, Advance

\* Clients that take turns do not delete a session that is still being created.
LEMMA TurnsArePatient == InTurnSpec => PatientSpec
<1>1. ASSUME InTurn PROVE Patient
  <2>1. SUFFICES ASSUME NEW r \in Requests, NEW q \in Requests,
                        Free(r), req'[r].pc \in DeletePcs,
                        req[q].pc \in CreatePcs, req[q].sid = req'[r].sid
                 PROVE  FALSE
    BY DEF Patient, Creating
  <2>2. q # r /\ {req[q].pc, req'[r].pc} \subseteq SessionPcs
    BY <2>1 DEF Free, CreatePcs, DeletePcs, SessionPcs
  <2> QED
    BY <1>1, <2>1, <2>2 DEF InTurn
<1>2. [Next /\ InTurn]_vars => [Next /\ Patient]_vars
  BY <1>1
<1> QED
  BY <1>2, PTL DEF InTurnSpec, PatientSpec

LEMMA InTurnIsSpec == InTurnSpec => Spec /\ []TurnsTaken
<1>1. Init => TurnsTaken
  BY DEF Init, TurnsTaken, Idle, SessionPcs, TemplatePcs
<1>2. [Next /\ InTurn]_vars => [Next]_vars
  OBVIOUS
<1> QED
  BY <1>1, <1>2, NextTurns, TypeCorrect, PTL DEF InTurnSpec, Spec

\* While clients take turns at building a template, it loses its image only to
\* a build that failed: marking the row writes back the reference the lookup
\* read, and nobody writes in between.  Whatever the faults, hang-ups and
\* restarts; with two builds of one template at once, the write-back takes a
\* fresh image away.
THEOREM ImagesAreKept == InTurnSpec => ImageIsKept
<1>1. Init => ReadFits
  BY DEF Init, ReadFits, Idle
<1>2. TypeOK /\ Isolated /\ TurnsTaken /\ ReadFits /\ [Next]_vars => ReadFits'
  BY NextReads
<1>3. Init => ImagesFit
  BY InitImages
<1>4. TypeOK /\ Isolated /\ ImagesFit /\ [Next]_vars => ImagesFit'
  BY NextImages
<1>5. TypeOK /\ Isolated /\ ImagesFit /\ ReadFits /\ [Next]_vars =>
        [\A t \in TemplateIds :
           (templates[t] # NoRow /\ templates'[t] # NoRow /\ templates[t].image # NoImage)
           => (templates'[t].image # NoImage \/ templates'[t].status = "failed")]_vars
  BY NextKeepsImages DEF KeepsImage
<1> QED
  BY <1>1, <1>2, <1>3, <1>4, <1>5, InTurnIsSpec, TypeCorrect, TenantsIsolated, PTL
     DEF Spec, ImageIsKept

-----------------------------------------------------------------------------
(* StatusMatchesMachine.                                                   *)

\* Nobody else at the machines, and a machine that the API does not report as
\* started or stopped was not.
StatusWorld ==
  /\ Sheltered /\ ~EdgeProxy
  /\ "lost" \notin FlyFaults["StartMachine"] \cup FlyFaults["StopMachine"]

\* Between these calls the machine is ahead of the row.
UnsettledPcs == {"setStatus", "destroyVolume", "deleteRow"}

Settled(s) == Attached(s) => (sessions[s].status = "running" <=> machines[s] = "started")

Unsettling(r, s) == req[r].pc \in UnsettledPcs /\ req[r].sid = s

StatusFits ==
  /\ \A s \in SessionIds : Settled(s) \/ \E r \in Requests : Unsettling(r, s)
  /\ \A r \in Requests :
       /\ req[r].pc = "provisioned" => machines[req[r].sid] = "started"
       /\ req[r].pc = "setStatus" =>
            (machines[req[r].sid] = "started" <=> req[r].op = "resumeSession")

\* A step of handler r, which touches at most the machine of its own session.
LEMMA StatusCarriedOver ==
  ASSUME TypeOK, TurnsTaken, StatusFits, NEW r \in Requests,
         \A q \in Requests \ {r} : req'[q] = req[q],
         \A u \in SessionIds :
           machines'[u] = machines[u] \/ (u = req[r].sid /\ req[r].pc \in SessionPcs),
         \A u \in SessionIds :
           \/ Settled(u)'
           \/ Unsettling(r, u)'
           \/ ~Unsettling(r, u) /\ (Settled(u) => Settled(u)'),
         req'[r].pc = "provisioned" => machines'[req'[r].sid] = "started",
         req'[r].pc = "setStatus" =>
           (machines'[req'[r].sid] = "started" <=> req'[r].op = "resumeSession")
  PROVE  StatusFits'
<1>1. ASSUME NEW u \in SessionIds, ~Settled(u)'
      PROVE  \E q \in Requests : Unsettling(q, u)'
  <2>1. CASE Unsettling(r, u)'
    BY <2>1
  <2>2. CASE ~Unsettling(r, u)'
    <3>1. ~Unsettling(r, u) /\ ~Settled(u)
      BY <1>1, <2>2
    <3>2. PICK q \in Requests \ {r} : Unsettling(q, u)
      BY <3>1 DEF StatusFits
    <3>3. Unsettling(q, u)'
      BY <3>2 DEF Unsettling
    <3> QED
      BY <3>3
  <2> QED
    BY <2>1, <2>2
<1>2. ASSUME NEW q \in Requests, q # r, req[q].pc \in {"provisioned", "setStatus"}
      PROVE  machines'[req[q].sid] = machines[req[q].sid]
  <2>1. req[q].pc \in SessionPcs /\ req[q].sid \in SessionIds
    BY <1>2 DEF TypeOK, HasTarget, SessionPcs
  <2>2. ~(req[q].sid = req[r].sid /\ req[r].pc \in SessionPcs)
    BY <1>2, <2>1 DEF TurnsTaken
  <2> QED
    BY <2>1, <2>2
<1>3. \A q \in Requests : /\ req'[q].pc = "provisioned" => machines'[req'[q].sid] = "started"
                          /\ req'[q].pc = "setStatus" =>
                               (machines'[req'[q].sid] = "started" <=> req'[q].op = "resumeSession")
  BY <1>2 DEF StatusFits
<1> QED
  BY <1>1, <1>3 DEF StatusFits

\* A step that starts and ends with the machine and the row in agreement.
LEMMA StatusUntouched ==
  ASSUME TypeOK, TurnsTaken, StatusFits, NEW r \in Requests,
         \A q \in Requests \ {r} : req'[q] = req[q],
         machines' = machines,
         \A u \in SessionIds : Settled(u) => Settled(u)',
         req[r].pc \notin UnsettledPcs,
         req'[r].pc \notin {"provisioned", "setStatus"}
  PROVE  StatusFits'
BY StatusCarriedOver DEF Unsettling

LEMMA SettledStays ==
  ASSUME NEW u \in SessionIds, machines'[u] = machines[u],
         sessions'[u] = sessions[u] \/ sessions'[u] = NoRow
  PROVE  Settled(u) => Settled(u)'
BY DEF Settled, Attached, Named, Stored

\* A session being created has no ids yet, whatever happens to its machine.
LEMMA CreatingIsSettled ==
  ASSUME TypeOK, SessionsFit, NEW r \in Requests, req[r].pc \in CreatePcs,
         NEW s \in SessionIds, s = req[r].sid
  PROVE  ~Attached(s)
BY CreatorsHaveNoIds DEF Attached, Named

LEMMA CreationStatus ==
  ASSUME TypeOK, SessionsFit, TurnsTaken, StatusFits, NEW r \in Requests,
         \/ InsertSession(r) \/ EnsureSessionApp(r) \/ CreateVolume(r)
         \/ UndoVolume(r) \/ FailSession(r)
  PROVE  StatusFits'
<1> DEFINE s == req[r].sid
<1>1. req[r].pc \in CreatePcs \ {"provisioned"} /\ machines' = machines
  BY DEF InsertSession, EnsureSessionApp, CreateVolume, UndoVolume, FailSession, CreatePcs, fly
<1>2. PICK i \in SessionIds : i = s
  BY <1>1, AtWorkHasSession
<1>3. ~Attached(i)
  BY <1>1, <1>2, CreatingIsSettled
<1>4. /\ req'[r].pc \in {"ensureSessionApp", "failSession", "createVolume", "createMachine", "done"}
      /\ \A q \in Requests \ {r} : req'[q] = req[q]
  <2>1. \/ \E pc \in {"ensureSessionApp", "failSession", "createVolume", "createMachine"} :
             Goes(r, pc)
        \/ \E code : Answer(r, code)
    BY ZenonT(60) DEF InsertSession, EnsureSessionApp, CreateVolume, UndoVolume, FailSession, Goes
  <2> QED
    BY <2>1, GoesEffect, AnswerEffect
<1>5. \/ sessions' = sessions
      \/ sessions' = [sessions EXCEPT ![i] = PendingRow(req[r].org, req[r].tid)]
      \/ sessions' = SetStatus(i, "error")
  BY <1>2 DEF InsertSession, EnsureSessionApp, CreateVolume, UndoVolume, FailSession, db
<1>6. \A u \in SessionIds \ {i} : sessions'[u] = sessions[u]
  BY <1>5 DEF SetStatus, TypeOK
<1>7. ~Attached(i)'
  <2>1. CASE sessions' = sessions
    BY <1>3, <2>1 DEF Attached, Named, Stored
  <2>2. CASE sessions' = [sessions EXCEPT ![i] = PendingRow(req[r].org, req[r].tid)]
    <3>1. sessions'[i] = PendingRow(req[r].org, req[r].tid)
      BY <2>2 DEF TypeOK
    <3> QED
      BY <3>1 DEF PendingRow, Attached, Named
  <2>3. CASE sessions' = SetStatus(i, "error")
    <3>1. sessions[i] = NoRow => sessions'[i] = NoRow
      BY <2>3 DEF SetStatus, TypeOK
    <3>2. CASE sessions[i] # NoRow
      <4>1. /\ sessions[i] \in SessionRow
            /\ sessions'[i] = [sessions[i] EXCEPT !.status = "error"]
        BY <2>3, <3>2 DEF SetStatus, TypeOK
      <4>2. sessions'[i].ids = sessions[i].ids
        BY <4>1 DEF SessionRow
      <4> QED
        BY <1>3, <3>2, <4>2 DEF Attached, Named, Stored
    <3> QED
      BY <3>1, <3>2 DEF Attached, Named, Stored
  <2> QED
    BY <1>5, <2>1, <2>2, <2>3
<1>8. \A u \in SessionIds : Settled(u) => Settled(u)'
  BY <1>1, <1>6, <1>7, SettledStays DEF Settled
<1>9. req[r].pc \notin UnsettledPcs
  BY <1>1 DEF CreatePcs, UnsettledPcs
<1> QED
  BY <1>1, <1>4, <1>8, <1>9, StatusUntouched

LEMMA CreateMachineStatus ==
  ASSUME TypeOK, SessionsFit, TurnsTaken, StatusFits, NEW r \in Requests, CreateMachine(r)
  PROVE  StatusFits'
<1> DEFINE s == req[r].sid
<1>1. PICK x \in CreateMachineReplies(r) :
        /\ machines' = IF x.applied THEN [machines EXCEPT ![s] = "started"] ELSE machines
        /\ \E told : GoOn(r, IF x.failed THEN "undoVolume" ELSE "provisioned", x, "machine", told)
  BY DEF CreateMachine, AskForMachine
<1>2. req[r].pc = "createMachine" /\ UNCHANGED sessions
  BY DEF CreateMachine, AskForMachine, db
<1>3. PICK i \in SessionIds : i = s
  BY <1>2 DEF TypeOK, HasTarget, SessionPcs
<1>4. /\ req'[r].pc = IF x.failed THEN "undoVolume" ELSE "provisioned"
      /\ req'[r].sid = s
      /\ \A q \in Requests \ {r} : req'[q] = req[q]
  <2> DEFINE pc == IF x.failed THEN "undoVolume" ELSE "provisioned"
  <2>1. Goes(r, pc)
    BY <1>1 DEF Goes
  <2> HIDE DEF pc
  <2>2. req'[r].pc = pc /\ req'[r].sid = s /\ \A q \in Requests \ {r} : req'[q] = req[q]
    BY <2>1, GoesEffect
  <2> QED
    BY <2>2 DEF pc
<1>5. ~x.failed => machines'[i] = "started"
  BY <1>1, <1>3, CarriedOut DEF TypeOK, CreateMachineReplies
<1>6. ~Attached(i)'
  BY <1>2, <1>3, CreatingIsSettled DEF CreatePcs, Attached, Named, Stored
<1>7. \A u \in SessionIds \ {i} : machines'[u] = machines[u]
  BY <1>1, <1>3 DEF TypeOK
<1>8. \A u \in SessionIds : Settled(u) => Settled(u)'
  BY <1>2, <1>6, <1>7, SettledStays DEF Settled
<1>9. ~\E u \in SessionIds : Unsettling(r, u)
  BY <1>2 DEF Unsettling, UnsettledPcs
<1>10. req'[r].pc = "provisioned" => machines'[req'[r].sid] = "started"
  BY <1>3, <1>4, <1>5
<1> QED
  BY <1>2, <1>3, <1>4, <1>7, <1>8, <1>9, <1>10, StatusCarriedOver DEF SessionPcs

\* The row says running when its machine has been started.
LEMMA ProvisionedStatus ==
  ASSUME StatusWorld, TypeOK, ClientsStay, TurnsTaken, StatusFits, NEW r \in Requests, Provisioned(r)
  PROVE  StatusFits'
<1> DEFINE s == req[r].sid
<1>1. PICK x \in Queried(req[r].live) :
        /\ sessions' = IF x.applied THEN MarkProvisioned(s, req[r].ids) ELSE sessions
        /\ IF x.failed THEN Answer(r, 500) ELSE GoTo(r, "reloadSession", x)
  BY DEF Provisioned
<1>2. req[r].pc = "provisioned" /\ UNCHANGED machines
  BY DEF Provisioned, fly
<1>3. PICK i \in SessionIds : i = s
  BY <1>2 DEF TypeOK, HasTarget, SessionPcs
<1>4. sessions' = MarkProvisioned(i, req[r].ids)
  BY <1>1, <1>3, ShelteredQuery DEF StatusWorld
<1>5. machines'[i] = "started"
  BY <1>2, <1>3 DEF StatusFits
<1>6. Settled(i)'
  <2>1. sessions[i] = NoRow => sessions'[i] = NoRow
    BY <1>4 DEF MarkProvisioned, TypeOK
  <2>2. CASE sessions[i] # NoRow
    <3>1. /\ sessions[i] \in SessionRow
          /\ sessions'[i] = [sessions[i] EXCEPT !.status = "running",
                                                   !.ids = req[r].ids \cup {"app"}]
      BY <1>4, <2>2 DEF MarkProvisioned, TypeOK
    <3>2. sessions'[i].status = "running"
      BY <3>1 DEF SessionRow
    <3> QED
      BY <1>5, <3>2 DEF Settled
  <2> QED
    BY <2>1, <2>2 DEF Settled, Attached, Named, Stored
<1>7. \A u \in SessionIds : Settled(u) => Settled(u)'
  <2>1. \A u \in SessionIds \ {i} : sessions'[u] = sessions[u]
    BY <1>4 DEF MarkProvisioned, TypeOK
  <2> QED
    BY <1>2, <1>6, <2>1, SettledStays
<1>8. req'[r].pc \in {"done", "reloadSession"} /\ \A q \in Requests \ {r} : req'[q] = req[q]
  BY <1>1, GoToEffect, AnswerEffect
<1> QED
  BY <1>2, <1>7, <1>8, StatusUntouched DEF UnsettledPcs

\* The machine goes first; a call that failed has not moved it.
LEMMA PowerStatus ==
  ASSUME StatusWorld, TypeOK, ClientsStay, TurnsTaken, StatusFits, NEW r \in Requests, Power(r)
  PROVE  StatusFits'
<1> DEFINE s == req[r].sid
           call == IF req[r].op = "resumeSession" THEN "StartMachine" ELSE "StopMachine"
           to == IF call = "StartMachine" THEN "started" ELSE "stopped"
<1>1. PICK x \in Replies(req[r].live, FlyFaults[call], machines[s] # "none") :
        /\ machines' = IF x.applied THEN [machines EXCEPT ![s] = to] ELSE machines
        /\ IF x.failed THEN Answer(r, 500) ELSE GoTo(r, "setStatus", x)
  BY DEF Power
<1>2. req[r].pc = "power" /\ UNCHANGED sessions
  BY DEF Power, db
<1>3. PICK i \in SessionIds : i = s
  BY <1>2 DEF TypeOK, HasTarget, SessionPcs
<1>4. ~Unsettling(r, i) /\ \A u \in SessionIds : ~Unsettling(r, u)
  BY <1>2 DEF Unsettling, UnsettledPcs
<1>5. CASE x.failed
  <2>1. "lost" \notin FlyFaults[call]
    BY DEF StatusWorld
  <2>2. ~x.applied
    BY <1>1, <1>5, <2>1, RefusedMeansNotDone DEF StatusWorld, ClientsStay
  <2>3. \A u \in SessionIds : Settled(u) => Settled(u)'
    BY <1>1, <1>2, <2>2, SettledStays
  <2>4. req'[r].pc = "done" /\ \A q \in Requests \ {r} : req'[q] = req[q]
    BY <1>1, <1>5, AnswerEffect
  <2> QED
    BY <1>1, <1>2, <2>2, <2>3, <2>4, StatusUntouched DEF UnsettledPcs
<1>6. CASE ~x.failed
  <2>1. x.applied
    BY <1>1, <1>6, CarriedOut
  <2>2. machines'[i] = to /\ \A u \in SessionIds \ {i} : machines'[u] = machines[u]
    BY <1>1, <1>3, <2>1 DEF TypeOK
  <2>3. /\ req'[r].pc = "setStatus" /\ req'[r].sid = i /\ req'[r].op = req[r].op
        /\ \A q \in Requests \ {r} : req'[q] = req[q]
    BY <1>1, <1>3, <1>6, GoToEffect
  <2>4. machines'[i] = "started" <=> req'[r].op = "resumeSession"
    BY <2>2, <2>3
  <2>5. Unsettling(r, i)'
    BY <2>3 DEF Unsettling, UnsettledPcs
  <2>6. \A u \in SessionIds \ {i} : Settled(u) => Settled(u)'
    BY <1>2, <2>2, SettledStays
  <2> QED
    BY <1>2, <1>3, <1>4, <2>2, <2>3, <2>4, <2>5, <2>6, StatusCarriedOver DEF SessionPcs
<1> QED
  BY <1>5, <1>6

\* The row follows.
LEMMA RecordPowerStatus ==
  ASSUME StatusWorld, TypeOK, ClientsStay, TurnsTaken, StatusFits, NEW r \in Requests, RecordPower(r)
  PROVE  StatusFits'
<1> DEFINE s == req[r].sid
           status == IF req[r].op = "resumeSession" THEN "running" ELSE "suspended"
<1>1. PICK x \in Queried(req[r].live) :
        /\ sessions' = IF x.applied THEN SetStatus(s, status) ELSE sessions
        /\ GoTo(r, "reloadSession", x)
  BY DEF RecordPower
<1>2. req[r].pc = "setStatus" /\ UNCHANGED machines
  BY DEF RecordPower, fly
<1>3. PICK i \in SessionIds : i = s
  BY <1>2 DEF TypeOK, HasTarget, SessionPcs
<1>4. sessions' = SetStatus(i, status)
  BY <1>1, <1>3, ShelteredQuery DEF StatusWorld
<1>5. machines'[i] = "started" <=> status = "running"
  BY <1>2, <1>3 DEF StatusFits
<1>6. Settled(i)'
  <2>1. sessions[i] = NoRow => sessions'[i] = NoRow
    BY <1>4 DEF SetStatus, TypeOK
  <2>2. CASE sessions[i] # NoRow
    <3>1. /\ sessions[i] \in SessionRow
          /\ sessions'[i] = [sessions[i] EXCEPT !.status = status]
      BY <1>4, <2>2 DEF SetStatus, TypeOK
    <3>2. sessions'[i].status = status
      BY <3>1 DEF SessionRow
    <3> QED
      BY <1>5, <3>2 DEF Settled
  <2> QED
    BY <2>1, <2>2 DEF Settled, Attached, Named, Stored
<1>7. \A u \in SessionIds \ {i} : ~Unsettling(r, u) /\ (Settled(u) => Settled(u)')
  <2>1. \A u \in SessionIds \ {i} : sessions'[u] = sessions[u]
    BY <1>4 DEF SetStatus, TypeOK
  <2> QED
    BY <1>2, <1>3, <2>1, SettledStays DEF Unsettling
<1>8. req'[r].pc = "reloadSession" /\ \A q \in Requests \ {r} : req'[q] = req[q]
  BY <1>1, GoToEffect
<1> QED
  BY <1>2, <1>6, <1>7, <1>8, StatusCarriedOver

\* From the machine to the row, a deletion goes through.
LEMMA DeletionStatus ==
  ASSUME StatusWorld, TypeOK, Isolated, ClientsStay, TurnsTaken, StatusFits,
         NEW r \in Requests,
         DestroyMachine(r) \/ DestroyVolume(r) \/ DeleteRow(r)
  PROVE  StatusFits'
<1> DEFINE s == req[r].sid
<1>1. req[r].pc \in {"destroyMachine", "destroyVolume", "deleteRow"}
  BY DEF DestroyMachine, DestroyVolume, DeleteRow
<1>2. PICK i \in SessionIds : i = s
  BY <1>1 DEF TypeOK, HasTarget, SessionPcs
<1>3. \A u \in SessionIds \ {i} : ~Unsettling(r, u)
  BY <1>2 DEF Unsettling
<1>4. CASE DestroyMachine(r) \/ DestroyVolume(r)
  <2>1. \E pc \in {"destroyVolume", "deleteRow"} : \E x : GoTo(r, pc, x)
    <3>1. Destruction(req[r].ids) \in {"destroyVolume", "deleteRow"}
      BY DEF Destruction
    <3> QED
      BY <1>4, <3>1 DEF DestroyMachine, DestroyVolume
  <2>2. /\ req'[r].pc \in {"destroyVolume", "deleteRow"} /\ req'[r].sid = i
        /\ \A q \in Requests \ {r} : req'[q] = req[q]
    BY <1>2, <2>1, GoToEffect
  <2>3. /\ UNCHANGED sessions
        /\ machines' = machines \/ machines' = [machines EXCEPT ![i] = "none"]
    BY <1>2, <1>4 DEF DestroyMachine, DestroyVolume, db
  <2>4. \A u \in SessionIds \ {i} : machines'[u] = machines[u]
    BY <2>3 DEF TypeOK
  <2>5. \A u \in SessionIds \ {i} : Settled(u) => Settled(u)'
    BY <2>3, <2>4, SettledStays
  <2>6. Unsettling(r, i)'
    BY <2>2 DEF Unsettling, UnsettledPcs
  <2> QED
    BY <1>1, <1>2, <1>3, <2>2, <2>4, <2>5, <2>6, StatusCarriedOver DEF SessionPcs
<1>5. CASE DeleteRow(r)
  <2>1. /\ sessions'[i] = NoRow
        /\ \A u \in SessionIds \ {i} : sessions'[u] = sessions[u]
        /\ req'[r].pc = "done"
        /\ \A q \in Requests \ {r} : req'[q] = req[q]
    BY <1>2, <1>5, DeleteRowRemoves DEF StatusWorld
  <2>2. UNCHANGED machines
    BY <1>5 DEF DeleteRow, fly
  <2>3. Settled(i)'
    BY <2>1 DEF Settled, Attached, Named, Stored
  <2>4. \A u \in SessionIds \ {i} : Settled(u) => Settled(u)'
    BY <2>1, <2>2, SettledStays
  <2> QED
    BY <1>3, <2>1, <2>2, <2>3, <2>4, StatusCarriedOver
<1> QED
  BY <1>4, <1>5

LEMMA NextStatus ==
  ASSUME StatusWorld
  PROVE  /\ TypeOK /\ Isolated /\ SessionsFit /\ ClientsStay /\ TurnsTaken /\ StatusFits
         /\ [Next]_vars
         => StatusFits'
<1> SUFFICES ASSUME TypeOK, Isolated, SessionsFit, ClientsStay, TurnsTaken, StatusFits,
                    [Next]_vars
             PROVE  StatusFits'
  OBVIOUS
<1>1. ASSUME NEW r \in Requests, ReloadSession(r) \/ TemplateStep(r) PROVE StatusFits'
  <2>1. req[r].pc \notin UnsettledPcs /\ req'[r].pc \notin {"provisioned", "setStatus"}
    <3>1. CASE ReloadSession(r)
      <4>1. req[r].pc = "reloadSession" /\ \E code : Answer(r, code)
        BY <3>1 DEF ReloadSession
      <4> QED
        BY <4>1, AnswerEffect DEF UnsettledPcs
    <3>2. CASE TemplateStep(r)
      BY <3>2, TemplateStepMoves DEF TemplatePcs, UnsettledPcs
    <3> QED
      BY <1>1, <3>1, <3>2
  <2>2. UNCHANGED <<sessions, machines>> /\ \A q \in Requests \ {r} : req'[q] = req[q]
    <3>1. UNCHANGED <<sessions, machines>>
      BY <1>1, TemplateStepChangesNothing DEF ReloadSession, db, fly
    <3>2. SessionStep(r) \/ TemplateStep(r)
      BY <1>1 DEF SessionStep
    <3> QED
      BY <3>1, <3>2, StepKeepsTask
  <2>3. \A u \in SessionIds : Settled(u) => Settled(u)'
    BY <2>2, SettledStays
  <2> QED
    BY <2>1, <2>2, <2>3, StatusUntouched
<1>2. ASSUME NEW r \in Requests, SessionStep(r) PROVE StatusFits'
  BY <1>1, <1>2, CreationStatus, CreateMachineStatus, ProvisionedStatus, PowerStatus,
     RecordPowerStatus, DeletionStatus DEF SessionStep
<1>3. ASSUME NEW r \in Requests, SessionArrival(r) \/ TemplateArrival(r) PROVE StatusFits'
  <2>1. req[r].pc \notin UnsettledPcs
    BY <1>3, ArrivesFree DEF UnsettledPcs
  <2>2. req'[r].pc \notin {"provisioned", "setStatus"} /\ \A q \in Requests \ {r} : req'[q] = req[q]
    BY <1>3, SessionArrivalMoves, TemplateArrivalMoves
  <2>3. UNCHANGED machines
    BY <1>3, ArrivalChangesNothing
  <2>4. \A u \in SessionIds : sessions'[u] = sessions[u] \/ sessions'[u] = NoRow
    <3>1. CASE UNCHANGED sessions
      BY <3>1
    <3>2. CASE DeleteTemplate(r)
      <4>1. sessions' = sessions \/ \E t : sessions' = Cascade(t)
        BY <3>2 DEF DeleteTemplate
      <4> QED
        BY <4>1 DEF Cascade
    <3> QED
      BY <1>3, <3>1, <3>2, ArrivalChangesNothing
  <2>5. \A u \in SessionIds : Settled(u) => Settled(u)'
    BY <2>3, <2>4, SettledStays
  <2> QED
    BY <2>1, <2>2, <2>3, <2>5, StatusUntouched
<1>4. ~Crash /\ ~\E s \in SessionIds : Autostop(s) \/ Autostart(s)
  BY DEF Crash, Autostop, Autostart, StatusWorld, Sheltered
<1>5. CASE UNCHANGED vars
  <2>1. UNCHANGED <<sessions, machines, req>>
    BY <1>5 DEF vars
  <2> QED
    BY <2>1 DEF StatusFits, Settled, Attached, Named, Stored, Unsettling
<1> QED
  BY <1>1, <1>2, <1>3, <1>4, <1>5 DEF Next, Advance

\* While no request is at work on a session, its status column tells the state
\* of its machine, although the machine is moved first, by a call that may be
\* refused, and the row after it, by a statement whose error nobody reads.  What
\* it takes is that the requests for one session take turns, a database that
\* answers, clients that wait and a Fly proxy that leaves the machines alone;
\* whatever happens to other sessions meanwhile.
THEOREM StatusIsTrue ==
  ASSUME StatusWorld
  PROVE  InTurnSpec => []StatusMatchesMachine
<1>1. Init => StatusFits
  BY DEF Init, StatusFits, Settled, Attached, Named, Stored, Idle
<1>2. TypeOK /\ Isolated /\ SessionsFit /\ ClientsStay /\ TurnsTaken /\ StatusFits /\ [Next]_vars
        => StatusFits'
  BY NextStatus
<1>3. Spec => []ClientsStay
  BY ClientsDoStay DEF StatusWorld
<1>4. StatusFits => StatusMatchesMachine
  <2>1. ASSUME NEW s \in SessionIds, NEW r \in Requests, Unsettling(r, s) PROVE Using(s)
    BY <2>1 DEF Unsettling, UnsettledPcs, Using, SessionPcs
  <2> QED
    BY <2>1 DEF StatusFits, StatusMatchesMachine, Settled
<1> QED
  BY <1>1, <1>2, <1>3, <1>4, InTurnIsSpec, SessionsStayFit, PTL DEF Spec
=============================================================================
