-------------------------- MODULE ControlPlaneProofs --------------------------
(***************************************************************************)
(* Theorems about ControlPlane for any number of requests, tenants,        *)
(* sessions and templates, any faults, hang-ups and restarts.              *)
(***************************************************************************)
EXTENDS ControlPlane, CallProofs

-----------------------------------------------------------------------------
(* Lemmas about the building blocks.                                       *)

LEMMA QueriedType ==
  ASSUME NEW live, NEW x \in Queried(live)
  PROVE  x \in Reply /\ x.live \in BOOLEAN
BY CertainReplyType DEF Queried

\* And for the first query of a handler, whose client is there.
LEMMA FirstReplyType ==
  ASSUME NEW x \in Queried(TRUE)
  PROVE  x \in Reply /\ x.live \in BOOLEAN
<1>1. x \in {Done, Refused, Lost, HungUp(TRUE), HungUp(FALSE)}
  BY DEF Queried, Replies
<1>2. x \in Reply
  BY <1>1, ReplyKinds
<1> QED
  BY <1>2 DEF Reply

\* The requests' part of TypeOK.
RequestsOK ==
  /\ req \in [Requests -> Request]
  /\ \A r \in Requests : HasTarget(req[r])

LEMMA IdleType == Idle \in Request
BY DEF Idle, Request, Pcs, Images, Codes

LEMMA AcceptType ==
  ASSUME NEW op \in SessionOps \cup TemplateOps, NEW org \in Orgs,
         NEW s \in SessionIds \cup {NoId}, NEW t \in TemplateIds \cup {NoId},
         NEW x, x.live \in BOOLEAN
  PROVE  /\ Accept(op, org, s, t, x) \in Request
         /\ Accept(op, org, s, t, x).org = org
         /\ Accept(op, org, s, t, x).sid = s
         /\ Accept(op, org, s, t, x).tid = t
         /\ Accept(op, org, s, t, x).op = op
BY IdleType DEF Accept, Request, Idle

\* One handler replaced by a well-formed record keeps all well-formed.
LEMMA UpdateType ==
  ASSUME RequestsOK, NEW r \in Requests, NEW q \in Request, HasTarget(q),
         req' = [req EXCEPT ![r] = q]
  PROVE  RequestsOK'
BY DEF RequestsOK

\* Going on to the next call of the same route keeps the target.
LEMMA GoToType ==
  ASSUME RequestsOK, NEW r \in Requests, NEW pc, NEW x, x.live \in BOOLEAN,
         \/ pc \in SessionPcs \ {"insertSession"} /\ req[r].pc \in SessionPcs
         \/ pc \in TemplatePcs /\ req[r].pc \in TemplatePcs,
         GoTo(r, pc, x)
  PROVE  RequestsOK'
<1> DEFINE q == [req[r] EXCEPT !.pc = pc, !.live = x.live]
<1>1. req[r] \in Request /\ HasTarget(req[r])
  BY DEF RequestsOK
<1>2. q \in Request
  BY <1>1 DEF Request, Pcs
<1>3. q.pc = pc /\ q.org = req[r].org /\ q.sid = req[r].sid /\ q.tid = req[r].tid
  BY <1>1 DEF Request
<1>4. HasTarget(q)
  BY <1>1, <1>3 DEF HasTarget, SessionPcs, TemplatePcs
<1>5. req' = [req EXCEPT ![r] = q]
  BY <1>1 DEF GoTo, RequestsOK, Request
<1> QED
  BY <1>2, <1>4, <1>5, UpdateType

\* So does going on after a creation whose reply told an id, or did not.
LEMMA GoOnType ==
  ASSUME RequestsOK, NEW r \in Requests, NEW pc, NEW x, x.live \in BOOLEAN,
         NEW what \in FlyIds, NEW told,
         pc \in SessionPcs \ {"insertSession"} /\ req[r].pc \in SessionPcs,
         GoOn(r, pc, x, what, told)
  PROVE  RequestsOK'
<1> DEFINE ids == IF told THEN req[r].ids \cup {what} ELSE req[r].ids
           q == [req[r] EXCEPT !.pc = pc, !.live = x.live, !.ids = ids]
<1>1. req[r] \in Request /\ HasTarget(req[r])
  BY DEF RequestsOK
<1>2. ids \in SUBSET FlyIds
  BY <1>1 DEF Request
<1>3. req' = [req EXCEPT ![r] = q]
  BY <1>1 DEF GoOn, RequestsOK, Request
<1> HIDE DEF ids
<1>4. q \in Request
  BY <1>1, <1>2 DEF Request, Pcs
<1>5. q.pc = pc /\ q.org = req[r].org /\ q.sid = req[r].sid /\ q.tid = req[r].tid
  BY <1>1 DEF Request
<1>6. HasTarget(q)
  BY <1>1, <1>5 DEF HasTarget, SessionPcs, TemplatePcs
<1> QED
  BY <1>3, <1>4, <1>6, UpdateType

LEMMA DoneHasTarget == ASSUME NEW q, q.pc = "done" PROVE HasTarget(q)
BY DEF HasTarget, SessionPcs, TemplatePcs

LEMMA AnswerType ==
  ASSUME RequestsOK, NEW r \in Requests, NEW code \in Codes, Answer(r, code)
  PROVE  RequestsOK'
<1> DEFINE q == [req[r] EXCEPT !.pc = "done", !.ans = code,
                               !.img = NoImage, !.ids = {}, !.live = TRUE]
<1>1. "done" \in Pcs /\ NoImage \in Images /\ req[r] \in Request
  BY DEF Pcs, Images, RequestsOK
<1>2. q \in Request
  BY <1>1 DEF Request
<1>3. HasTarget(q)
  BY <1>1, DoneHasTarget DEF Request
<1>4. req' = [req EXCEPT ![r] = q]
  BY <1>1 DEF Answer, Request, RequestsOK
<1> QED
  BY <1>2, <1>3, <1>4, UpdateType

LEMMA AnswerAtOnceType ==
  ASSUME RequestsOK, NEW r \in Requests,
         NEW op \in TemplateOps, NEW org \in Orgs,
         NEW t \in TemplateIds \cup {NoId}, NEW code \in Codes,
         AnswerAtOnce(r, op, org, t, code)
  PROVE  RequestsOK'
<1> DEFINE q == [Accept(op, org, NoId, t, Done) EXCEPT !.pc = "done", !.ans = code]
<1>1. Done.live \in BOOLEAN
  BY DEF Done
<1>2. Accept(op, org, NoId, t, Done) \in Request
  BY <1>1, AcceptType
<1>3. q \in Request /\ q.pc = "done"
  BY <1>2 DEF Request, Pcs
<1> QED
  BY <1>3, DoneHasTarget, UpdateType DEF AnswerAtOnce

\* The tables after the by-id updates.
LEMMA SetStatusType ==
  ASSUME sessions \in [SessionIds -> SessionRow \cup {NoRow}],
         NEW s \in SessionIds, NEW status \in SessionStatus
  PROVE  SetStatus(s, status) \in [SessionIds -> SessionRow \cup {NoRow}]
BY DEF SetStatus, SessionRow

LEMMA MarkProvisionedType ==
  ASSUME sessions \in [SessionIds -> SessionRow \cup {NoRow}], NEW s \in SessionIds,
         NEW ids \in SUBSET FlyIds
  PROVE  MarkProvisioned(s, ids) \in [SessionIds -> SessionRow \cup {NoRow}]
BY DEF MarkProvisioned, SessionRow, SessionStatus, FlyIds

LEMMA UpdateBuildStatusType ==
  ASSUME templates \in [TemplateIds -> TemplateRow \cup {NoRow}],
         NEW t \in TemplateIds, NEW status \in TemplateStatus, NEW image \in Images
  PROVE  UpdateBuildStatus(t, status, image) \in [TemplateIds -> TemplateRow \cup {NoRow}]
BY DEF UpdateBuildStatus, TemplateRow

LEMMA MapErrorType == ASSUME NEW e PROVE MapError(e) \in Codes
BY DEF MapError, Codes
-----------------------------------------------------------------------------
(* TypeOK is inductive: one step per action.                               *)

\* The database's and Fly's part of TypeOK.
DatabaseOK ==
  /\ sessions \in [SessionIds -> SessionRow \cup {NoRow}]
  /\ templates \in [TemplateIds -> TemplateRow \cup {NoRow}]
  /\ mintedBy \in [SessionIds \cup TemplateIds -> Orgs \cup {NoId}]

FlyOK ==
  /\ apps \subseteq SessionIds \cup TemplateIds
  /\ volumes \subseteq SessionIds
  /\ machines \in [SessionIds -> MachineState]
  /\ boots \in [SessionIds -> Images]
  /\ registry \subseteq TemplateIds
  /\ astray \subseteq SessionIds

LEMMA TypeParts == TypeOK <=> DatabaseOK /\ FlyOK /\ RequestsOK
BY DEF TypeOK, DatabaseOK, FlyOK, RequestsOK

LEMMA TypePartsPrimed == TypeOK' <=> DatabaseOK' /\ FlyOK' /\ RequestsOK'
BY DEF TypeOK, DatabaseOK, FlyOK, RequestsOK

LEMMA DatabaseUnchanged == DatabaseOK /\ UNCHANGED db => DatabaseOK'
BY DEF DatabaseOK, db

LEMMA FlyUnchanged == FlyOK /\ UNCHANGED fly => FlyOK'
BY DEF FlyOK, fly

LEMMA StraysType ==
  ASSUME astray \subseteq SessionIds, NEW s \in SessionIds, NEW so, StraysIf(s, so)
  PROVE  astray' \subseteq SessionIds
BY DEF StraysIf

LEMMA ImageToBootType ==
  ASSUME NEW tpl \in TemplateRow PROVE ImageToBoot(tpl) \in Images
BY DEF ImageToBoot, TemplateRow, Images

\* What the lookups return is a row of the right type, or none.
LEMMA GetTemplateType ==
  ASSUME DatabaseOK, NEW org, NEW t \in TemplateIds, NEW x
  PROVE  GetTemplate(org, t, x) \in TemplateRow \cup {NoRow}
BY DEF GetTemplate, DatabaseOK

\* A step of a handler of a session route keeps the types.
LEMMA SessionStepType ==
  ASSUME TypeOK, NEW r \in Requests, SessionStep(r)
  PROVE  TypeOK'
<1> USE TypeParts, TypePartsPrimed
<1> DEFINE s == req[r].sid
<1>0. /\ req[r].pc \in SessionPcs => s \in SessionIds /\ req[r].org \in Orgs
      /\ req[r].pc = "insertSession" => req[r].tid \in TemplateIds
      /\ req[r] \in Request
  BY DEF RequestsOK, HasTarget
<1>c. 0 \in Codes /\ 200 \in Codes /\ 201 \in Codes /\ 204 \in Codes /\ 404 \in Codes /\ 500 \in Codes
  BY DEF Codes
<1>1. ASSUME InsertSession(r) PROVE TypeOK'
  <2>1. PICK x \in Replies(req[r].live, DbFaults, templates[req[r].tid] # NoRow) :
          /\ sessions' = IF x.applied
                         THEN [sessions EXCEPT ![s] = PendingRow(req[r].org, req[r].tid)]
                         ELSE sessions
          /\ IF ~x.failed /\ Readable(PendingRow(req[r].org, req[r].tid))
             THEN GoTo(r, "ensureSessionApp", x)
             ELSE Answer(r, 500)
    BY <1>1 DEF InsertSession
  <2>2. /\ req[r].pc = "insertSession" /\ UNCHANGED <<templates, mintedBy, fly>>
        /\ x.live \in BOOLEAN
        /\ req[r].pc \in SessionPcs
    BY <1>1, <2>1, ReplyType DEF InsertSession, SessionPcs
  <2>3. PendingRow(req[r].org, req[r].tid) \in SessionRow
    BY <1>0, <2>2 DEF PendingRow, SessionRow, SessionStatus
  <2>4. DatabaseOK'
    BY <2>1, <2>2, <2>3 DEF DatabaseOK
  <2>5. RequestsOK'
    BY <1>c, <2>1, <2>2, GoToType, AnswerType DEF SessionPcs
  <2> QED
    BY <2>2, <2>4, <2>5, FlyUnchanged
<1>2. ASSUME EnsureSessionApp(r) PROVE TypeOK'
  <2>1. PICK x \in Replies(req[r].live, FlyFaults["EnsureApp"], TRUE) :
          /\ apps' = IF x.applied THEN apps \cup {s} ELSE apps
          /\ GoTo(r, IF x.failed THEN "failSession" ELSE "createVolume", x)
    BY <1>2 DEF EnsureSessionApp
  <2>2. /\ req[r].pc = "ensureSessionApp" /\ UNCHANGED <<db, volumes, machines, boots, registry, astray>>
        /\ x.live \in BOOLEAN
        /\ req[r].pc \in SessionPcs
    BY <1>2, <2>1, CertainReplyType DEF EnsureSessionApp, SessionPcs
  <2>a. s \in SessionIds /\ (apps' = apps \/ apps' = apps \cup {s})
    BY <1>0, <2>1, <2>2
  <2>3. FlyOK'
    BY <2>2, <2>a DEF FlyOK
  <2>4. RequestsOK'
    BY <2>1, <2>2, GoToType DEF SessionPcs
  <2> QED
    BY <2>2, <2>3, <2>4, DatabaseUnchanged
<1>3. ASSUME CreateVolume(r) PROVE TypeOK'
  <2>1. PICK x \in Replies(req[r].live, FlyFaults["CreateVolume"], s \in apps) :
          \E told \in Told(x, FlyFaults["CreateVolume"]) :
            /\ volumes' = IF x.applied THEN volumes \cup {s} ELSE volumes
            /\ StraysIf(s, x.applied /\ ~told)
            /\ GoOn(r, IF x.failed THEN "failSession" ELSE "createMachine", x, "volume", told)
    BY <1>3 DEF CreateVolume
  <2>2. /\ req[r].pc = "createVolume" /\ UNCHANGED <<db, apps, machines, boots, registry>>
        /\ x.live \in BOOLEAN
        /\ req[r].pc \in SessionPcs
    BY <1>3, <2>1, ReplyType DEF CreateVolume, SessionPcs
  <2>3. FlyOK'
    BY <1>0, <2>1, <2>2, StraysType DEF FlyOK
  <2>4. RequestsOK'
    BY <2>1, <2>2, GoOnType DEF SessionPcs, FlyIds
  <2> QED
    BY <2>2, <2>3, <2>4, DatabaseUnchanged
<1>4. ASSUME CreateMachine(r) PROVE TypeOK'
  <2>1. PICK x \in CreateMachineReplies(r) : \E told \in Told(x, FlyFaults["CreateMachine"]) :
          /\ machines' = IF x.applied THEN [machines EXCEPT ![s] = "started"] ELSE machines
          /\ boots' = IF x.applied THEN [boots EXCEPT ![s] = req[r].img] ELSE boots
          /\ StraysIf(s, x.applied /\ ~told)
          /\ GoOn(r, IF x.failed THEN "undoVolume" ELSE "provisioned", x, "machine", told)
    BY <1>4 DEF CreateMachine, AskForMachine
  <2>2. /\ req[r].pc = "createMachine" /\ UNCHANGED <<db, apps, volumes, registry>>
        /\ x.live \in BOOLEAN
        /\ req[r].pc \in SessionPcs
    BY <1>4, <2>1, ReplyType DEF CreateMachine, AskForMachine, CreateMachineReplies, SessionPcs
  <2>3. req[r].img \in Images
    BY <1>0 DEF Request
  <2>4. FlyOK'
    BY <1>0, <2>1, <2>2, <2>3, StraysType DEF FlyOK, MachineState
  <2>5. RequestsOK'
    BY <2>1, <2>2, GoOnType DEF SessionPcs, FlyIds
  <2> QED
    BY <2>2, <2>4, <2>5, DatabaseUnchanged
<1>5. ASSUME UndoVolume(r) PROVE TypeOK'
  <2>1. PICK x \in DestroyVolumeReplies(r) :
          /\ volumes' = IF x.applied THEN volumes \ {s} ELSE volumes
          /\ StraysIf(s, s \in volumes')
          /\ GoTo(r, "failSession", x)
    BY <1>5 DEF UndoVolume
  <2>2. /\ req[r].pc = "undoVolume" /\ UNCHANGED <<db, apps, machines, boots, registry>>
        /\ x.live \in BOOLEAN
        /\ req[r].pc \in SessionPcs
    BY <1>5, <2>1, ReplyType DEF UndoVolume, DestroyVolumeReplies, SessionPcs
  <2>3. FlyOK'
    BY <1>0, <2>1, <2>2, StraysType DEF FlyOK
  <2>4. RequestsOK'
    BY <2>1, <2>2, GoToType DEF SessionPcs
  <2> QED
    BY <2>2, <2>3, <2>4, DatabaseUnchanged
<1>6. ASSUME FailSession(r) PROVE TypeOK'
  <2>1. /\ sessions' = SetStatus(s, "error") \/ sessions' = sessions
        /\ req[r].pc \in SessionPcs
    BY <1>6 DEF FailSession, SessionPcs
  <2>2. DatabaseOK'
    BY <1>0, <1>6, <2>1, SetStatusType DEF DatabaseOK, FailSession, SessionStatus
  <2>3. RequestsOK'
    BY <1>6, <1>c, AnswerType DEF FailSession
  <2> QED
    BY <1>6, <2>2, <2>3, FlyUnchanged DEF FailSession
<1>7. ASSUME Provisioned(r) PROVE TypeOK'
  <2>1. PICK x \in Queried(req[r].live) :
          /\ sessions' = IF x.applied THEN MarkProvisioned(s, req[r].ids) ELSE sessions
          /\ IF x.failed THEN Answer(r, 500) ELSE GoTo(r, "reloadSession", x)
    BY <1>7 DEF Provisioned
  <2>2. /\ req[r].pc = "provisioned" /\ UNCHANGED <<templates, mintedBy, fly>>
        /\ x.live \in BOOLEAN
        /\ req[r].pc \in SessionPcs
    BY <1>7, <2>1, QueriedType DEF Provisioned, SessionPcs
  <2>a. /\ sessions' = sessions \/ sessions' = MarkProvisioned(s, req[r].ids)
        /\ req[r].ids \in SUBSET FlyIds
    BY <1>0, <2>1 DEF Request
  <2>3. DatabaseOK'
    BY <1>0, <2>2, <2>a, MarkProvisionedType DEF DatabaseOK
  <2>4. RequestsOK'
    BY <1>c, <2>1, <2>2, GoToType, AnswerType DEF SessionPcs
  <2> QED
    BY <2>2, <2>3, <2>4, FlyUnchanged
<1>8. ASSUME ReloadSession(r) PROVE TypeOK'
  <2>1. PICK code \in Codes : Answer(r, code)
    BY <1>8, <1>c, MapErrorType DEF ReloadSession
  <2>2. RequestsOK'
    BY <2>1, AnswerType
  <2> QED
    BY <1>8, <2>2, DatabaseUnchanged, FlyUnchanged DEF ReloadSession
<1>9. ASSUME Power(r) PROVE TypeOK'
  <2> DEFINE call == IF req[r].op = "resumeSession" THEN "StartMachine" ELSE "StopMachine"
  <2>1. PICK x \in Replies(req[r].live, FlyFaults[call], machines[s] # "none") :
          /\ machines' = IF x.applied
                         THEN [machines EXCEPT ![s] = IF call = "StartMachine"
                                                      THEN "started" ELSE "stopped"]
                         ELSE machines
          /\ IF x.failed THEN Answer(r, 500) ELSE GoTo(r, "setStatus", x)
    BY <1>9 DEF Power
  <2>2. /\ req[r].pc = "power" /\ UNCHANGED <<db, apps, volumes, boots, registry, astray>>
        /\ x.live \in BOOLEAN
        /\ req[r].pc \in SessionPcs
    BY <1>9, <2>1, ReplyType DEF Power, SessionPcs
  <2>3. FlyOK'
    BY <1>0, <2>1, <2>2 DEF FlyOK, MachineState
  <2>4. RequestsOK'
    BY <1>c, <2>1, <2>2, GoToType, AnswerType DEF SessionPcs
  <2> QED
    BY <2>2, <2>3, <2>4, DatabaseUnchanged
<1>10. ASSUME RecordPower(r) PROVE TypeOK'
  <2>1. PICK x \in Queried(req[r].live) :
          /\ sessions' = IF x.applied
                         THEN SetStatus(s, IF req[r].op = "resumeSession"
                                           THEN "running" ELSE "suspended")
                         ELSE sessions
          /\ GoTo(r, "reloadSession", x)
    BY <1>10 DEF RecordPower
  <2>2. /\ req[r].pc = "setStatus" /\ UNCHANGED <<templates, mintedBy, fly>>
        /\ x.live \in BOOLEAN
        /\ req[r].pc \in SessionPcs
    BY <1>10, <2>1, QueriedType DEF RecordPower, SessionPcs
  <2>a. \/ sessions' = sessions
        \/ \E status \in {"running", "suspended"} : sessions' = SetStatus(s, status)
    BY <2>1
  <2>3. DatabaseOK'
    BY <1>0, <2>2, <2>a, SetStatusType DEF DatabaseOK, SessionStatus
  <2>4. RequestsOK'
    BY <2>1, <2>2, GoToType DEF SessionPcs
  <2> QED
    BY <2>2, <2>3, <2>4, FlyUnchanged
<1>11. ASSUME DestroyMachine(r) PROVE TypeOK'
  <2>1. PICK x \in Replies(req[r].live, FlyFaults["DestroyMachine"], machines[s] # "none") :
          /\ machines' = IF x.applied THEN [machines EXCEPT ![s] = "none"] ELSE machines
          /\ boots' = IF x.applied THEN [boots EXCEPT ![s] = NoImage] ELSE boots
          /\ StraysIf(s, machines'[s] # "none")
          /\ GoTo(r, Destruction(req[r].ids), x)
    BY <1>11 DEF DestroyMachine
  <2>2. /\ req[r].pc = "destroyMachine" /\ UNCHANGED <<db, apps, volumes, registry>>
        /\ x.live \in BOOLEAN
        /\ req[r].pc \in SessionPcs
    BY <1>11, <2>1, ReplyType DEF DestroyMachine, SessionPcs
  <2>3. FlyOK'
    BY <1>0, <2>1, <2>2, StraysType DEF FlyOK, MachineState, Images
  <2>4. RequestsOK'
    BY <2>1, <2>2, GoToType DEF SessionPcs, Destruction
  <2> QED
    BY <2>2, <2>3, <2>4, DatabaseUnchanged
<1>12. ASSUME DestroyVolume(r) PROVE TypeOK'
  <2>1. PICK x \in DestroyVolumeReplies(r) :
          /\ volumes' = IF x.applied THEN volumes \ {s} ELSE volumes
          /\ StraysIf(s, s \in volumes')
          /\ GoTo(r, "deleteRow", x)
    BY <1>12 DEF DestroyVolume
  <2>2. /\ req[r].pc = "destroyVolume" /\ UNCHANGED <<db, apps, machines, boots, registry>>
        /\ x.live \in BOOLEAN
        /\ req[r].pc \in SessionPcs
    BY <1>12, <2>1, ReplyType DEF DestroyVolume, DestroyVolumeReplies, SessionPcs
  <2>3. FlyOK'
    BY <1>0, <2>1, <2>2, StraysType DEF FlyOK
  <2>4. RequestsOK'
    BY <2>1, <2>2, GoToType DEF SessionPcs
  <2> QED
    BY <2>2, <2>3, <2>4, DatabaseUnchanged
<1>13. ASSUME DeleteRow(r) PROVE TypeOK'
  <2>1. /\ sessions' = sessions \/ sessions' = [sessions EXCEPT ![s] = NoRow]
        /\ \E code \in Codes : Answer(r, code)
    BY <1>13, <1>c, MapErrorType DEF DeleteRow
  <2>2. DatabaseOK'
    BY <1>13, <2>1 DEF DatabaseOK, DeleteRow
  <2>3. RequestsOK'
    BY <2>1, AnswerType
  <2> QED
    BY <1>13, <2>2, <2>3, FlyUnchanged DEF DeleteRow
<1> QED
  BY <1>1, <1>2, <1>3, <1>4, <1>5, <1>6, <1>7, <1>8, <1>9, <1>10, <1>11, <1>12, <1>13
     DEF SessionStep

LEMMA DoneIsLive == Done.live \in BOOLEAN
BY DEF Done

\* A request answered by its first step.
LEMMA RejectType ==
  ASSUME RequestsOK, NEW r \in Requests, NEW q \in Request, NEW code \in Codes,
         req' = [req EXCEPT ![r] = [q EXCEPT !.pc = "done", !.live = TRUE, !.ans = code]]
  PROVE  RequestsOK'
<1> DEFINE new == [q EXCEPT !.pc = "done", !.live = TRUE, !.ans = code]
<1>1. new \in Request /\ new.pc = "done"
  BY DEF Request, Pcs
<1> QED
  BY <1>1, DoneHasTarget, UpdateType

LEMMA ReadSessionType ==
  ASSUME TypeOK, NEW r \in Requests, ReadSession(r) \/ ListSessions(r)
  PROVE  TypeOK'
<1> USE TypeParts, TypePartsPrimed
<1>c. 200 \in Codes /\ 500 \in Codes /\ \A e : MapError(e) \in Codes
  BY MapErrorType DEF Codes
<1>1. PICK q \in Request, code \in Codes :
        req' = [req EXCEPT ![r] = [q EXCEPT !.pc = "done", !.ans = code]]
  <2>1. CASE ReadSession(r)
    <3>1. PICK org \in Orgs, s \in SessionIds, x \in Queried(TRUE) :
            req' = [req EXCEPT ![r] =
                      [Accept("getSession", org, s, NoId, Done)
                         EXCEPT !.pc = "done",
                                !.ans = IF GetSession(org, s, x) = NoRow
                                        THEN MapError(LookupError) ELSE 200]]
      BY <2>1 DEF ReadSession, Minted
    <3>2. Accept("getSession", org, s, NoId, Done) \in Request
      BY AcceptType, DoneIsLive DEF SessionOps
    <3>3. (IF GetSession(org, s, x) = NoRow THEN MapError(LookupError) ELSE 200) \in Codes
      BY <1>c
    <3> DEFINE a == Accept("getSession", org, s, NoId, Done)
               c == IF GetSession(org, s, x) = NoRow THEN MapError(LookupError) ELSE 200
    <3>4. /\ a \in Request /\ c \in Codes
          /\ req' = [req EXCEPT ![r] = [a EXCEPT !.pc = "done", !.ans = c]]
      BY <3>1, <3>2, <3>3
    <3> HIDE DEF a, c
    <3> QED
      BY <3>4
  <2>2. CASE ListSessions(r)
    <3>1. PICK org \in Orgs, x \in Queried(TRUE) :
            req' = [req EXCEPT ![r] =
                      [Accept("listSessions", org, NoId, NoId, Done)
                         EXCEPT !.pc = "done",
                                !.ans = IF ListSucceeds(sessions, org, x) THEN 200 ELSE 500]]
      BY <2>2 DEF ListSessions
    <3>2. Accept("listSessions", org, NoId, NoId, Done) \in Request
      <4>1. "listSessions" \in SessionOps \cup TemplateOps
        BY DEF SessionOps
      <4>2. ASSUME NEW s \in SessionIds \cup {NoId}, NEW t \in TemplateIds \cup {NoId}
            PROVE  Accept("listSessions", org, s, t, Done) \in Request
        BY <4>1, AcceptType, DoneIsLive
      <4> QED
        BY <4>2
    <3>3. (IF ListSucceeds(sessions, org, x) THEN 200 ELSE 500) \in Codes
      BY <1>c
    <3> DEFINE a == Accept("listSessions", org, NoId, NoId, Done)
               c == IF ListSucceeds(sessions, org, x) THEN 200 ELSE 500
    <3>4. /\ a \in Request /\ c \in Codes
          /\ req' = [req EXCEPT ![r] = [a EXCEPT !.pc = "done", !.ans = c]]
      BY <3>1, <3>2, <3>3
    <3> HIDE DEF a, c
    <3> QED
      BY <3>4
  <2> QED
    BY <2>1, <2>2
<1>2. [q EXCEPT !.pc = "done", !.ans = code] \in Request
  BY DEF Request, Pcs
<1>3. RequestsOK'
  BY <1>1, <1>2, DoneHasTarget, UpdateType DEF Request
<1> QED
  BY <1>3, DatabaseUnchanged, FlyUnchanged DEF ReadSession, ListSessions

\* The lookup of resumeSession, hibernateSession and deleteSession.
LEMMA LookUpSessionType ==
  ASSUME TypeOK, NEW r \in Requests, NEW op \in SessionOps, LookUpSession(r, op)
  PROVE  TypeOK'
<1> USE TypeParts, TypePartsPrimed
<1>1. PICK org \in Orgs, s \in SessionIds, x \in Queried(TRUE) :
        LET row == GetSession(org, s, x)
            pc  == IF row = NoRow THEN "done" ELSE FirstCall(op, row.ids)
            new == Accept(op, org, s, NoId, x)
        IN  req' = [req EXCEPT ![r] =
              IF pc = "done"
              THEN [new EXCEPT !.pc = "done", !.live = TRUE,
                               !.ans = MapError("ErrSessionNotFound")]
              ELSE [new EXCEPT !.pc = pc, !.ids = row.ids]]
  BY DEF LookUpSession, Minted
<1> DEFINE row == GetSession(org, s, x)
           pc  == IF row = NoRow THEN "done" ELSE FirstCall(op, row.ids)
           new == Accept(op, org, s, NoId, x)
<1>a. pc \in {"power", "destroyMachine", "destroyVolume", "deleteRow", "done"}
  BY DEF FirstCall, Destruction
<1>b. row # NoRow => row.ids \in SUBSET FlyIds
  BY DEF GetSession, DatabaseOK, SessionRow
<1>2. new \in Request /\ new.org = org /\ new.sid = s
  <2>1. x.live \in BOOLEAN
    BY FirstReplyType
  <2> QED
    BY <2>1, AcceptType
<1>3. RequestsOK'
  <2>1. CASE pc = "done"
    <3>1. req' = [req EXCEPT ![r] = [new EXCEPT !.pc = "done", !.live = TRUE,
                                                !.ans = MapError("ErrSessionNotFound")]]
      BY <1>1, <2>1
    <3> HIDE DEF new
    <3> QED
      BY <1>2, <3>1, RejectType, MapErrorType
  <2>2. CASE pc # "done"
    <3> DEFINE q == [new EXCEPT !.pc = pc, !.ids = row.ids]
    <3>1. /\ pc \in SessionPcs \ {"insertSession"}
          /\ row.ids \in SUBSET FlyIds
      BY <1>a, <1>b, <2>2 DEF SessionPcs
    <3>4. req' = [req EXCEPT ![r] = q]
      BY <1>1, <2>2
    <3> HIDE DEF pc, row, new
    <3>2. q \in Request /\ q.pc = pc /\ q.org = org /\ q.sid = s
      BY <1>2, <3>1 DEF Request, Pcs
    <3>3. HasTarget(q)
      BY <3>1, <3>2 DEF HasTarget, SessionPcs, TemplatePcs
    <3> QED
      BY <3>2, <3>3, <3>4, UpdateType
  <2> QED
    BY <2>1, <2>2
<1> QED
  BY <1>3, DatabaseUnchanged, FlyUnchanged DEF LookUpSession

LEMMA CreateSessionType ==
  ASSUME TypeOK, NEW r \in Requests, CreateSession(r)
  PROVE  TypeOK'
<1> USE TypeParts, TypePartsPrimed
<1>1. PICK org \in Orgs, t \in Minted(TemplateIds), x \in Queried(TRUE) :
        LET tpl == GetTemplate(org, t, x)
            new == Accept("createSession", org, NoId, t, x)
            reject(e) == /\ req' = [req EXCEPT ![r] =
                               [new EXCEPT !.pc = "done", !.live = TRUE, !.ans = MapError(e)]]
                         /\ UNCHANGED mintedBy
        IN  \/ tpl = NoRow /\ reject(TemplateError(LookupError))
            \/ tpl # NoRow /\ ImageToBoot(tpl) = NoImage /\ reject("ErrTemplateNotReady")
            \/ /\ tpl # NoRow
               /\ ImageToBoot(tpl) # NoImage
               /\ \E s \in SessionIds \ Minted(SessionIds) :
                    /\ mintedBy' = [mintedBy EXCEPT ![s] = org]
                    /\ req' = [req EXCEPT ![r] = [new EXCEPT !.pc = "insertSession",
                                 !.sid = s, !.img = ImageToBoot(tpl)]]
  BY DEF CreateSession
<1> DEFINE tpl == GetTemplate(org, t, x)
           new == Accept("createSession", org, NoId, t, x)
<1>2. t \in TemplateIds
  BY DEF Minted
<1>3. new \in Request /\ new.org = org /\ new.tid = t
  <2>1. x.live \in BOOLEAN
    BY FirstReplyType
  <2> QED
    BY <1>2, <2>1, AcceptType DEF SessionOps
<1>4. UNCHANGED <<sessions, templates, fly>>
  BY DEF CreateSession
<1>5. CASE \E e : /\ req' = [req EXCEPT ![r] =
                       [new EXCEPT !.pc = "done", !.live = TRUE, !.ans = MapError(e)]]
                  /\ UNCHANGED mintedBy
  <2>1. RequestsOK'
    BY <1>3, <1>5, RejectType, MapErrorType
  <2> QED
    BY <1>4, <1>5, <2>1, DatabaseUnchanged, FlyUnchanged DEF db
<1>6. CASE /\ tpl # NoRow
           /\ \E s \in SessionIds \ Minted(SessionIds) :
                /\ mintedBy' = [mintedBy EXCEPT ![s] = org]
                /\ req' = [req EXCEPT ![r] = [new EXCEPT !.pc = "insertSession",
                             !.sid = s, !.img = ImageToBoot(tpl)]]
  <2>1. PICK s \in SessionIds :
          /\ mintedBy' = [mintedBy EXCEPT ![s] = org]
          /\ req' = [req EXCEPT ![r] = [new EXCEPT !.pc = "insertSession",
                       !.sid = s, !.img = ImageToBoot(tpl)]]
    BY <1>6
  <2> DEFINE q == [new EXCEPT !.pc = "insertSession", !.sid = s, !.img = ImageToBoot(tpl)]
  <2>2. ImageToBoot(tpl) \in Images
    BY <1>2, <1>6, GetTemplateType, ImageToBootType
  <2>3. /\ q \in Request
        /\ q.pc = "insertSession" /\ q.org = org /\ q.sid = s /\ q.tid = t
    BY <1>3, <2>2 DEF Request, Pcs, SessionPcs
  <2>4. HasTarget(q)
    BY <1>2, <2>3 DEF HasTarget
  <2>5. RequestsOK'
    BY <2>1, <2>3, <2>4, UpdateType
  <2>6. DatabaseOK'
    BY <1>4, <2>1 DEF DatabaseOK
  <2> QED
    BY <1>4, <2>5, <2>6, FlyUnchanged
<1> QED
  BY <1>1, <1>5, <1>6

\* A step of a handler of buildTemplate keeps the types.
LEMMA TemplateStepType ==
  ASSUME TypeOK, NEW r \in Requests, TemplateStep(r)
  PROVE  TypeOK'
<1> USE TypeParts, TypePartsPrimed
<1> DEFINE t == req[r].tid
<1>0. /\ req[r].pc \in TemplatePcs => t \in TemplateIds /\ req[r].org \in Orgs
      /\ req[r] \in Request
      /\ req[r].img \in Images
  BY DEF RequestsOK, HasTarget, Request
<1>c. 200 \in Codes /\ 500 \in Codes
  BY DEF Codes
\* The three steps that record the outcome so far.
<1>u. ASSUME NEW status \in TemplateStatus, NEW image \in Images, t \in TemplateIds,
             \/ templates' = UpdateBuildStatus(t, status, image)
             \/ templates' = templates,
             UNCHANGED <<sessions, mintedBy>>
      PROVE  DatabaseOK'
  BY <1>u, UpdateBuildStatusType DEF DatabaseOK
<1>1. ASSUME MarkBuilding(r) PROVE TypeOK'
  <2>1. PICK x \in Queried(req[r].live) :
          /\ templates' = IF x.applied
                          THEN UpdateBuildStatus(t, "building", req[r].img)
                          ELSE templates
          /\ IF x.failed THEN Answer(r, 500) ELSE GoTo(r, "ensureTemplateApp", x)
    BY <1>1 DEF MarkBuilding
  <2>2. /\ req[r].pc = "markBuilding" /\ UNCHANGED <<sessions, mintedBy, fly>>
        /\ x.live \in BOOLEAN
        /\ req[r].pc \in TemplatePcs
    BY <1>1, <2>1, QueriedType DEF MarkBuilding, TemplatePcs
  <2>3. DatabaseOK'
    BY <1>0, <1>u, <2>1, <2>2 DEF TemplateStatus
  <2>4. RequestsOK'
    BY <1>c, <2>1, <2>2, GoToType, AnswerType DEF TemplatePcs
  <2> QED
    BY <2>2, <2>3, <2>4, FlyUnchanged
<1>2. ASSUME EnsureTemplateApp(r) PROVE TypeOK'
  <2>1. PICK x \in Replies(req[r].live, FlyFaults["EnsureApp"], TRUE) :
          /\ apps' = IF x.applied THEN apps \cup {t} ELSE apps
          /\ GoTo(r, IF x.failed THEN "markFailed" ELSE "buildImage", x)
    BY <1>2 DEF EnsureTemplateApp
  <2>2. /\ req[r].pc = "ensureTemplateApp" /\ UNCHANGED <<db, volumes, machines, boots, registry, astray>>
        /\ x.live \in BOOLEAN
        /\ req[r].pc \in TemplatePcs
    BY <1>2, <2>1, CertainReplyType DEF EnsureTemplateApp, TemplatePcs
  <2>3. t \in TemplateIds /\ (apps' = apps \/ apps' = apps \cup {t})
    BY <1>0, <2>1, <2>2
  <2>4. FlyOK'
    BY <2>2, <2>3 DEF FlyOK
  <2>5. RequestsOK'
    BY <2>1, <2>2, GoToType DEF TemplatePcs
  <2> QED
    BY <2>2, <2>4, <2>5, DatabaseUnchanged
<1>3. ASSUME BuildImage(r) PROVE TypeOK'
  <2>1. PICK x \in Replies(req[r].live, FlyFaults["BuildImage"], t \in apps) :
          /\ registry' = IF x.applied THEN registry \cup {t} ELSE registry
          /\ req' = [req EXCEPT ![r].pc = IF x.failed THEN "markFailed" ELSE "markReady",
                                ![r].img = IF x.failed THEN NoImage ELSE t,
                                ![r].live = x.live]
    BY <1>3 DEF BuildImage
  <2>2. /\ req[r].pc = "buildImage" /\ UNCHANGED <<db, apps, volumes, machines, boots, astray>>
        /\ x.live \in BOOLEAN
        /\ req[r].pc \in TemplatePcs
    BY <1>3, <2>1, ReplyType DEF BuildImage, TemplatePcs
  <2>3. t \in TemplateIds /\ (registry' = registry \/ registry' = registry \cup {t})
    BY <1>0, <2>1, <2>2
  <2>4. FlyOK'
    BY <2>2, <2>3 DEF FlyOK
  <2> DEFINE pc == IF x.failed THEN "markFailed" ELSE "markReady"
             img == IF x.failed THEN NoImage ELSE t
             q == [req[r] EXCEPT !.pc = pc, !.img = img, !.live = x.live]
  <2>5. pc \in TemplatePcs \cap Pcs /\ img \in Images
    BY <2>3 DEF TemplatePcs, Pcs, Images
  <2> HIDE DEF pc, img
  <2>6. q \in Request
    BY <1>0, <2>2, <2>5 DEF Request
  <2>7. q.pc = pc /\ q.org = req[r].org /\ q.sid = req[r].sid /\ q.tid = t
    BY <1>0 DEF Request
  <2>8. HasTarget(q)
    BY <1>0, <2>2, <2>5, <2>7 DEF HasTarget, SessionPcs, TemplatePcs
  <2>9. req' = [req EXCEPT ![r] = q]
    BY <1>0, <2>1 DEF RequestsOK, Request, pc, img
  <2>10. RequestsOK'
    BY <2>6, <2>8, <2>9, UpdateType
  <2> QED
    BY <2>2, <2>4, <2>10, DatabaseUnchanged
<1>4. ASSUME MarkReady(r) PROVE TypeOK'
  <2>1. PICK x \in Queried(req[r].live) :
          /\ templates' = IF x.applied
                          THEN UpdateBuildStatus(t, "ready", req[r].img)
                          ELSE templates
          /\ IF x.failed THEN Answer(r, 500) ELSE GoTo(r, "reloadTemplate", x)
    BY <1>4 DEF MarkReady
  <2>2. /\ req[r].pc = "markReady" /\ UNCHANGED <<sessions, mintedBy, fly>>
        /\ x.live \in BOOLEAN
        /\ req[r].pc \in TemplatePcs
    BY <1>4, <2>1, QueriedType DEF MarkReady, TemplatePcs
  <2>3. DatabaseOK'
    BY <1>0, <1>u, <2>1, <2>2 DEF TemplateStatus
  <2>4. RequestsOK'
    BY <1>c, <2>1, <2>2, GoToType, AnswerType DEF TemplatePcs
  <2> QED
    BY <2>2, <2>3, <2>4, FlyUnchanged
<1>5. ASSUME MarkFailed(r) PROVE TypeOK'
  <2>1. /\ \/ templates' = UpdateBuildStatus(t, "failed", NoImage)
           \/ templates' = templates
        /\ req[r].pc \in TemplatePcs
        /\ UNCHANGED <<sessions, mintedBy, fly>>
        /\ Answer(r, 500)
    BY <1>5 DEF MarkFailed, TemplatePcs
  <2>2. DatabaseOK'
    BY <1>0, <1>u, <2>1 DEF TemplateStatus, Images
  <2>3. RequestsOK'
    BY <2>1, <1>c, AnswerType
  <2> QED
    BY <2>1, <2>2, <2>3, FlyUnchanged
<1>6. ASSUME ReloadTemplate(r) PROVE TypeOK'
  <2>1. PICK code \in Codes : Answer(r, code)
    BY <1>6, <1>c, MapErrorType DEF ReloadTemplate
  <2>2. RequestsOK'
    BY <2>1, AnswerType
  <2> QED
    BY <1>6, <2>2, DatabaseUnchanged, FlyUnchanged DEF ReloadTemplate
<1> QED
  BY <1>1, <1>2, <1>3, <1>4, <1>5, <1>6 DEF TemplateStep

\* The first, and often only, step of a template route keeps the types.
LEMMA TemplateArrivalType ==
  ASSUME TypeOK, NEW r \in Requests, TemplateArrival(r)
  PROVE  TypeOK'
<1> USE TypeParts, TypePartsPrimed
<1>c. 200 \in Codes /\ 201 \in Codes /\ 204 \in Codes /\ 500 \in Codes
  BY DEF Codes
<1>m. \A e : MapError(e) \in Codes
  BY MapErrorType
<1>1. ASSUME CreateTemplate(r) PROVE TypeOK'
  <2>1. PICK org \in Orgs, t \in TemplateIds, code \in Codes :
          /\ mintedBy' = [mintedBy EXCEPT ![t] = org]
          /\ \/ templates' = templates
             \/ templates' = [templates EXCEPT ![t] = DraftRow(org)]
          /\ AnswerAtOnce(r, "createTemplate", org, t, code)
    <3>1. PICK org \in Orgs, t \in TemplateIds :
            \E x \in Replies(TRUE, DbFaults, TRUE) \cup
                     {y \in {Refused} : \E u \in TemplateIds :
                                          templates[u] # NoRow /\ templates[u].org = org} :
              /\ mintedBy' = [mintedBy EXCEPT ![t] = org]
              /\ templates' = IF x.applied
                              THEN [templates EXCEPT ![t] = DraftRow(org)] ELSE templates
              /\ AnswerAtOnce(r, "createTemplate", org, t,
                              IF ~x.failed /\ Readable(DraftRow(org)) THEN 201 ELSE 500)
      BY <1>1 DEF CreateTemplate
    <3>2. PICK failed :
            /\ mintedBy' = [mintedBy EXCEPT ![t] = org]
            /\ \/ templates' = templates
               \/ templates' = [templates EXCEPT ![t] = DraftRow(org)]
            /\ AnswerAtOnce(r, "createTemplate", org, t,
                            IF ~failed /\ Readable(DraftRow(org)) THEN 201 ELSE 500)
      BY <3>1
    <3> QED
      BY ZenonT(60), <1>c, <3>2
  <2>2. DraftRow(org) \in TemplateRow
    BY DEF DraftRow, TemplateRow, TemplateStatus, Images
  <2>3. DatabaseOK'
    BY <1>1, <2>1, <2>2 DEF DatabaseOK, CreateTemplate
  <2>4. RequestsOK'
    BY <2>1, AnswerAtOnceType DEF TemplateOps
  <2> QED
    BY <1>1, <2>3, <2>4, FlyUnchanged DEF CreateTemplate
<1>2. ASSUME ReadTemplate(r) PROVE TypeOK'
  <2>1. PICK org \in Orgs, t \in TemplateIds, x \in Queried(TRUE) :
          AnswerAtOnce(r, "getTemplate", org, t,
                       IF GetTemplate(org, t, x) = NoRow THEN MapError(LookupError) ELSE 200)
    BY <1>2 DEF ReadTemplate, Minted
  <2>2. RequestsOK'
    BY <1>c, <1>m, <2>1, AnswerAtOnceType DEF TemplateOps
  <2> QED
    BY <1>2, <2>2, DatabaseUnchanged, FlyUnchanged DEF ReadTemplate
<1>3. ASSUME ListTemplates(r) PROVE TypeOK'
  <2>1. PICK org \in Orgs, x \in Queried(TRUE) :
          AnswerAtOnce(r, "listTemplates", org, NoId,
                       IF ListSucceeds(templates, org, x) THEN 200 ELSE 500)
    BY <1>3 DEF ListTemplates
  <2>2. RequestsOK'
    BY <1>c, <2>1, AnswerAtOnceType DEF TemplateOps
  <2> QED
    BY <1>3, <2>2, DatabaseUnchanged, FlyUnchanged DEF ListTemplates
<1>4. ASSUME DeleteTemplate(r) PROVE TypeOK'
  <2>1. PICK org \in Orgs, t \in TemplateIds, code \in Codes :
          /\ \/ templates' = templates
             \/ templates' = [templates EXCEPT ![t] = NoRow]
          /\ sessions' = sessions \/ sessions' = Cascade(t)
          /\ AnswerAtOnce(r, "deleteTemplate", org, t, code)
    BY <1>4, <1>c, <1>m DEF DeleteTemplate, Minted
  <2>2. Cascade(t) \in [SessionIds -> SessionRow \cup {NoRow}]
    BY DEF Cascade, DatabaseOK
  <2>3. DatabaseOK'
    BY <1>4, <2>1, <2>2 DEF DatabaseOK, DeleteTemplate
  <2>4. RequestsOK'
    BY <2>1, AnswerAtOnceType DEF TemplateOps
  <2> QED
    BY <1>4, <2>3, <2>4, FlyUnchanged DEF DeleteTemplate
<1>5. ASSUME BuildTemplate(r) PROVE TypeOK'
  <2>1. PICK org \in Orgs, t \in TemplateIds, x \in Queried(TRUE) :
          \/ AnswerAtOnce(r, "buildTemplate", org, t, MapError(TemplateError(LookupError)))
          \/ /\ GetTemplate(org, t, x) # NoRow
             /\ req' = [req EXCEPT ![r] =
                          [Accept("buildTemplate", org, NoId, t, x)
                             EXCEPT !.pc = "markBuilding",
                                    !.img = GetTemplate(org, t, x).image]]
    BY <1>5 DEF BuildTemplate, Minted
  <2> DEFINE new == Accept("buildTemplate", org, NoId, t, x)
             q == [new EXCEPT !.pc = "markBuilding", !.img = GetTemplate(org, t, x).image]
  <2>2. x.live \in BOOLEAN
    BY FirstReplyType
  <2>3. new \in Request /\ new.org = org /\ new.tid = t
    BY <2>2, AcceptType DEF TemplateOps
  <2>4. RequestsOK'
    <3>1. CASE AnswerAtOnce(r, "buildTemplate", org, t, MapError(TemplateError(LookupError)))
      BY <1>m, <3>1, AnswerAtOnceType DEF TemplateOps
    <3>2. CASE GetTemplate(org, t, x) # NoRow /\ req' = [req EXCEPT ![r] = q]
      <4>1. GetTemplate(org, t, x).image \in Images
        BY <3>2, GetTemplateType DEF TemplateRow
      <4>2. q \in Request /\ q.pc = "markBuilding" /\ q.org = org /\ q.tid = t
        BY <2>3, <4>1 DEF Request, Pcs, TemplatePcs
      <4>3. HasTarget(q)
        BY <4>2 DEF HasTarget, SessionPcs
      <4> QED
        BY <3>2, <4>2, <4>3, UpdateType
    <3> QED
      BY <2>1, <3>1, <3>2
  <2> QED
    BY <1>5, <2>4, DatabaseUnchanged, FlyUnchanged DEF BuildTemplate
<1> QED
  BY <1>1, <1>2, <1>3, <1>4, <1>5 DEF TemplateArrival

LEMMA SessionArrivalType ==
  ASSUME TypeOK, NEW r \in Requests, SessionArrival(r)
  PROVE  TypeOK'
BY CreateSessionType, ReadSessionType, LookUpSessionType
   DEF SessionArrival, ResumeSession, HibernateSession, DeleteSession, SessionOps

\* A restart, or the proxy, keeps the types.
LEMMA EnvironmentType ==
  ASSUME TypeOK, Crash \/ \E s \in SessionIds : Autostop(s) \/ Autostart(s)
  PROVE  TypeOK'
<1> USE TypeParts, TypePartsPrimed
<1>1. CASE Crash
  <2>1. HasTarget(Idle)
    BY DEF HasTarget, Idle, SessionPcs, TemplatePcs
  <2>2. RequestsOK'
    BY <1>1, <2>1, IdleType DEF Crash, RequestsOK
  <2> QED
    BY <1>1, <2>2, DatabaseUnchanged, FlyUnchanged DEF Crash
<1>2. CASE \E s \in SessionIds : Autostop(s) \/ Autostart(s)
  <2>1. FlyOK'
    BY <1>2 DEF Autostop, Autostart, FlyOK, MachineState
  <2>2. RequestsOK'
    BY <1>2 DEF Autostop, Autostart, RequestsOK
  <2> QED
    BY <1>2, <2>1, <2>2, DatabaseUnchanged DEF Autostop, Autostart
<1> QED
  BY <1>1, <1>2

LEMMA InitType == Init => TypeOK
<1> SUFFICES ASSUME Init PROVE TypeOK
  OBVIOUS
<1>1. DatabaseOK
  BY DEF Init, DatabaseOK
<1>2. FlyOK
  BY DEF Init, FlyOK, MachineState, Images
<1>3. HasTarget(Idle)
  BY DEF HasTarget, Idle, SessionPcs, TemplatePcs
<1>4. RequestsOK
  BY <1>3, IdleType DEF Init, RequestsOK
<1> QED
  BY <1>1, <1>2, <1>4, TypeParts

LEMMA NextType == TypeOK /\ [Next]_vars => TypeOK'
<1> SUFFICES ASSUME TypeOK, [Next]_vars PROVE TypeOK'
  OBVIOUS
<1>1. CASE \E r \in Requests : SessionArrival(r) \/ TemplateArrival(r) \/ Advance(r)
  BY <1>1, SessionArrivalType, TemplateArrivalType, SessionStepType, TemplateStepType
     DEF Advance
<1>2. CASE Crash \/ \E s \in SessionIds : Autostop(s) \/ Autostart(s)
  BY <1>2, EnvironmentType
<1>3. CASE UNCHANGED vars
  BY <1>3 DEF vars, TypeOK
<1> QED
  BY <1>1, <1>2, <1>3 DEF Next

\* Whatever happens, tables, Fly resources and handlers are well-formed: in
\* particular no status but the four the code writes is ever stored, and a
\* handler at work always knows its tenant and its session or template.
THEOREM TypeCorrect == Spec => []TypeOK
BY InitType, NextType, PTL DEF Spec

-----------------------------------------------------------------------------
(* Tenant isolation.  The statements of the orchestrator that update a row *)
(* name it by id alone; what keeps them within the tenant is the lookup    *)
(* each handler started with, so the invariant must speak of the rows and  *)
(* of the handlers together.                                               *)

Isolated == RowsStayInTenant /\ HandlersStayInTenant

\* What most steps do: rows stay or go, but keep owner and template, ...
SessionsKept ==
  \A s \in SessionIds : sessions'[s] # NoRow =>
    /\ sessions[s] # NoRow
    /\ sessions'[s].org = sessions[s].org
    /\ sessions'[s].tpl = sessions[s].tpl

TemplatesKept ==
  \A t \in TemplateIds :
    /\ templates'[t] # NoRow <=> templates[t] # NoRow
    /\ templates[t] # NoRow => templates'[t].org = templates[t].org

\* ... and handlers keep working for the same tenant on the same things.
HandlersKept ==
  \A q \in Requests : Busy(q)' =>
    /\ Busy(q)
    /\ req'[q].org = req[q].org
    /\ req'[q].sid = req[q].sid
    /\ req'[q].tid = req[q].tid

\* Such a step preserves the isolation of the tenants.
LEMMA KeptIsolated ==
  ASSUME TypeOK, Isolated, SessionsKept, TemplatesKept, HandlersKept,
         UNCHANGED mintedBy
  PROVE  Isolated'
<1>1. \A s \in SessionIds : sessions[s] # NoRow => sessions[s].tpl \in TemplateIds
  BY DEF TypeOK, SessionRow
<1>2. RowsStayInTenant'
  BY <1>1 DEF Isolated, RowsStayInTenant, SessionsKept, TemplatesKept, Stored
<1>3. HandlersStayInTenant'
  BY DEF Isolated, HandlersStayInTenant, HandlersKept
<1> QED
  BY <1>2, <1>3 DEF Isolated

\* A handler that goes on, or answers, keeps its target.
LEMMA GoToKept ==
  ASSUME TypeOK, NEW r \in Requests, Busy(r), NEW pc, NEW x, GoTo(r, pc, x)
  PROVE  HandlersKept
<1>1. req \in [Requests -> Request]
  BY DEF TypeOK
<1>2. /\ req'[r].org = req[r].org /\ req'[r].sid = req[r].sid /\ req'[r].tid = req[r].tid
      /\ \A q \in Requests \ {r} : req'[q] = req[q]
  BY <1>1 DEF GoTo, Request
<1> QED
  BY <1>2 DEF HandlersKept, Busy, Free

LEMMA GoOnKept ==
  ASSUME TypeOK, NEW r \in Requests, Busy(r), NEW pc, NEW x, NEW what, NEW told,
         GoOn(r, pc, x, what, told)
  PROVE  HandlersKept
<1>1. req \in [Requests -> Request]
  BY DEF TypeOK
<1> DEFINE ids == IF told THEN req[r].ids \cup {what} ELSE req[r].ids
           q   == [req[r] EXCEPT !.pc = pc, !.live = x.live, !.ids = ids]
<1>2. req' = [req EXCEPT ![r] = q]
  BY <1>1 DEF GoOn, Request
<1> HIDE DEF ids
<1>3. q.org = req[r].org /\ q.sid = req[r].sid /\ q.tid = req[r].tid
  BY <1>1 DEF Request
<1> HIDE DEF q
<1>4. /\ req'[r].org = req[r].org /\ req'[r].sid = req[r].sid /\ req'[r].tid = req[r].tid
      /\ \A u \in Requests \ {r} : req'[u] = req[u]
  BY <1>1, <1>2, <1>3
<1> QED
  BY <1>4 DEF HandlersKept, Busy, Free

LEMMA AnswerKept ==
  ASSUME TypeOK, NEW r \in Requests, NEW code, Answer(r, code)
  PROVE  HandlersKept
<1>1. req \in [Requests -> Request]
  BY DEF TypeOK
<1>2. /\ req'[r].pc = "done"
      /\ \A q \in Requests \ {r} : req'[q] = req[q]
  BY <1>1 DEF Answer, Request
<1> QED
  BY <1>2 DEF HandlersKept, Busy, Free

LEMMA RequestsUnchangedKept == ASSUME UNCHANGED req PROVE HandlersKept
BY DEF HandlersKept, Busy, Free

LEMMA SessionsUnchangedKept == ASSUME UNCHANGED sessions PROVE SessionsKept
BY DEF SessionsKept

LEMMA TemplatesUnchangedKept == ASSUME UNCHANGED templates PROVE TemplatesKept
BY DEF TemplatesKept

\* The updates by id change neither owner nor template.
LEMMA SetStatusKept ==
  ASSUME TypeOK, NEW s \in SessionIds, NEW status, sessions' = SetStatus(s, status)
  PROVE  SessionsKept
<1>1. sessions \in [SessionIds -> SessionRow \cup {NoRow}]
  BY DEF TypeOK
<1> QED
  BY <1>1 DEF SessionsKept, SetStatus, SessionRow

LEMMA MarkProvisionedKept ==
  ASSUME TypeOK, NEW s \in SessionIds, NEW ids, sessions' = MarkProvisioned(s, ids)
  PROVE  SessionsKept
<1>1. sessions \in [SessionIds -> SessionRow \cup {NoRow}]
  BY DEF TypeOK
<1> DEFINE row == [sessions[s] EXCEPT !.status = "running", !.ids = ids \cup {"app"}]
<1>2. sessions[s] # NoRow => row.org = sessions[s].org /\ row.tpl = sessions[s].tpl
  BY <1>1 DEF SessionRow
<1>3. /\ sessions'[s] = IF sessions[s] = NoRow THEN NoRow ELSE row
      /\ \A u \in SessionIds \ {s} : sessions'[u] = sessions[u]
  BY <1>1 DEF MarkProvisioned
<1> HIDE DEF row
<1> QED
  BY <1>2, <1>3 DEF SessionsKept

LEMMA UpdateBuildStatusKept ==
  ASSUME TypeOK, NEW t \in TemplateIds, NEW status, status \in TemplateStatus, NEW image \in Images,
         templates' = UpdateBuildStatus(t, status, image)
  PROVE  TemplatesKept
<1>1. templates \in [TemplateIds -> TemplateRow \cup {NoRow}]
  BY DEF TypeOK
<1> DEFINE row == [templates[t] EXCEPT !.status = status, !.image = image]
<1>2. templates[t] # NoRow => row.org = templates[t].org /\ row \in TemplateRow
  BY <1>1 DEF TemplateRow
<1>3. NoRow \notin TemplateRow
  BY IdsAreDistinct
<1>4. /\ templates'[t] = IF templates[t] = NoRow THEN NoRow ELSE row
      /\ \A u \in TemplateIds \ {t} : templates'[u] = templates[u]
  BY <1>1 DEF UpdateBuildStatus
<1> HIDE DEF row
<1> QED
  BY <1>2, <1>3, <1>4 DEF TemplatesKept

\* What was applied could be carried out.
LEMMA AppliedIsPossible ==
  ASSUME NEW live, NEW faults, NEW possible, NEW x \in Replies(live, faults, possible),
         x.applied
  PROVE  possible
<1> DEFINE hungUp == HungUp(FALSE)
<1>1. ~hungUp.applied
  BY DEF HungUp
<1> HIDE DEF hungUp
<1>2. CASE live
  BY <1>2 DEF Replies
<1>3. CASE ~live
  <2>1. x = hungUp
    BY <1>3 DEF Replies, hungUp
  <2> QED
    BY <1>1, <2>1
<1> QED
  BY <1>2, <1>3

\* The one statement that adds a session row uses the tenant and the template
\* of its handler; the foreign key makes sure the template is still there.
LEMMA InsertSessionIsolated ==
  ASSUME TypeOK, Isolated, NEW r \in Requests, InsertSession(r)
  PROVE  Isolated'
<1> DEFINE s == req[r].sid
           t == req[r].tid
           org == req[r].org
<1>1. s \in SessionIds /\ t \in TemplateIds /\ org \in Orgs
  BY DEF InsertSession, TypeOK, HasTarget, SessionPcs
<1>2. NoId \notin SessionIds \cup TemplateIds
  BY IdsAreDistinct
<1>3. Busy(r)
  BY DEF InsertSession, Busy, Free
<1>4. mintedBy[s] = org /\ mintedBy[t] = org
  BY <1>1, <1>2, <1>3 DEF Isolated, HandlersStayInTenant
<1>5. PICK x \in Replies(req[r].live, DbFaults, templates[t] # NoRow) :
        /\ sessions' = IF x.applied
                       THEN [sessions EXCEPT ![s] = PendingRow(org, t)] ELSE sessions
        /\ IF ~x.failed /\ Readable(PendingRow(org, t))
           THEN GoTo(r, "ensureSessionApp", x) ELSE Answer(r, 500)
  BY DEF InsertSession
<1>6. HandlersKept
  BY <1>3, <1>5, GoToKept, AnswerKept
<1>7. UNCHANGED <<templates, mintedBy>>
  BY DEF InsertSession
<1>8. HandlersStayInTenant'
  BY <1>6, <1>7 DEF Isolated, HandlersStayInTenant, HandlersKept
<1>9. RowsStayInTenant'
  <2>1. CASE sessions' = sessions
    BY <1>7, <2>1 DEF Isolated, RowsStayInTenant, Stored
  <2>2. CASE x.applied
    <3>1. templates[t] # NoRow
      BY <2>2, AppliedIsPossible
    <3>2. templates[t].org = org
      BY <1>1, <1>4, <3>1 DEF Isolated, RowsStayInTenant
    <3>3. sessions \in [SessionIds -> SessionRow \cup {NoRow}]
      BY DEF TypeOK
    <3>4. sessions'[s].org = org /\ sessions'[s].tpl = t
      BY <1>1, <1>5, <2>2, <3>3 DEF PendingRow
    <3>5. \A u \in SessionIds \ {s} : sessions'[u] = sessions[u]
      BY <1>5, <2>2, <3>3
    <3> QED
      BY <1>1, <1>4, <1>7, <3>1, <3>2, <3>4, <3>5 DEF Isolated, RowsStayInTenant, Stored
  <2> QED
    BY <1>5, <2>1, <2>2
<1> QED
  BY <1>8, <1>9 DEF Isolated

\* The later steps of a session route.
LEMMA SessionStepIsolated ==
  ASSUME TypeOK, Isolated, NEW r \in Requests, SessionStep(r)
  PROVE  Isolated'
<1> DEFINE s == req[r].sid
<1>1. CASE InsertSession(r)
  BY <1>1, InsertSessionIsolated
<1>2. CASE ~InsertSession(r)
  <2>1. req[r].pc \in SessionPcs
    BY <1>2 DEF SessionStep, SessionPcs, EnsureSessionApp, CreateVolume, CreateMachine,
       AskForMachine, UndoVolume, FailSession, Provisioned, ReloadSession, Power,
       RecordPower, DestroyMachine, DestroyVolume, DeleteRow
  <2>2. s \in SessionIds /\ Busy(r)
    BY <2>1 DEF TypeOK, HasTarget, SessionPcs, Busy, Free
  <2>3. UNCHANGED <<templates, mintedBy>>
    BY <1>2 DEF SessionStep, EnsureSessionApp, CreateVolume, CreateMachine,
       AskForMachine, UndoVolume, FailSession, Provisioned, ReloadSession, Power,
       RecordPower, DestroyMachine, DestroyVolume, DeleteRow, db
  <2>4. HandlersKept
    <3>1. \/ \E pc, x : GoTo(r, pc, x)
          \/ \E pc, x, what, told : GoOn(r, pc, x, what, told)
          \/ \E code : Answer(r, code)
      <4>1. CASE EnsureSessionApp(r)
        BY <4>1 DEF EnsureSessionApp
      <4>2. CASE CreateVolume(r)
        BY <4>2 DEF CreateVolume
      <4>3. CASE CreateMachine(r)
        BY <4>3 DEF CreateMachine, AskForMachine
      <4>4. CASE UndoVolume(r)
        BY <4>4 DEF UndoVolume
      <4>5. CASE FailSession(r)
        BY <4>5 DEF FailSession
      <4>6. CASE Provisioned(r)
        BY <4>6 DEF Provisioned
      <4>7. CASE ReloadSession(r)
        BY <4>7 DEF ReloadSession
      <4>8. CASE Power(r)
        BY <4>8 DEF Power
      <4>9. CASE RecordPower(r)
        BY <4>9 DEF RecordPower
      <4>10. CASE DestroyMachine(r)
        BY <4>10 DEF DestroyMachine
      <4>11. CASE DestroyVolume(r)
        BY <4>11 DEF DestroyVolume
      <4>12. CASE DeleteRow(r)
        BY <4>12 DEF DeleteRow
      <4> QED
        BY <1>2, <4>1, <4>2, <4>3, <4>4, <4>5, <4>6, <4>7, <4>8, <4>9, <4>10, <4>11, <4>12
           DEF SessionStep
    <3> QED
      BY <2>2, <3>1, GoToKept, GoOnKept, AnswerKept
  <2>5. SessionsKept
    <3>1. CASE FailSession(r)
      BY <2>2, <3>1, SetStatusKept, SessionsUnchangedKept DEF FailSession
    <3>2. CASE Provisioned(r)
      BY <2>2, <3>2, MarkProvisionedKept, SessionsUnchangedKept DEF Provisioned
    <3>3. CASE RecordPower(r)
      <4>1. sessions' = sessions \/ \E status : sessions' = SetStatus(s, status)
        BY <3>3 DEF RecordPower
      <4> QED
        BY <2>2, <4>1, SetStatusKept, SessionsUnchangedKept
    <3>4. CASE DeleteRow(r)
      <4>1. sessions' = sessions \/ sessions' = [sessions EXCEPT ![s] = NoRow]
        BY <3>4 DEF DeleteRow
      <4> QED
        BY <2>2, <4>1 DEF SessionsKept, TypeOK
    <3>5. CASE UNCHANGED sessions
      BY <3>5, SessionsUnchangedKept
    <3> QED
      BY <1>2, <3>1, <3>2, <3>3, <3>4, <3>5 DEF SessionStep, EnsureSessionApp, CreateVolume,
         CreateMachine, AskForMachine, UndoVolume, ReloadSession, Power, DestroyMachine,
         DestroyVolume, db
  <2> QED
    BY <2>3, <2>4, <2>5, TemplatesUnchangedKept, KeptIsolated
<1> QED
  BY <1>1, <1>2

\* The later steps of buildTemplate.
LEMMA TemplateStepIsolated ==
  ASSUME TypeOK, Isolated, NEW r \in Requests, TemplateStep(r)
  PROVE  Isolated'
<1> DEFINE t == req[r].tid
<1>1. req[r].pc \in TemplatePcs
  BY DEF TemplateStep, TemplatePcs, MarkBuilding, EnsureTemplateApp, BuildImage,
     MarkReady, MarkFailed, ReloadTemplate
<1>2. t \in TemplateIds /\ req[r].img \in Images /\ Busy(r)
  BY <1>1 DEF TypeOK, HasTarget, Request, TemplatePcs, Busy, Free
<1>3. UNCHANGED <<sessions, mintedBy>>
  BY DEF TemplateStep, MarkBuilding, EnsureTemplateApp, BuildImage,
     MarkReady, MarkFailed, ReloadTemplate, db
<1>4. HandlersKept
  <2>1. CASE BuildImage(r)
    <3>1. PICK x \in Replies(req[r].live, FlyFaults["BuildImage"], t \in apps) :
            req' = [req EXCEPT ![r].pc = IF x.failed THEN "markFailed" ELSE "markReady",
                               ![r].img = IF x.failed THEN NoImage ELSE t,
                               ![r].live = x.live]
      BY <2>1 DEF BuildImage
    <3>2. req \in [Requests -> Request]
      BY DEF TypeOK
    <3> DEFINE q == [req[r] EXCEPT !.pc = IF x.failed THEN "markFailed" ELSE "markReady",
                                   !.img = IF x.failed THEN NoImage ELSE t,
                                   !.live = x.live]
    <3>3. q.org = req[r].org /\ q.sid = req[r].sid /\ q.tid = req[r].tid
      BY <3>2 DEF Request
    <3>4. req'[r] = q /\ \A u \in Requests \ {r} : req'[u] = req[u]
      BY <3>1, <3>2 DEF Request
    <3> HIDE DEF q
    <3> QED
      BY <1>2, <3>3, <3>4 DEF HandlersKept, Busy, Free
  <2>2. CASE ~BuildImage(r)
    <3>1. \/ \E pc, x : GoTo(r, pc, x)
          \/ \E code : Answer(r, code)
      <4>1. CASE MarkBuilding(r)
        BY <4>1 DEF MarkBuilding
      <4>2. CASE EnsureTemplateApp(r)
        BY <4>2 DEF EnsureTemplateApp
      <4>3. CASE MarkReady(r)
        BY <4>3 DEF MarkReady
      <4>4. CASE MarkFailed(r)
        BY <4>4 DEF MarkFailed
      <4>5. CASE ReloadTemplate(r)
        BY <4>5 DEF ReloadTemplate
      <4> QED
        BY <2>2, <4>1, <4>2, <4>3, <4>4, <4>5 DEF TemplateStep
    <3> QED
      BY <1>2, <3>1, GoToKept, AnswerKept
  <2> QED
    BY <2>1, <2>2
<1>5. TemplatesKept
  <2>1. \/ UNCHANGED templates
        \/ \E status \in TemplateStatus, image \in Images :
             templates' = UpdateBuildStatus(t, status, image)
    <3>1. CASE MarkBuilding(r)
      BY <1>2, <3>1 DEF MarkBuilding, TemplateStatus
    <3>2. CASE MarkReady(r)
      BY <1>2, <3>2 DEF MarkReady, TemplateStatus
    <3>3. CASE MarkFailed(r)
      BY <3>3 DEF MarkFailed, TemplateStatus, Images
    <3>4. CASE UNCHANGED templates
      BY <3>4
    <3> QED
      BY <3>1, <3>2, <3>3, <3>4 DEF TemplateStep, EnsureTemplateApp, BuildImage,
         ReloadTemplate, db
  <2> QED
    BY <1>2, <2>1, UpdateBuildStatusKept, TemplatesUnchangedKept
<1> QED
  BY <1>3, <1>4, <1>5, SessionsUnchangedKept, KeptIsolated

\* What the lookups return belongs to the tenant that asked.
LEMMA FoundIsOwn ==
  ASSUME TypeOK, Isolated, NEW org, NEW x
  PROVE  /\ \A s \in SessionIds : GetSession(org, s, x) # NoRow => mintedBy[s] = org
         /\ \A t \in TemplateIds : GetTemplate(org, t, x) # NoRow => mintedBy[t] = org
BY DEF GetSession, GetTemplate, Isolated, RowsStayInTenant, Stored

\* A handler replaced by one that is through, or whose targets are its tenant's.
LEMMA NewHandlerIsolated ==
  ASSUME TypeOK, Isolated, NEW r \in Requests, NEW q, req' = [req EXCEPT ![r] = q],
         UNCHANGED mintedBy,
         \/ q.pc \in {"idle", "done"}
         \/ \A i \in {q.sid, q.tid} \ {NoId} : mintedBy[i] = q.org
  PROVE  HandlersStayInTenant'
<1>1. req'[r] = q /\ \A u \in Requests \ {r} : req'[u] = req[u]
  BY DEF TypeOK
<1> QED
  BY <1>1 DEF Isolated, HandlersStayInTenant, Busy, Free

\* Rows that stay as they are.
LEMMA RowsKeptIsolated ==
  ASSUME TypeOK, Isolated, UNCHANGED db
  PROVE  RowsStayInTenant'
BY DEF Isolated, RowsStayInTenant, Stored, db

LEMMA LookUpSessionIsolated ==
  ASSUME TypeOK, Isolated, NEW r \in Requests, NEW op \in SessionOps,
         LookUpSession(r, op)
  PROVE  Isolated'
<1>1. PICK org \in Orgs, s \in SessionIds, x \in Queried(TRUE) :
        LET row == GetSession(org, s, x)
            pc  == IF row = NoRow THEN "done" ELSE FirstCall(op, row.ids)
            new == Accept(op, org, s, NoId, x)
        IN  req' = [req EXCEPT ![r] =
              IF pc = "done"
              THEN [new EXCEPT !.pc = "done", !.live = TRUE,
                               !.ans = MapError("ErrSessionNotFound")]
              ELSE [new EXCEPT !.pc = pc, !.ids = row.ids]]
  BY DEF LookUpSession, Minted
<1> DEFINE row == GetSession(org, s, x)
           pc  == IF row = NoRow THEN "done" ELSE FirstCall(op, row.ids)
           new == Accept(op, org, s, NoId, x)
           q   == IF pc = "done"
                  THEN [new EXCEPT !.pc = "done", !.live = TRUE,
                                   !.ans = MapError("ErrSessionNotFound")]
                  ELSE [new EXCEPT !.pc = pc, !.ids = row.ids]
<1>2. new \in Request /\ new.org = org /\ new.sid = s /\ new.tid = NoId
  <2>1. x.live \in BOOLEAN
    BY FirstReplyType
  <2> QED
    BY <2>1, AcceptType
<1>3. q.pc = "done" \/ (row # NoRow /\ q.org = org /\ q.sid = s /\ q.tid = NoId)
  <2>1. CASE pc = "done"
    BY <1>2, <2>1 DEF Request
  <2>2. CASE pc # "done"
    <3>1. row # NoRow
      BY <2>2
    <3> HIDE DEF pc, new
    <3> QED
      BY <1>2, <2>2, <3>1 DEF Request
  <2> QED
    BY <2>1, <2>2
<1>4. UNCHANGED db
  BY DEF LookUpSession
<1>5. row # NoRow => mintedBy[s] = org
  BY FoundIsOwn
<1>6. req' = [req EXCEPT ![r] = q]
  BY <1>1
<1> HIDE DEF q, row
<1>7. HandlersStayInTenant'
  BY <1>3, <1>4, <1>5, <1>6, NewHandlerIsolated DEF db
<1> QED
  BY <1>4, <1>7, RowsKeptIsolated DEF Isolated

\* Ids are never reused: minting one disturbs no row and no handler.
LEMMA MintingDisturbsNothing ==
  ASSUME TypeOK, Isolated, NEW i \in SessionIds \cup TemplateIds, mintedBy[i] = NoId,
         NEW org \in Orgs, mintedBy' = [mintedBy EXCEPT ![i] = org]
  PROVE  /\ mintedBy'[i] = org
         /\ \A s \in SessionIds : sessions[s] # NoRow => s # i /\ mintedBy'[s] = mintedBy[s]
         /\ \A t \in TemplateIds : templates[t] # NoRow => t # i /\ mintedBy'[t] = mintedBy[t]
         /\ \A q \in Requests : Busy(q) =>
              \A j \in {req[q].sid, req[q].tid} \ {NoId} : mintedBy'[j] = mintedBy[j]
<1>1. NoId \notin Orgs
  BY IdsAreDistinct
<1>2. mintedBy \in [SessionIds \cup TemplateIds -> Orgs \cup {NoId}]
  BY DEF TypeOK
<1>3. /\ mintedBy'[i] = org
      /\ \A j \in SessionIds \cup TemplateIds : j # i => mintedBy'[j] = mintedBy[j]
  BY <1>2
<1>4. \A s \in SessionIds : sessions[s] # NoRow => s # i
  BY <1>1 DEF TypeOK, SessionRow, Isolated, RowsStayInTenant, Stored
<1>5. \A t \in TemplateIds : templates[t] # NoRow => t # i
  BY <1>1 DEF TypeOK, TemplateRow, Isolated, RowsStayInTenant
<1>6. ASSUME NEW q \in Requests, Busy(q), NEW j \in {req[q].sid, req[q].tid} \ {NoId}
      PROVE  mintedBy'[j] = mintedBy[j]
  <2>1. req[q] \in Request /\ HasTarget(req[q])
    BY DEF TypeOK
  <2>2. req[q].pc \in SessionPcs \cup TemplatePcs
    BY <1>6, <2>1 DEF Busy, Free, Request, Pcs
  <2>3. req[q].org \in Orgs
    BY <2>1, <2>2 DEF HasTarget
  <2>4. mintedBy[j] = req[q].org
    BY <1>6 DEF Isolated, HandlersStayInTenant
  <2>5. j \in SessionIds \cup TemplateIds
    BY <2>1 DEF Request
  <2> QED
    BY <1>1, <1>3, <2>3, <2>4, <2>5
<1> QED
  BY <1>3, <1>4, <1>5, <1>6

LEMMA CreateSessionIsolated ==
  ASSUME TypeOK, Isolated, NEW r \in Requests, CreateSession(r)
  PROVE  Isolated'
<1>1. PICK org \in Orgs, t \in TemplateIds, x \in Queried(TRUE) :
        LET tpl == GetTemplate(org, t, x)
            new == Accept("createSession", org, NoId, t, x)
            reject(e) == /\ req' = [req EXCEPT ![r] =
                               [new EXCEPT !.pc = "done", !.live = TRUE, !.ans = MapError(e)]]
                         /\ UNCHANGED mintedBy
        IN  \/ tpl = NoRow /\ reject(TemplateError(LookupError))
            \/ tpl # NoRow /\ ImageToBoot(tpl) = NoImage /\ reject("ErrTemplateNotReady")
            \/ /\ tpl # NoRow
               /\ ImageToBoot(tpl) # NoImage
               /\ \E s \in SessionIds \ Minted(SessionIds) :
                    /\ mintedBy' = [mintedBy EXCEPT ![s] = org]
                    /\ req' = [req EXCEPT ![r] = [new EXCEPT !.pc = "insertSession",
                                 !.sid = s, !.img = ImageToBoot(tpl)]]
  BY DEF CreateSession, Minted
<1> DEFINE tpl == GetTemplate(org, t, x)
           new == Accept("createSession", org, NoId, t, x)
<1>2. new \in Request /\ new.org = org /\ new.tid = t
  <2>1. x.live \in BOOLEAN
    BY FirstReplyType
  <2> QED
    BY <2>1, AcceptType DEF SessionOps
<1>3. UNCHANGED <<sessions, templates>>
  BY DEF CreateSession
<1>4. CASE \E e : /\ req' = [req EXCEPT ![r] =
                       [new EXCEPT !.pc = "done", !.live = TRUE, !.ans = MapError(e)]]
                  /\ UNCHANGED mintedBy
  <2>1. PICK e : req' = [req EXCEPT ![r] =
                   [new EXCEPT !.pc = "done", !.live = TRUE, !.ans = MapError(e)]]
    BY <1>4
  <2> DEFINE q == [new EXCEPT !.pc = "done", !.live = TRUE, !.ans = MapError(e)]
  <2>2. q.pc = "done"
    BY <1>2 DEF Request
  <2> HIDE DEF new
  <2>3. HandlersStayInTenant'
    BY <1>4, <2>1, <2>2, NewHandlerIsolated
  <2> QED
    BY <1>3, <1>4, <2>3, RowsKeptIsolated DEF Isolated, db
<1>5. CASE /\ tpl # NoRow
           /\ \E s \in SessionIds \ Minted(SessionIds) :
                /\ mintedBy' = [mintedBy EXCEPT ![s] = org]
                /\ req' = [req EXCEPT ![r] = [new EXCEPT !.pc = "insertSession",
                             !.sid = s, !.img = ImageToBoot(tpl)]]
  <2>1. PICK s \in SessionIds :
          /\ mintedBy[s] = NoId
          /\ mintedBy' = [mintedBy EXCEPT ![s] = org]
          /\ req' = [req EXCEPT ![r] = [new EXCEPT !.pc = "insertSession",
                       !.sid = s, !.img = ImageToBoot(tpl)]]
    BY <1>5 DEF Minted
  <2>2. /\ mintedBy'[s] = org
        /\ \A u \in SessionIds : sessions[u] # NoRow => mintedBy'[u] = mintedBy[u]
        /\ \A u \in TemplateIds : templates[u] # NoRow => mintedBy'[u] = mintedBy[u]
        /\ \A q \in Requests : Busy(q) =>
             \A j \in {req[q].sid, req[q].tid} \ {NoId} : mintedBy'[j] = mintedBy[j]
    BY <2>1, MintingDisturbsNothing
  <2>3. RowsStayInTenant'
    BY <1>3, <2>2 DEF Isolated, RowsStayInTenant, Stored
  <2>4. mintedBy'[t] = org
    <3>1. templates[t] # NoRow
      BY <1>5 DEF GetTemplate
    <3> QED
      BY <1>5, <2>2, <3>1, FoundIsOwn
  <2> DEFINE q == [new EXCEPT !.pc = "insertSession", !.sid = s, !.img = ImageToBoot(tpl)]
  <2>5. q.org = org /\ q.sid = s /\ q.tid = t
    BY <1>2 DEF Request
  <2>6. req'[r] = q /\ \A u \in Requests \ {r} : req'[u] = req[u]
    BY <2>1 DEF TypeOK
  <2> HIDE DEF q
  <2>7. HandlersStayInTenant'
    BY <2>2, <2>4, <2>5, <2>6 DEF Isolated, HandlersStayInTenant, Busy, Free
  <2> QED
    BY <2>3, <2>7 DEF Isolated
<1> QED
  BY <1>1, <1>4, <1>5

LEMMA SessionArrivalIsolated ==
  ASSUME TypeOK, Isolated, NEW r \in Requests, SessionArrival(r)
  PROVE  Isolated'
<1>1. CASE CreateSession(r)
  BY <1>1, CreateSessionIsolated
<1>2. CASE ResumeSession(r) \/ HibernateSession(r) \/ DeleteSession(r)
  BY <1>2, LookUpSessionIsolated DEF ResumeSession, HibernateSession, DeleteSession, SessionOps
<1>3. CASE ReadSession(r) \/ ListSessions(r)
  <2>a. \E new \in Request : \E code :
          req' = [req EXCEPT ![r] = [new EXCEPT !.pc = "done", !.ans = code]]
    <3>1. CASE ReadSession(r)
      <4>1. PICK org \in Orgs, s \in SessionIds, x \in Queried(TRUE) :
              req' = [req EXCEPT ![r] =
                        [Accept("getSession", org, s, NoId, Done)
                           EXCEPT !.pc = "done",
                                  !.ans = IF GetSession(org, s, x) = NoRow
                                          THEN MapError(LookupError) ELSE 200]]
        BY <3>1 DEF ReadSession, Minted
      <4> DEFINE new == Accept("getSession", org, s, NoId, Done)
                 code == IF GetSession(org, s, x) = NoRow
                         THEN MapError(LookupError) ELSE 200
      <4>2. new \in Request
        BY AcceptType, DoneIsLive DEF SessionOps
      <4>3. req' = [req EXCEPT ![r] = [new EXCEPT !.pc = "done", !.ans = code]]
        BY <4>1
      <4> HIDE DEF new, code
      <4> QED
        BY <4>2, <4>3
    <3>2. CASE ListSessions(r)
      <4>1. PICK org \in Orgs, x \in Queried(TRUE) :
              req' = [req EXCEPT ![r] =
                        [Accept("listSessions", org, NoId, NoId, Done)
                           EXCEPT !.pc = "done",
                                  !.ans = IF ListSucceeds(sessions, org, x) THEN 200 ELSE 500]]
        BY <3>2 DEF ListSessions
      <4> DEFINE new == Accept("listSessions", org, NoId, NoId, Done)
                 code == IF ListSucceeds(sessions, org, x) THEN 200 ELSE 500
      <4>2. new \in Request
        BY AcceptType, DoneIsLive DEF SessionOps
      <4>3. req' = [req EXCEPT ![r] = [new EXCEPT !.pc = "done", !.ans = code]]
        BY <4>1
      <4> HIDE DEF new, code
      <4> QED
        BY <4>2, <4>3
    <3> QED
      BY <1>3, <3>1, <3>2
  <2>b. PICK new \in Request :
          \E code : req' = [req EXCEPT ![r] = [new EXCEPT !.pc = "done", !.ans = code]]
    BY <2>a
  <2>1. PICK code :
          req' = [req EXCEPT ![r] = [new EXCEPT !.pc = "done", !.ans = code]]
    BY <2>b
  <2> DEFINE q == [new EXCEPT !.pc = "done", !.ans = code]
  <2>3. q.pc = "done"
    BY <2>1 DEF Request
  <2>4. UNCHANGED db
    BY <1>3 DEF ReadSession, ListSessions
  <2>5. HandlersStayInTenant'
    BY <2>1, <2>3, <2>4, NewHandlerIsolated DEF db
  <2> QED
    BY <2>4, <2>5, RowsKeptIsolated DEF Isolated
<1> QED
  BY <1>1, <1>2, <1>3 DEF SessionArrival

\* A request answered after its one statement leaves no handler behind.
LEMMA AnswerAtOnceKept ==
  ASSUME TypeOK, NEW r \in Requests, NEW op \in TemplateOps, NEW org \in Orgs,
         NEW t \in TemplateIds \cup {NoId}, NEW code, AnswerAtOnce(r, op, org, t, code)
  PROVE  HandlersKept
<1> DEFINE new == Accept(op, org, NoId, t, Done)
           q == [new EXCEPT !.pc = "done", !.ans = code]
<1>1. new \in Request
  BY AcceptType, DoneIsLive
<1>2. req' = [req EXCEPT ![r] = q]
  BY DEF AnswerAtOnce
<1> HIDE DEF new
<1>3. q.pc = "done"
  BY <1>1 DEF Request
<1>4. req'[r].pc = "done" /\ \A u \in Requests \ {r} : req'[u] = req[u]
  BY <1>2, <1>3 DEF TypeOK
<1> QED
  BY <1>4 DEF HandlersKept, Busy, Free

LEMMA CreateTemplateIsolated ==
  ASSUME TypeOK, Isolated, NEW r \in Requests, CreateTemplate(r)
  PROVE  Isolated'
<1>p. PICK org \in Orgs, t \in TemplateIds \ Minted(TemplateIds) :
        \E x \in Replies(TRUE, DbFaults, TRUE) \cup
                {y \in {Refused} : \E u \in TemplateIds :
                                     templates[u] # NoRow /\ templates[u].org = org} :
          /\ mintedBy' = [mintedBy EXCEPT ![t] = org]
          /\ templates' = IF x.applied
                          THEN [templates EXCEPT ![t] = DraftRow(org)] ELSE templates
          /\ AnswerAtOnce(r, "createTemplate", org, t,
                          IF ~x.failed /\ Readable(DraftRow(org)) THEN 201 ELSE 500)
  BY DEF CreateTemplate
<1>a. PICK code :
        /\ mintedBy' = [mintedBy EXCEPT ![t] = org]
        /\ \/ templates' = templates
           \/ templates' = [templates EXCEPT ![t] = DraftRow(org)]
        /\ AnswerAtOnce(r, "createTemplate", org, t, code)
  BY <1>p
<1>1. /\ mintedBy[t] = NoId /\ t \in TemplateIds
      /\ mintedBy' = [mintedBy EXCEPT ![t] = org]
      /\ \/ templates' = templates
         \/ templates' = [templates EXCEPT ![t] = DraftRow(org)]
      /\ AnswerAtOnce(r, "createTemplate", org, t, code)
  BY <1>a DEF Minted
<1>2. HandlersKept
  BY <1>1, AnswerAtOnceKept DEF TemplateOps
<1>3. /\ mintedBy'[t] = org
      /\ \A s \in SessionIds : sessions[s] # NoRow => mintedBy'[s] = mintedBy[s]
      /\ \A u \in TemplateIds : templates[u] # NoRow => u # t /\ mintedBy'[u] = mintedBy[u]
      /\ \A q \in Requests : Busy(q) =>
           \A j \in {req[q].sid, req[q].tid} \ {NoId} : mintedBy'[j] = mintedBy[j]
  BY <1>1, MintingDisturbsNothing
<1>4. HandlersStayInTenant'
  BY <1>2, <1>3 DEF Isolated, HandlersStayInTenant, HandlersKept
<1>5. RowsStayInTenant'
  <2>1. UNCHANGED sessions
    BY DEF CreateTemplate
  <2>2. DraftRow(org).org = org
    BY DEF DraftRow
  <2>3. \A u \in TemplateIds : u # t => templates'[u] = templates[u]
    BY <1>1 DEF TypeOK
  <2>4. templates'[t] # NoRow => templates'[t].org = org \/ templates'[t] = templates[t]
    BY <1>1, <2>2 DEF TypeOK
  <2>5. \A s \in SessionIds : sessions[s] # NoRow =>
          sessions[s].tpl \in TemplateIds /\ templates[sessions[s].tpl] # NoRow
    BY DEF TypeOK, SessionRow, Isolated, RowsStayInTenant, Stored
  <2> QED
    BY <1>3, <2>1, <2>3, <2>4, <2>5 DEF Isolated, RowsStayInTenant, Stored
<1> QED
  BY <1>4, <1>5 DEF Isolated

\* The cascade takes every session of the template with it.
LEMMA DeleteTemplateIsolated ==
  ASSUME TypeOK, Isolated, NEW r \in Requests, DeleteTemplate(r)
  PROVE  Isolated'
<1>1. PICK org \in Orgs, t \in TemplateIds, x \in Queried(TRUE) :
        LET found == templates[t] # NoRow /\ templates[t].org = org
            gone  == x.applied /\ found
        IN  /\ templates' = IF gone THEN [templates EXCEPT ![t] = NoRow] ELSE templates
            /\ sessions' = IF gone THEN Cascade(t) ELSE sessions
            /\ AnswerAtOnce(r, "deleteTemplate", org, t,
                            IF x.failed THEN 500
                            ELSE IF found THEN 204 ELSE MapError("ErrNotFound"))
  BY DEF DeleteTemplate, Minted
<1>2. UNCHANGED mintedBy
  BY DEF DeleteTemplate
<1>3. HandlersKept
  BY <1>1, AnswerAtOnceKept DEF TemplateOps
<1>4. HandlersStayInTenant'
  BY <1>2, <1>3 DEF Isolated, HandlersStayInTenant, HandlersKept
<1>5. RowsStayInTenant'
  <2>1. CASE sessions' = sessions /\ templates' = templates
    BY <1>2, <2>1 DEF Isolated, RowsStayInTenant, Stored
  <2>2. CASE sessions' = Cascade(t) /\ templates' = [templates EXCEPT ![t] = NoRow]
    <3>1. \A s \in SessionIds : sessions'[s] # NoRow =>
            sessions[s] # NoRow /\ sessions'[s] = sessions[s] /\ sessions[s].tpl # t
      BY <2>2 DEF Cascade
    <3>2. \A u \in TemplateIds : u # t => templates'[u] = templates[u]
      BY <2>2 DEF TypeOK
    <3>3. templates'[t] = NoRow
      BY <2>2 DEF TypeOK
    <3>4. \A s \in SessionIds : sessions[s] # NoRow => sessions[s].tpl \in TemplateIds
      BY DEF TypeOK, SessionRow
    <3> QED
      BY <1>2, <3>1, <3>2, <3>3, <3>4 DEF Isolated, RowsStayInTenant, Stored
  <2> QED
    BY <1>1, <2>1, <2>2
<1> QED
  BY <1>4, <1>5 DEF Isolated

LEMMA BuildTemplateIsolated ==
  ASSUME TypeOK, Isolated, NEW r \in Requests, BuildTemplate(r)
  PROVE  Isolated'
<1>1. PICK org \in Orgs, t \in TemplateIds, x \in Queried(TRUE) :
        \/ AnswerAtOnce(r, "buildTemplate", org, t, MapError(TemplateError(LookupError)))
        \/ /\ GetTemplate(org, t, x) # NoRow
           /\ req' = [req EXCEPT ![r] =
                        [Accept("buildTemplate", org, NoId, t, x)
                           EXCEPT !.pc = "markBuilding",
                                  !.img = GetTemplate(org, t, x).image]]
  BY DEF BuildTemplate, Minted
<1>2. UNCHANGED db
  BY DEF BuildTemplate
<1>3. CASE AnswerAtOnce(r, "buildTemplate", org, t, MapError(TemplateError(LookupError)))
  BY <1>2, <1>3, AnswerAtOnceKept, SessionsUnchangedKept, TemplatesUnchangedKept,
     KeptIsolated DEF db, TemplateOps
<1>4. CASE /\ GetTemplate(org, t, x) # NoRow
           /\ req' = [req EXCEPT ![r] =
                        [Accept("buildTemplate", org, NoId, t, x)
                           EXCEPT !.pc = "markBuilding",
                                  !.img = GetTemplate(org, t, x).image]]
  <2> DEFINE new == Accept("buildTemplate", org, NoId, t, x)
             q == [new EXCEPT !.pc = "markBuilding", !.img = GetTemplate(org, t, x).image]
  <2>1. new \in Request /\ new.org = org /\ new.sid = NoId /\ new.tid = t
    <3>1. x.live \in BOOLEAN
      BY FirstReplyType
    <3>2. "buildTemplate" \in SessionOps \cup TemplateOps
      BY DEF TemplateOps
    <3>3. ASSUME NEW s \in SessionIds \cup {NoId}
          PROVE  LET n == Accept("buildTemplate", org, s, t, x)
                 IN  n \in Request /\ n.org = org /\ n.sid = s /\ n.tid = t
      BY <3>1, <3>2, AcceptType
    <3> QED
      BY <3>3
  <2>2. req' = [req EXCEPT ![r] = q]
    BY <1>4
  <2> HIDE DEF new
  <2>3. q.org = org /\ q.sid = NoId /\ q.tid = t
    BY <2>1 DEF Request
  <2>4. mintedBy[t] = org
    BY <1>4, FoundIsOwn
  <2> HIDE DEF q
  <2>5. HandlersStayInTenant'
    BY <1>2, <2>2, <2>3, <2>4, NewHandlerIsolated DEF db
  <2> QED
    BY <1>2, <2>5, RowsKeptIsolated DEF Isolated
<1> QED
  BY <1>1, <1>3, <1>4

LEMMA TemplateArrivalIsolated ==
  ASSUME TypeOK, Isolated, NEW r \in Requests, TemplateArrival(r)
  PROVE  Isolated'
<1>1. CASE ReadTemplate(r) \/ ListTemplates(r)
  <2>1. HandlersKept
    <3>1. CASE ReadTemplate(r)
      <4>1. PICK org \in Orgs, t \in TemplateIds, x \in Queried(TRUE) :
              AnswerAtOnce(r, "getTemplate", org, t,
                           IF GetTemplate(org, t, x) = NoRow
                           THEN MapError(LookupError) ELSE 200)
        BY <3>1 DEF ReadTemplate, Minted
      <4> QED
        BY <4>1, AnswerAtOnceKept DEF TemplateOps
    <3>2. CASE ListTemplates(r)
      <4>1. PICK org \in Orgs, x \in Queried(TRUE) :
              AnswerAtOnce(r, "listTemplates", org, NoId,
                           IF ListSucceeds(templates, org, x) THEN 200 ELSE 500)
        BY <3>2 DEF ListTemplates
      <4> QED
        BY <4>1, AnswerAtOnceKept DEF TemplateOps
    <3> QED
      BY <1>1, <3>1, <3>2
  <2>2. UNCHANGED db
    BY <1>1 DEF ReadTemplate, ListTemplates
  <2> QED
    BY <2>1, <2>2, SessionsUnchangedKept, TemplatesUnchangedKept, KeptIsolated DEF db
<1> QED
  BY <1>1, CreateTemplateIsolated, DeleteTemplateIsolated, BuildTemplateIsolated
     DEF TemplateArrival

\* Restarts and the proxy touch no row and no handler's target.
LEMMA EnvironmentIsolated ==
  ASSUME TypeOK, Isolated, Crash \/ \E s \in SessionIds : Autostop(s) \/ Autostart(s)
  PROVE  Isolated'
<1>1. UNCHANGED db
  BY DEF Crash, Autostop, Autostart
<1>2. HandlersKept
  <2>1. CASE Crash
    BY <2>1 DEF Crash, HandlersKept, Busy, Free, Idle
  <2>2. CASE UNCHANGED req
    BY <2>2, RequestsUnchangedKept
  <2> QED
    BY <2>1, <2>2 DEF Autostop, Autostart
<1> QED
  BY <1>1, <1>2, SessionsUnchangedKept, TemplatesUnchangedKept, KeptIsolated DEF db

LEMMA InitIsolated == Init => Isolated
BY DEF Init, Isolated, RowsStayInTenant, HandlersStayInTenant, Stored, Busy, Free, Idle

LEMMA NextIsolated == TypeOK /\ Isolated /\ [Next]_vars => Isolated'
<1> SUFFICES ASSUME TypeOK, Isolated, [Next]_vars PROVE Isolated'
  OBVIOUS
<1>1. CASE \E r \in Requests : SessionArrival(r) \/ TemplateArrival(r) \/ Advance(r)
  BY <1>1, SessionArrivalIsolated, TemplateArrivalIsolated, SessionStepIsolated,
     TemplateStepIsolated DEF Advance
<1>2. CASE Crash \/ \E s \in SessionIds : Autostop(s) \/ Autostart(s)
  BY <1>2, EnvironmentIsolated
<1>3. CASE UNCHANGED vars
  BY <1>3, SessionsUnchangedKept, TemplatesUnchangedKept, RequestsUnchangedKept,
     KeptIsolated DEF vars
<1> QED
  BY <1>1, <1>2, <1>3 DEF Next

\* Rows and handlers hold each other's invariant up: neither is inductive alone.
LEMMA TenantsIsolated == Spec => []Isolated
BY InitIsolated, NextIsolated, TypeCorrect, PTL DEF Spec

\* Whoever asks for whatever in any order, and whatever fails, no row ever
\* belongs to another tenant than the one its id was made for, and a session's
\* template is there and belongs to the session's tenant.
THEOREM RowsIsolated == Spec => []RowsStayInTenant
BY TenantsIsolated, PTL DEF Isolated

\* No handler ever works on another tenant's session or template: the lookup at
\* its start suffices, although the updates that follow name the id alone.
THEOREM HandlersIsolated == Spec => []HandlersStayInTenant
BY TenantsIsolated, PTL DEF Isolated
=============================================================================
