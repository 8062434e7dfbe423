---------------------------- MODULE SessionProofs ----------------------------
(***************************************************************************)
(* The lifecycle of a session and what its answers promise, for any number *)
(* of requests, tenants, sessions and templates, any faults, hang-ups and  *)
(* restarts.  The statements name a row by its id and look at nothing      *)
(* else; that none of them hits a row in the wrong status is due to which  *)
(* handlers can be at work on an id at once, and that is the invariant.    *)
(***************************************************************************)
EXTENDS ControlPlaneProofs

\* Past the check of the Fly ids, and concerned with them; or past Provisioned.
UsePcs == {"power", "setStatus", "reloadSession", "destroyMachine", "destroyVolume"}

\* A creation has its id to itself: no other creation and no handler that found
\* a row with Fly ids works on it, and its row, once there, is pending.
CreatorsFit ==
  \A r \in Requests : req[r].pc \in CreatePcs =>
    /\ Stored(req[r].sid) => sessions[req[r].sid].status = "pending"
    /\ req[r].pc = "insertSession" => ~Stored(req[r].sid)
    /\ \A q \in Requests \ {r} :
         req[q].pc \in CreatePcs \cup UsePcs => req[q].sid # req[r].sid

\* What a handler found in a row, or put there, the row names still, if it is
\* there; the app is always among it.
UsersFit ==
  \A r \in Requests : req[r].pc \in UsePcs =>
    (Stored(req[r].sid) => sessions[req[r].sid].ids = req[r].ids \cup {"app"})

\* A handler makes the calls of its own kind of route, and one that resumes or
\* hibernates knows the machine.
RouteFits(q) ==
  /\ q.pc \in SessionPcs => q.op \in SessionOps
  /\ q.pc \in TemplatePcs => q.op = "buildTemplate"
  /\ q.pc \in CreatePcs => q.op = "createSession"
  /\ q.pc \in {"power", "setStatus"} => "machine" \in q.ids
  /\ q.pc = "reloadSession" => q.op = "createSession" \/ "machine" \in q.ids

RoutesFit == \A r \in Requests : RouteFits(req[r])

\* IdsMatchStatus, of one row.
RowTells(row) ==
  /\ row.status \in {"running", "suspended"} <=> "app" \in row.ids
  /\ row.status = "suspended" => "machine" \in row.ids
  /\ row.ids # {} => "app" \in row.ids

LEMMA RowsTell ==
  /\ IdsMatchStatus <=> \A s \in SessionIds : Stored(s) => RowTells(sessions[s])
  /\ IdsMatchStatus' <=> \A s \in SessionIds : sessions'[s] # NoRow => RowTells(sessions'[s])
BY DEF IdsMatchStatus, RowTells, Attached, Named, Stored

SessionsFit == IdsMatchStatus /\ CreatorsFit /\ UsersFit

-----------------------------------------------------------------------------
(* How handlers move.                                                      *)

LEMMA GoToEffect ==
  ASSUME TypeOK, NEW r \in Requests, NEW pc, NEW x, GoTo(r, pc, x)
  PROVE  /\ req'[r].pc = pc
         /\ req'[r].sid = req[r].sid
         /\ req'[r].op = req[r].op
         /\ req'[r].org = req[r].org
         /\ req'[r].tid = req[r].tid
         /\ req'[r].img = req[r].img
         /\ req'[r].ids = req[r].ids
         /\ \A q \in Requests \ {r} : req'[q] = req[q]
<1>1. req \in [Requests -> Request]
  BY DEF TypeOK
<1> QED
  BY <1>1 DEF GoTo, Request

LEMMA GoOnEffect ==
  ASSUME TypeOK, NEW r \in Requests, NEW pc, NEW x, NEW what, NEW told,
         GoOn(r, pc, x, what, told)
  PROVE  /\ req'[r].pc = pc
         /\ req'[r].sid = req[r].sid
         /\ req'[r].op = req[r].op
         /\ req'[r].org = req[r].org
         /\ req'[r].tid = req[r].tid
         /\ req'[r].img = req[r].img
         /\ told => req'[r].ids = req[r].ids \cup {what}
         /\ ~told => req'[r].ids = req[r].ids
         /\ \A q \in Requests \ {r} : req'[q] = req[q]
<1>1. req \in [Requests -> Request]
  BY DEF TypeOK
<1> DEFINE ids == IF told THEN req[r].ids \cup {what} ELSE req[r].ids
           q   == [req[r] EXCEPT !.pc = pc, !.live = x.live, !.ids = ids]
<1>2. req' = [req EXCEPT ![r] = q]
  BY <1>1 DEF GoOn, Request
<1> HIDE DEF ids
<1>3. /\ q.pc = pc /\ q.sid = req[r].sid /\ q.op = req[r].op /\ q.org = req[r].org
      /\ q.tid = req[r].tid /\ q.img = req[r].img /\ q.ids = ids
  BY <1>1 DEF Request
<1> HIDE DEF q
<1>4. req'[r] = q /\ \A u \in Requests \ {r} : req'[u] = req[u]
  BY <1>1, <1>2
<1> QED
  BY <1>3, <1>4 DEF ids

\* Handler r goes on to pc, with what it learned if anything.
Goes(r, pc) ==
  \/ \E x : GoTo(r, pc, x)
  \/ \E x, what, told : GoOn(r, pc, x, what, told)

LEMMA GoesEffect ==
  ASSUME TypeOK, NEW r \in Requests, NEW pc, Goes(r, pc)
  PROVE  /\ req'[r].pc = pc
         /\ req'[r].sid = req[r].sid
         /\ req'[r].op = req[r].op
         /\ req'[r].org = req[r].org
         /\ req'[r].tid = req[r].tid
         /\ req'[r].img = req[r].img
         /\ req[r].ids \subseteq req'[r].ids
         /\ \A q \in Requests \ {r} : req'[q] = req[q]
<1>1. CASE \E x : GoTo(r, pc, x)
  BY <1>1, GoToEffect
<1>2. CASE \E x, what, told : GoOn(r, pc, x, what, told)
  BY <1>2, GoOnEffect
<1> QED
  BY <1>1, <1>2 DEF Goes

LEMMA AnswerEffect ==
  ASSUME TypeOK, NEW r \in Requests, NEW code, Answer(r, code)
  PROVE  /\ req'[r].pc = "done"
         /\ req'[r].sid = req[r].sid
         /\ req'[r].op = req[r].op
         /\ req'[r].ans = code
         /\ \A q \in Requests \ {r} : req'[q] = req[q]
<1>1. req \in [Requests -> Request]
  BY DEF TypeOK
<1> QED
  BY <1>1 DEF Answer, Request

LEMMA AnswerAtOnceEffect ==
  ASSUME TypeOK, NEW r \in Requests, NEW op \in TemplateOps, NEW org \in Orgs,
         NEW t \in TemplateIds \cup {NoId}, NEW code, AnswerAtOnce(r, op, org, t, code)
  PROVE  /\ req'[r].pc = "done"
         /\ req'[r].op = op
         /\ req'[r].tid = t
         /\ req'[r].ans = code
         /\ \A q \in Requests \ {r} : req'[q] = req[q]
<1> DEFINE new == Accept(op, org, NoId, t, Done)
           q == [new EXCEPT !.pc = "done", !.ans = code]
<1>1. new \in Request /\ new.op = op /\ new.tid = t
  BY AcceptType, DoneIsLive
<1>2. req' = [req EXCEPT ![r] = q]
  BY DEF AnswerAtOnce
<1> HIDE DEF new
<1>3. q.pc = "done" /\ q.op = op /\ q.tid = t /\ q.ans = code
  BY <1>1 DEF Request
<1> HIDE DEF q
<1>4. req'[r] = q /\ \A u \in Requests \ {r} : req'[u] = req[u]
  BY <1>2 DEF TypeOK
<1> QED
  BY <1>3, <1>4

\* The record a lookup of a session leaves, when op \in SessionOps.
LEMMA LookUpEffect ==
  ASSUME TypeOK, NEW r \in Requests, NEW op \in SessionOps, LookUpSession(r, op)
  PROVE  /\ req'[r].op = op
         /\ \/ req'[r].pc = "done" /\ req'[r].ans = 404
            \/ /\ req'[r].sid \in SessionIds
               /\ Stored(req'[r].sid)
               /\ req'[r].ids = sessions[req'[r].sid].ids
               /\ req'[r].pc = FirstCall(op, req'[r].ids)
               /\ req'[r].pc # "done"
         /\ \A q \in Requests \ {r} : req'[q] = req[q]
<1>1. PICK org \in Orgs, s \in SessionIds, x \in Queried(TRUE) :
        LET row == GetSession(org, s, x)
            pc  == IF row = NoRow THEN "done" ELSE FirstCall(op, row.ids)
            new == Accept(op, org, s, NoId, x)
        IN  req' = [req EXCEPT ![r] =
              IF pc = "done"
              THEN [new EXCEPT !.pc = "done", !.live = TRUE,
                               !.ans = MapError("ErrSessionNotFound")]
              ELSE [new EXCEPT !.pc = pc, !.ids = row.ids]]
  BY DEF LookUpSession, Minted
<1> DEFINE row == GetSession(org, s, x)
           pc  == IF row = NoRow THEN "done" ELSE FirstCall(op, row.ids)
           new == Accept(op, org, s, NoId, x)
           q   == IF pc = "done"
                  THEN [new EXCEPT !.pc = "done", !.live = TRUE,
                                   !.ans = MapError("ErrSessionNotFound")]
                  ELSE [new EXCEPT !.pc = pc, !.ids = row.ids]
<1>2. new \in Request /\ new.sid = s /\ new.op = op
  <2>1. x.live \in BOOLEAN
    BY FirstReplyType
  <2> QED
    BY <2>1, AcceptType
<1>3. row # NoRow => row = sessions[s] /\ Stored(s)
  BY DEF GetSession, Stored
<1>4. req'[r] = q /\ \A u \in Requests \ {r} : req'[u] = req[u]
  BY <1>1 DEF TypeOK
<1>5. MapError("ErrSessionNotFound") = 404
  BY DEF MapError
<1>6. CASE pc = "done"
  <2>1. q.pc = "done" /\ q.ans = 404 /\ q.op = op
    BY <1>2, <1>5, <1>6 DEF Request
  <2> HIDE DEF q
  <2> QED
    BY <1>4, <2>1
<1>7. CASE pc # "done"
  <2>1. row # NoRow /\ pc = FirstCall(op, row.ids)
    BY <1>7
  <2>2. row.ids = sessions[s].ids
    BY <1>3, <2>1
  <2>4. q = [new EXCEPT !.pc = pc, !.ids = row.ids]
    BY <1>7
  <2> HIDE DEF pc, new, row, q
  <2>3. q.pc = pc /\ q.op = op /\ q.sid = s /\ q.ids = row.ids
    BY <1>2, <2>4 DEF Request
  <2> QED
    BY <1>3, <1>4, <1>7, <2>1, <2>2, <2>3
<1> QED
  BY <1>6, <1>7

\* Where it goes on: with the machine's id to resume or hibernate, with the
\* app's to destroy anything.
LEMMA FirstCallKnows ==
  ASSUME NEW op, NEW ids
  PROVE  /\ FirstCall(op, ids) \in
               {"power", "destroyMachine", "destroyVolume", "deleteRow", "done"}
         /\ FirstCall(op, ids) = "power" => {"app", "machine"} \subseteq ids
         /\ FirstCall(op, ids) \in {"destroyMachine", "destroyVolume"} => "app" \in ids
BY DEF FirstCall, Destruction

-----------------------------------------------------------------------------
(* RoutesFit.                                                              *)

\* The handlers but r stay; r is done, or makes a call of its kind of route.
LEMMA MovedRoutes ==
  ASSUME RoutesFit, NEW r \in Requests,
         \A q \in Requests \ {r} : req'[q] = req[q],
         \/ req'[r].pc \in {"idle", "done"}
         \/ req'[r].pc \in SessionPcs /\ RouteFits(req'[r])
         \/ req'[r].pc \in TemplatePcs /\ req'[r].op = "buildTemplate"
  PROVE  RoutesFit'
<1>1. RouteFits(req'[r])
  BY DEF RouteFits, SessionPcs, TemplatePcs, CreatePcs
<1> QED
  BY <1>1 DEF RoutesFit

\* A session route's handler at work.
LEMMA SessionStepMoves ==
  ASSUME TypeOK, NEW r \in Requests, SessionStep(r)
  PROVE  /\ req[r].pc \in SessionPcs
         /\ \/ \E pc \in SessionPcs \ {"insertSession"} :
                 /\ Goes(r, pc)
                 /\ pc \in CreatePcs => req[r].pc \in CreatePcs
                 /\ pc \in {"power", "setStatus"} => req[r].pc = "power"
                 /\ pc = "reloadSession" => req[r].pc \in CreatePcs \cup {"setStatus"}
            \/ \E code : Answer(r, code)
<1> USE DEF SessionPcs, CreatePcs, Goes
<1>1. CASE InsertSession(r)
  BY <1>1 DEF InsertSession
<1>2. CASE EnsureSessionApp(r)
  BY <1>2 DEF EnsureSessionApp
<1>3. CASE CreateVolume(r)
  BY <1>3 DEF CreateVolume
<1>4. CASE CreateMachine(r)
  BY <1>4 DEF CreateMachine, AskForMachine
<1>5. CASE UndoVolume(r)
  BY <1>5 DEF UndoVolume
<1>6. CASE FailSession(r)
  BY <1>6 DEF FailSession
<1>7. CASE Provisioned(r)
  BY <1>7 DEF Provisioned
<1>8. CASE ReloadSession(r)
  BY <1>8 DEF ReloadSession
<1>9. CASE Power(r)
  BY <1>9 DEF Power
<1>10. CASE RecordPower(r)
  BY <1>10 DEF RecordPower
<1>11. CASE DestroyMachine(r)
  BY <1>11 DEF DestroyMachine, Destruction
<1>12. CASE DestroyVolume(r)
  BY <1>12 DEF DestroyVolume
<1>13. CASE DeleteRow(r)
  BY <1>13 DEF DeleteRow
<1> QED
  BY <1>1, <1>2, <1>3, <1>4, <1>5, <1>6, <1>7, <1>8, <1>9, <1>10, <1>11, <1>12, <1>13
     DEF SessionStep

\* And one of buildTemplate.
LEMMA TemplateStepMoves ==
  ASSUME TypeOK, NEW r \in Requests, TemplateStep(r)
  PROVE  /\ req[r].pc \in TemplatePcs
         /\ req'[r].pc \in TemplatePcs \cup {"done"}
         /\ req'[r].op = req[r].op
         /\ \A q \in Requests \ {r} : req'[q] = req[q]
<1>0. req \in [Requests -> Request]
  BY DEF TypeOK
<1>1. req[r].pc \in TemplatePcs
  BY DEF TemplateStep, TemplatePcs, MarkBuilding, EnsureTemplateApp, BuildImage,
     MarkReady, MarkFailed, ReloadTemplate
<1>2. CASE BuildImage(r)
  <2>1. \E pc \in {"markFailed", "markReady"} : \E img, live :
          req' = [req EXCEPT ![r].pc = pc, ![r].img = img, ![r].live = live]
    <3>1. PICK x \in Replies(req[r].live, FlyFaults["BuildImage"], req[r].tid \in apps) :
            req' = [req EXCEPT ![r].pc = IF x.failed THEN "markFailed" ELSE "markReady",
                               ![r].img = IF x.failed THEN NoImage ELSE req[r].tid,
                               ![r].live = x.live]
      BY <1>2 DEF BuildImage
    <3> QED
      BY <3>1
  <2>2. /\ req'[r].pc \in {"markFailed", "markReady"} /\ req'[r].op = req[r].op
        /\ \A q \in Requests \ {r} : req'[q] = req[q]
    BY <1>0, <2>1 DEF Request
  <2> QED
    BY <1>1, <2>2 DEF TemplatePcs
<1>3. CASE ~BuildImage(r)
  <2>1. \/ \E pc \in TemplatePcs : \E x : GoTo(r, pc, x)
        \/ \E code : Answer(r, code)
    <3> USE DEF TemplatePcs
    <3>1. CASE MarkBuilding(r)
      BY <3>1 DEF MarkBuilding
    <3>2. CASE EnsureTemplateApp(r)
      BY <3>2 DEF EnsureTemplateApp
    <3>3. CASE MarkReady(r)
      BY <3>3 DEF MarkReady
    <3>4. CASE MarkFailed(r)
      BY <3>4 DEF MarkFailed
    <3>5. CASE ReloadTemplate(r)
      BY <3>5 DEF ReloadTemplate
    <3> QED
      BY <1>3, <3>1, <3>2, <3>3, <3>4, <3>5 DEF TemplateStep
  <2> QED
    BY <1>1, <2>1, GoToEffect, AnswerEffect
<1> QED
  BY <1>2, <1>3

\* A creation is turned down, or starts on an id nobody has.
LEMMA CreateSessionEffect ==
  ASSUME TypeOK, NEW r \in Requests, CreateSession(r)
  PROVE  /\ req'[r].op = "createSession"
         /\ \A q \in Requests \ {r} : req'[q] = req[q]
         /\ \/ /\ req'[r].pc = "done"
               /\ req'[r].ans # 201
               /\ UNCHANGED mintedBy
            \/ \E s \in SessionIds, org \in Orgs, t \in TemplateIds :
                 /\ templates[t] # NoRow /\ templates[t].org = org
                 /\ mintedBy[s] = NoId
                 /\ mintedBy' = [mintedBy EXCEPT ![s] = org]
                 /\ req'[r].pc = "insertSession"
                 /\ req'[r].sid = s
                 /\ req'[r].org = org
                 /\ req'[r].img = ImageToBoot(templates[t])
<1>1. PICK org \in Orgs, t \in TemplateIds, x \in Queried(TRUE) :
        LET tpl == GetTemplate(org, t, x)
            new == Accept("createSession", org, NoId, t, x)
            reject(e) == /\ req' = [req EXCEPT ![r] =
                               [new EXCEPT !.pc = "done", !.live = TRUE, !.ans = MapError(e)]]
                         /\ UNCHANGED mintedBy
        IN  \/ tpl = NoRow /\ reject(TemplateError(LookupError))
            \/ tpl # NoRow /\ ImageToBoot(tpl) = NoImage /\ reject("ErrTemplateNotReady")
            \/ /\ tpl # NoRow
               /\ ImageToBoot(tpl) # NoImage
               /\ \E s \in SessionIds \ Minted(SessionIds) :
                    /\ mintedBy' = [mintedBy EXCEPT ![s] = org]
                    /\ req' = [req EXCEPT ![r] = [new EXCEPT !.pc = "insertSession",
                                 !.sid = s, !.img = ImageToBoot(tpl)]]
  BY DEF CreateSession, Minted
<1> DEFINE tpl == GetTemplate(org, t, x)
           new == Accept("createSession", org, NoId, t, x)
<1>2. new \in Request /\ new.op = "createSession" /\ new.org = org
  <2>1. x.live \in BOOLEAN
    BY FirstReplyType
  <2> QED
    BY <2>1, AcceptType DEF SessionOps
<1>3. req \in [Requests -> Request]
  BY DEF TypeOK
<1>4. CASE \E e : /\ req' = [req EXCEPT ![r] =
                       [new EXCEPT !.pc = "done", !.live = TRUE, !.ans = MapError(e)]]
                  /\ UNCHANGED mintedBy
  <2>1. PICK e : req' = [req EXCEPT ![r] =
                   [new EXCEPT !.pc = "done", !.live = TRUE, !.ans = MapError(e)]]
    BY <1>4
  <2> DEFINE code == MapError(e)
             q == [new EXCEPT !.pc = "done", !.live = TRUE, !.ans = code]
  <2>2. code # 201
    BY DEF MapError
  <2> HIDE DEF new, code
  <2>3. q.pc = "done" /\ q.op = "createSession" /\ q.ans = code
    BY <1>2 DEF Request
  <2>4. req' = [req EXCEPT ![r] = q]
    BY <2>1 DEF code
  <2> HIDE DEF q
  <2>5. req'[r] = q /\ \A u \in Requests \ {r} : req'[u] = req[u]
    BY <1>3, <2>4
  <2> QED
    BY <1>4, <2>2, <2>3, <2>5
<1>5. CASE /\ tpl # NoRow
           /\ \E s \in SessionIds \ Minted(SessionIds) :
                /\ mintedBy' = [mintedBy EXCEPT ![s] = org]
                /\ req' = [req EXCEPT ![r] = [new EXCEPT !.pc = "insertSession",
                             !.sid = s, !.img = ImageToBoot(tpl)]]
  <2>a. tpl = templates[t] /\ templates[t] # NoRow /\ templates[t].org = org
    BY <1>5 DEF GetTemplate
  <2>1. PICK s \in SessionIds :
          /\ mintedBy[s] = NoId
          /\ mintedBy' = [mintedBy EXCEPT ![s] = org]
          /\ req' = [req EXCEPT ![r] = [new EXCEPT !.pc = "insertSession",
                       !.sid = s, !.img = ImageToBoot(tpl)]]
    BY <1>5 DEF Minted
  <2> DEFINE img == ImageToBoot(tpl)
             q == [new EXCEPT !.pc = "insertSession", !.sid = s, !.img = img]
  <2>2. req' = [req EXCEPT ![r] = q]
    BY <2>1
  <2>b. img = ImageToBoot(templates[t])
    BY <2>a
  <2> HIDE DEF new, img
  <2>3. /\ q.pc = "insertSession" /\ q.op = "createSession" /\ q.sid = s
        /\ q.org = org /\ q.img = img
    BY <1>2 DEF Request
  <2> HIDE DEF q
  <2>4. req'[r] = q /\ \A u \in Requests \ {r} : req'[u] = req[u]
    BY <1>3, <2>2
  <2> QED
    BY ZenonT(60), <2>a, <2>b, <2>1, <2>3, <2>4
<1> QED
  BY <1>1, <1>4, <1>5

\* A read of one session or of all is answered at once.
LEMMA ReadEffect ==
  ASSUME TypeOK, NEW r \in Requests, ReadSession(r) \/ ListSessions(r)
  PROVE  /\ req'[r].op \in {"getSession", "listSessions"}
         /\ req'[r].pc = "done"
         /\ \A q \in Requests \ {r} : req'[q] = req[q]
<1>a. PICK op \in {"getSession", "listSessions"}, new \in Request : \E code :
        /\ new.op = op
        /\ req' = [req EXCEPT ![r] = [new EXCEPT !.pc = "done", !.ans = code]]
  <2>1. CASE ReadSession(r)
    <3>1. PICK org \in Orgs, s \in SessionIds, x \in Queried(TRUE) :
            req' = [req EXCEPT ![r] =
                      [Accept("getSession", org, s, NoId, Done)
                         EXCEPT !.pc = "done",
                                !.ans = IF GetSession(org, s, x) = NoRow
                                        THEN MapError(LookupError) ELSE 200]]
      BY <2>1 DEF ReadSession, Minted
    <3> DEFINE new == Accept("getSession", org, s, NoId, Done)
               code == IF GetSession(org, s, x) = NoRow THEN MapError(LookupError) ELSE 200
    <3>2. new \in Request
      BY AcceptType, DoneIsLive DEF SessionOps
    <3>3. new.op = "getSession"
      BY DEF Accept, Idle
    <3>4. req' = [req EXCEPT ![r] = [new EXCEPT !.pc = "done", !.ans = code]]
      BY <3>1
    <3> HIDE DEF new, code
    <3> QED
      BY <3>2, <3>3, <3>4
  <2>2. CASE ListSessions(r)
    <3>1. PICK org \in Orgs, x \in Queried(TRUE) :
            req' = [req EXCEPT ![r] =
                      [Accept("listSessions", org, NoId, NoId, Done)
                         EXCEPT !.pc = "done",
                                !.ans = IF ListSucceeds(sessions, org, x) THEN 200 ELSE 500]]
      BY <2>2 DEF ListSessions
    <3> DEFINE new == Accept("listSessions", org, NoId, NoId, Done)
               code == IF ListSucceeds(sessions, org, x) THEN 200 ELSE 500
    <3>2. new \in Request
      BY AcceptType, DoneIsLive DEF SessionOps
    <3>3. new.op = "listSessions"
      BY DEF Accept, Idle
    <3>4. req' = [req EXCEPT ![r] = [new EXCEPT !.pc = "done", !.ans = code]]
      BY <3>1
    <3> HIDE DEF new, code
    <3> QED
      BY <3>2, <3>3, <3>4
  <2> QED
    BY <2>1, <2>2
<1>1. PICK code : /\ new.op = op
                  /\ req' = [req EXCEPT ![r] = [new EXCEPT !.pc = "done", !.ans = code]]
  BY <1>a
<1> DEFINE q == [new EXCEPT !.pc = "done", !.ans = code]
<1>2. q.pc = "done" /\ q.op = op
  BY <1>1 DEF Request
<1>3. req' = [req EXCEPT ![r] = q]
  BY <1>1
<1> HIDE DEF q
<1>4. req'[r] = q /\ \A u \in Requests \ {r} : req'[u] = req[u]
  BY <1>3 DEF TypeOK
<1> QED
  BY <1>2, <1>4

\* A template route answers after its statement, or starts a build.
LEMMA TemplateArrivalMoves ==
  ASSUME TypeOK, NEW r \in Requests, TemplateArrival(r)
  PROVE  /\ req'[r].op \in TemplateOps
         /\ \/ req'[r].pc = "done"
            \/ req'[r].pc = "markBuilding" /\ req'[r].op = "buildTemplate"
         /\ req'[r].op # "deleteTemplate" \/ DeleteTemplate(r)
         /\ \A q \in Requests \ {r} : req'[q] = req[q]
<1>1. CASE \E op \in TemplateOps \ {"deleteTemplate"}, org \in Orgs, t \in TemplateIds \cup {NoId} : \E code :
             AnswerAtOnce(r, op, org, t, code)
  BY <1>1, AnswerAtOnceEffect
<1>2. CASE \E org \in Orgs, t \in TemplateIds, x \in Queried(TRUE) :
             req' = [req EXCEPT ![r] =
                       [Accept("buildTemplate", org, NoId, t, x)
                          EXCEPT !.pc = "markBuilding",
                                 !.img = GetTemplate(org, t, x).image]]
  <2>1. PICK org \in Orgs, t \in TemplateIds, x \in Queried(TRUE) :
             req' = [req EXCEPT ![r] =
                       [Accept("buildTemplate", org, NoId, t, x)
                          EXCEPT !.pc = "markBuilding",
                                 !.img = GetTemplate(org, t, x).image]]
    BY <1>2
  <2> DEFINE new == Accept("buildTemplate", org, NoId, t, x)
             img == GetTemplate(org, t, x).image
             q == [new EXCEPT !.pc = "markBuilding", !.img = img]
  <2>2. new \in Request /\ new.op = "buildTemplate"
    <3>1. x.live \in BOOLEAN
      BY FirstReplyType
    <3> QED
      BY <3>1, AcceptType DEF TemplateOps
  <2>3. req' = [req EXCEPT ![r] = q]
    BY <2>1
  <2> HIDE DEF new, img
  <2>4. q.pc = "markBuilding" /\ q.op = "buildTemplate"
    BY <2>2 DEF Request
  <2> HIDE DEF q
  <2>5. req'[r] = q /\ \A u \in Requests \ {r} : req'[u] = req[u]
    BY <2>3 DEF TypeOK
  <2> QED
    BY <2>4, <2>5 DEF TemplateOps
<1>3. CASE CreateTemplate(r)
  <2>1. \E org \in Orgs, t \in TemplateIds : \E code :
          AnswerAtOnce(r, "createTemplate", org, t, code)
    BY <1>3 DEF CreateTemplate
  <2> QED
    BY <1>1, <2>1 DEF TemplateOps
<1>4. CASE ReadTemplate(r)
  <2>1. \E org \in Orgs, t \in TemplateIds : \E code :
          AnswerAtOnce(r, "getTemplate", org, t, code)
    BY <1>4 DEF ReadTemplate, Minted
  <2> QED
    BY <1>1, <2>1 DEF TemplateOps
<1>5. CASE ListTemplates(r)
  <2>1. \E org \in Orgs : \E code : AnswerAtOnce(r, "listTemplates", org, NoId, code)
    BY <1>5 DEF ListTemplates
  <2> QED
    BY <1>1, <2>1 DEF TemplateOps
<1>6. CASE DeleteTemplate(r)
  <2>1. \E org \in Orgs, t \in TemplateIds : \E code :
          AnswerAtOnce(r, "deleteTemplate", org, t, code)
    BY <1>6 DEF DeleteTemplate, Minted
  <2> QED
    BY <1>6, <2>1, AnswerAtOnceEffect DEF TemplateOps
<1>7. CASE BuildTemplate(r)
  <2>1. \/ \E org \in Orgs, t \in TemplateIds : \E code :
             AnswerAtOnce(r, "buildTemplate", org, t, code)
        \/ \E org \in Orgs, t \in TemplateIds, x \in Queried(TRUE) :
             req' = [req EXCEPT ![r] =
                       [Accept("buildTemplate", org, NoId, t, x)
                          EXCEPT !.pc = "markBuilding",
                                 !.img = GetTemplate(org, t, x).image]]
    BY <1>7 DEF BuildTemplate, Minted
  <2> QED
    BY <1>1, <1>2, <2>1 DEF TemplateOps
<1> QED
  BY <1>3, <1>4, <1>5, <1>6, <1>7 DEF TemplateArrival

LEMMA NextRoutes == TypeOK /\ RoutesFit /\ [Next]_vars => RoutesFit'
<1> SUFFICES ASSUME TypeOK, RoutesFit, [Next]_vars PROVE RoutesFit'
  OBVIOUS
<1>1. ASSUME NEW r \in Requests, SessionStep(r) PROVE RoutesFit'
  <2>1. req[r].pc \in SessionPcs /\ RouteFits(req[r])
    BY <1>1, SessionStepMoves DEF RoutesFit
  <2>2. CASE \E pc \in SessionPcs \ {"insertSession"} :
               /\ Goes(r, pc)
               /\ pc \in CreatePcs => req[r].pc \in CreatePcs
               /\ pc \in {"power", "setStatus"} => req[r].pc = "power"
               /\ pc = "reloadSession" => req[r].pc \in CreatePcs \cup {"setStatus"}
    <3>1. /\ req'[r].pc \in SessionPcs /\ req'[r].op = req[r].op
          /\ req[r].ids \subseteq req'[r].ids
          /\ \A q \in Requests \ {r} : req'[q] = req[q]
          /\ req'[r].pc \in CreatePcs => req[r].pc \in CreatePcs
          /\ req'[r].pc \in {"power", "setStatus"} => req[r].pc = "power"
          /\ req'[r].pc = "reloadSession" => req[r].pc \in CreatePcs \cup {"setStatus"}
      BY <2>2, GoesEffect
    <3>2. RouteFits(req'[r])
      BY <2>1, <3>1 DEF RouteFits, SessionPcs, TemplatePcs
    <3> QED
      BY <3>1, <3>2, MovedRoutes
  <2>3. CASE \E code : Answer(r, code)
    BY <2>3, AnswerEffect, MovedRoutes
  <2> QED
    BY <1>1, <2>2, <2>3, SessionStepMoves
<1>2. ASSUME NEW r \in Requests, TemplateStep(r) PROVE RoutesFit'
  BY <1>2, TemplateStepMoves, MovedRoutes DEF RoutesFit, RouteFits
<1>3. ASSUME NEW r \in Requests, SessionArrival(r) PROVE RoutesFit'
  <2>1. CASE CreateSession(r)
    BY <2>1, CreateSessionEffect, MovedRoutes
       DEF SessionPcs, SessionOps, RouteFits, TemplatePcs
  <2>2. CASE ReadSession(r) \/ ListSessions(r)
    BY <2>2, ReadEffect, MovedRoutes
  <2>3. CASE \E op \in SessionOps : LookUpSession(r, op)
    <3>1. PICK op \in SessionOps : LookUpSession(r, op)
      BY <2>3
    <3>2. /\ req'[r].op = op
          /\ req'[r].pc \in {"power", "destroyMachine", "destroyVolume", "deleteRow", "done"}
          /\ req'[r].pc = "power" => "machine" \in req'[r].ids
          /\ \A q \in Requests \ {r} : req'[q] = req[q]
      BY <3>1, LookUpEffect, FirstCallKnows
    <3>3. RouteFits(req'[r]) /\ req'[r].pc \in SessionPcs \cup {"done"}
      BY <3>2 DEF RouteFits, SessionPcs, TemplatePcs, CreatePcs
    <3> QED
      BY <3>2, <3>3, MovedRoutes
  <2> QED
    BY <1>3, <2>1, <2>2, <2>3 DEF SessionArrival, ResumeSession, HibernateSession,
       DeleteSession, SessionPcs, SessionOps
<1>4. ASSUME NEW r \in Requests, TemplateArrival(r) PROVE RoutesFit'
  BY <1>4, TemplateArrivalMoves, MovedRoutes DEF TemplatePcs
<1>5. CASE Crash
  BY <1>5 DEF Crash, RoutesFit, RouteFits, Idle, SessionPcs, TemplatePcs, CreatePcs
<1>6. CASE UNCHANGED req
  BY <1>6 DEF RoutesFit
<1> QED
  BY <1>1, <1>2, <1>3, <1>4, <1>5, <1>6 DEF Next, Advance, Autostop, Autostart, vars

-----------------------------------------------------------------------------
(* SessionsFit.                                                            *)

\* What most steps do: rows stay as they are or go, ...
RowsWane ==
  \A s \in SessionIds : sessions'[s] # NoRow => sessions'[s] = sessions[s]

\* ... and nobody starts a creation or gets past the check of the ids.
PcsKept ==
  \A q \in Requests :
    /\ req'[q].pc \in CreatePcs =>
         /\ req[q].pc \in CreatePcs
         /\ req'[q].pc = "insertSession" => req[q].pc = "insertSession"
         /\ req'[q].sid = req[q].sid
    /\ req'[q].pc \in UsePcs =>
         /\ req[q].pc \in UsePcs
         /\ req'[q].sid = req[q].sid
         /\ req'[q].ids = req[q].ids

\* Handlers at these calls have a session.
LEMMA AtWorkHasSession ==
  ASSUME TypeOK, NEW q \in Requests, req[q].pc \in CreatePcs \cup UsePcs
  PROVE  req[q].sid \in SessionIds /\ Busy(q) /\ req[q].org \in Orgs
BY DEF TypeOK, HasTarget, SessionPcs, CreatePcs, UsePcs, Busy, Free

LEMMA WorkIsApart == CreatePcs \cap UsePcs = {}
BY DEF CreatePcs, UsePcs

LEMMA QuietFit ==
  ASSUME TypeOK, SessionsFit, RowsWane, PcsKept
  PROVE  SessionsFit'
<1>1. \A s \in SessionIds : Stored(s)' => Stored(s) /\ sessions'[s] = sessions[s]
  BY DEF RowsWane, Stored
<1>2. IdsMatchStatus'
  BY <1>1, RowsTell DEF SessionsFit, Stored
<1>3. CreatorsFit'
  BY <1>1, AtWorkHasSession DEF SessionsFit, CreatorsFit, PcsKept
<1>4. UsersFit'
  BY <1>1, AtWorkHasSession DEF SessionsFit, UsersFit, PcsKept
<1> QED
  BY <1>2, <1>3, <1>4 DEF SessionsFit

\* A handler at another call than those, or further along its creation.
LEMMA MovedPcs ==
  ASSUME NEW r \in Requests,
         \A q \in Requests \ {r} : req'[q] = req[q],
         \/ req'[r].pc \notin CreatePcs \cup UsePcs
         \/ /\ req'[r].pc \in CreatePcs \ {"insertSession"}
            /\ req[r].pc \in CreatePcs
            /\ req'[r].sid = req[r].sid
         \/ /\ req'[r].pc \in UsePcs
            /\ req[r].pc \in UsePcs
            /\ req'[r].sid = req[r].sid
            /\ req'[r].ids = req[r].ids
  PROVE  PcsKept
BY WorkIsApart DEF PcsKept

\* A row changed by a creation's handler r, which goes on as it pleases: no
\* other handler at such a call is concerned.
LEMMA CreatorFit ==
  ASSUME TypeOK, SessionsFit, NEW r \in Requests, req[r].pc \in CreatePcs,
         \A q \in Requests \ {r} : req'[q] = req[q],
         req'[r].sid = req[r].sid,
         \A s \in SessionIds \ {req[r].sid} : sessions'[s] = sessions[s],
         sessions'[req[r].sid] # NoRow => RowTells(sessions'[req[r].sid]),
         req'[r].pc # "insertSession",
         req'[r].pc \in CreatePcs /\ sessions'[req[r].sid] # NoRow =>
           sessions'[req[r].sid].status = "pending",
         req'[r].pc \in UsePcs /\ sessions'[req[r].sid] # NoRow =>
           sessions'[req[r].sid].ids = req'[r].ids \cup {"app"}
  PROVE  SessionsFit'
<1> DEFINE s == req[r].sid
<1>1. IdsMatchStatus'
  BY RowsTell DEF SessionsFit, Stored
<1>2. \A q \in Requests \ {r} : req[q].pc \in CreatePcs \cup UsePcs =>
        /\ req[q].sid # s
        /\ sessions'[req[q].sid] = sessions[req[q].sid]
  BY AtWorkHasSession DEF SessionsFit, CreatorsFit
<1>3. CreatorsFit'
  <2>1. ASSUME NEW q \in Requests, req'[q].pc \in CreatePcs
        PROVE  /\ sessions'[req'[q].sid] # NoRow => sessions'[req'[q].sid].status = "pending"
               /\ req'[q].pc = "insertSession" => sessions'[req'[q].sid] = NoRow
               /\ \A u \in Requests \ {q} :
                    req'[u].pc \in CreatePcs \cup UsePcs => req'[u].sid # req'[q].sid
    <3>1. CASE q = r
      BY <1>2, <2>1, <3>1
    <3>2. CASE q # r
      BY <1>2, <2>1, <3>2 DEF SessionsFit, CreatorsFit, Stored
    <3> QED
      BY <3>1, <3>2
  <2> QED
    BY <2>1 DEF CreatorsFit, Stored
<1>4. UsersFit'
  <2>1. ASSUME NEW q \in Requests, req'[q].pc \in UsePcs, sessions'[req'[q].sid] # NoRow
        PROVE  sessions'[req'[q].sid].ids = req'[q].ids \cup {"app"}
    <3>1. CASE q = r
      BY <2>1, <3>1
    <3>2. CASE q # r
      BY <1>2, <2>1, <3>2 DEF SessionsFit, UsersFit, Stored
    <3> QED
      BY <3>1, <3>2
  <2> QED
    BY <2>1 DEF UsersFit, Stored
<1> QED
  BY <1>1, <1>3, <1>4 DEF SessionsFit

LEMMA InsertSessionFit ==
  ASSUME TypeOK, SessionsFit, NEW r \in Requests, InsertSession(r)
  PROVE  SessionsFit'
<1> DEFINE s == req[r].sid
           t == req[r].tid
<1>1. PICK x \in Replies(req[r].live, DbFaults, templates[t] # NoRow) :
        /\ sessions' = IF x.applied
                       THEN [sessions EXCEPT ![s] = PendingRow(req[r].org, t)]
                       ELSE sessions
        /\ IF ~x.failed /\ Readable(PendingRow(req[r].org, t))
           THEN GoTo(r, "ensureSessionApp", x)
           ELSE Answer(r, 500)
  BY DEF InsertSession
<1>2. req[r].pc = "insertSession" /\ "insertSession" \in CreatePcs
  BY DEF InsertSession, CreatePcs
<1>3. s \in SessionIds /\ ~Stored(s)
  BY <1>2, AtWorkHasSession DEF SessionsFit, CreatorsFit
<1>4. /\ req'[r].pc \in {"ensureSessionApp", "done"} /\ req'[r].sid = s
      /\ \A q \in Requests \ {r} : req'[q] = req[q]
  BY <1>1, GoToEffect, AnswerEffect
<1>5. /\ \A u \in SessionIds \ {s} : sessions'[u] = sessions[u]
      /\ \/ sessions'[s] = NoRow
         \/ sessions'[s] = PendingRow(req[r].org, t)
  BY <1>1, <1>3 DEF TypeOK, Stored
<1>6. PendingRow(req[r].org, t).status = "pending" /\ RowTells(PendingRow(req[r].org, t))
  BY DEF PendingRow, RowTells
<1>7. req'[r].pc \notin UsePcs /\ req'[r].pc # "insertSession"
  BY <1>4 DEF UsePcs
<1> QED
  BY <1>2, <1>4, <1>5, <1>6, <1>7, CreatorFit

LEMMA FailSessionFit ==
  ASSUME TypeOK, SessionsFit, NEW r \in Requests, FailSession(r)
  PROVE  SessionsFit'
<1> DEFINE s == req[r].sid
<1>1. req[r].pc \in CreatePcs /\ Answer(r, 500)
      /\ (sessions' = SetStatus(s, "error") \/ sessions' = sessions)
  BY DEF FailSession, CreatePcs
<1>2. s \in SessionIds
  BY <1>1, AtWorkHasSession
<1>3. req'[r].pc \notin CreatePcs \cup UsePcs /\ req'[r].pc # "insertSession" /\ req'[r].sid = s
      /\ \A q \in Requests \ {r} : req'[q] = req[q]
  BY <1>1, AnswerEffect DEF CreatePcs, UsePcs
<1>4. sessions \in [SessionIds -> SessionRow \cup {NoRow}]
  BY DEF TypeOK
<1>5. \A u \in SessionIds \ {s} : sessions'[u] = sessions[u]
  BY <1>1, <1>4 DEF SetStatus
<1>6. Stored(s) => sessions[s].ids = {}
  BY <1>1, <1>2, RowsTell DEF SessionsFit, CreatorsFit, RowTells
<1>7. \/ sessions'[s] = sessions[s]
      \/ sessions'[s] = NoRow
      \/ Stored(s) /\ sessions'[s] = [sessions[s] EXCEPT !.status = "error"]
  BY <1>1, <1>2, <1>4 DEF SetStatus, Stored
<1>8. sessions'[s] # NoRow => RowTells(sessions'[s])
  <2>1. CASE sessions'[s] = sessions[s]
    BY <1>2, <2>1, RowsTell DEF SessionsFit, Stored
  <2>2. CASE Stored(s) /\ sessions'[s] = [sessions[s] EXCEPT !.status = "error"]
    <3>1. sessions[s] \in SessionRow
      BY <1>2, <1>4, <2>2 DEF Stored
    <3>2. sessions'[s].status = "error" /\ sessions'[s].ids = sessions[s].ids
      BY <2>2, <3>1 DEF SessionRow
    <3> QED
      BY <1>6, <2>2, <3>2 DEF RowTells
  <2> QED
    BY <1>7, <2>1, <2>2
<1> QED
  BY <1>1, <1>3, <1>5, <1>8, CreatorFit

LEMMA ProvisionedFit ==
  ASSUME TypeOK, SessionsFit, NEW r \in Requests, Provisioned(r)
  PROVE  SessionsFit'
<1> DEFINE s == req[r].sid
<1>1. PICK x \in Queried(req[r].live) :
        /\ sessions' = IF x.applied THEN MarkProvisioned(s, req[r].ids) ELSE sessions
        /\ IF x.failed THEN Answer(r, 500) ELSE GoTo(r, "reloadSession", x)
  BY DEF Provisioned
<1>2. req[r].pc = "provisioned" /\ req[r].pc \in CreatePcs
  BY DEF Provisioned, CreatePcs
<1>3. s \in SessionIds
  BY <1>2, AtWorkHasSession
<1>4. /\ req'[r].pc \in {"done", "reloadSession"} /\ req'[r].sid = s
      /\ req'[r].pc = "reloadSession" => ~x.failed /\ req'[r].ids = req[r].ids
      /\ \A q \in Requests \ {r} : req'[q] = req[q]
  BY <1>1, GoToEffect, AnswerEffect
<1>5. req'[r].pc = "reloadSession" => x.applied
  BY <1>1, <1>4, SuccessIsApplied DEF Queried
<1>6. sessions \in [SessionIds -> SessionRow \cup {NoRow}]
  BY DEF TypeOK
<1>7. \A u \in SessionIds \ {s} : sessions'[u] = sessions[u]
  BY <1>1, <1>6 DEF MarkProvisioned
<1>8. CASE x.applied
  <2>a. sessions'[s] = IF sessions[s] = NoRow THEN NoRow
                       ELSE [sessions[s] EXCEPT !.status = "running", !.ids = req[r].ids \cup {"app"}]
    BY <1>1, <1>3, <1>6, <1>8 DEF MarkProvisioned
  <2>1. sessions'[s] # NoRow => /\ sessions'[s].status = "running"
                                /\ sessions'[s].ids = req[r].ids \cup {"app"}
    BY <1>3, <1>6, <2>a DEF SessionRow
  <2>2. req'[r].pc \notin CreatePcs /\ req'[r].pc # "insertSession"
    BY <1>4 DEF CreatePcs
  <2>3. sessions'[s] # NoRow => RowTells(sessions'[s])
    BY <2>1 DEF RowTells
  <2>4. req'[r].pc \in UsePcs => req'[r].ids = req[r].ids
    BY <1>4 DEF UsePcs
  <2> QED
    BY <1>2, <1>4, <1>7, <2>1, <2>2, <2>3, <2>4, CreatorFit
<1>9. CASE ~x.applied
  <2>1. req'[r].pc = "done" /\ sessions' = sessions
    BY <1>1, <1>4, <1>5, <1>9
  <2>2. req'[r].pc \notin CreatePcs \cup UsePcs
    BY <2>1 DEF CreatePcs, UsePcs
  <2> QED
    BY <1>4, <2>1, <2>2, MovedPcs, QuietFit DEF RowsWane
<1> QED
  BY <1>8, <1>9

LEMMA RecordPowerFit ==
  ASSUME TypeOK, SessionsFit, RoutesFit, NEW r \in Requests, RecordPower(r)
  PROVE  SessionsFit'
<1> DEFINE s == req[r].sid
<1>1. req[r].pc = "setStatus" /\ req[r].pc \in UsePcs
  BY DEF RecordPower, UsePcs
<1>2. PICK status \in {"running", "suspended"} :
        /\ sessions' = sessions \/ sessions' = SetStatus(s, status)
        /\ \E x : GoTo(r, "reloadSession", x)
  <2> DEFINE status == IF req[r].op = "resumeSession" THEN "running" ELSE "suspended"
  <2>1. status \in {"running", "suspended"}
    OBVIOUS
  <2>2. /\ sessions' = sessions \/ sessions' = SetStatus(s, status)
        /\ \E x : GoTo(r, "reloadSession", x)
    BY DEF RecordPower
  <2> HIDE DEF status
  <2> QED
    BY <2>1, <2>2
<1>3. s \in SessionIds /\ sessions \in [SessionIds -> SessionRow \cup {NoRow}]
  BY <1>1, AtWorkHasSession DEF TypeOK
<1>4. /\ req'[r].pc = "reloadSession" /\ req'[r].sid = s /\ req'[r].ids = req[r].ids
      /\ \A q \in Requests \ {r} : req'[q] = req[q]
  BY <1>2, GoToEffect
<1>5. PcsKept
  BY <1>1, <1>4, MovedPcs DEF UsePcs
<1>6. \A u \in SessionIds \ {s} : sessions'[u] = sessions[u]
  BY <1>2, <1>3 DEF SetStatus
<1>7. CASE sessions'[s] = sessions[s]
  BY <1>5, <1>6, <1>7, QuietFit DEF RowsWane
<1>8. CASE /\ Stored(s)
           /\ sessions'[s] = [sessions[s] EXCEPT !.status = status]
  <2>1. sessions[s] \in SessionRow
    BY <1>3, <1>8 DEF Stored
  <2>2. sessions'[s].status = status /\ sessions'[s].ids = sessions[s].ids
    BY <1>8, <2>1 DEF SessionRow
  <2>3. sessions[s].ids = req[r].ids \cup {"app"} /\ "machine" \in req[r].ids
    BY <1>1, <1>8 DEF SessionsFit, UsersFit, RoutesFit, RouteFits
  <2>a. RowTells(sessions'[s])
    BY <2>2, <2>3 DEF RowTells
  <2>4. IdsMatchStatus'
    BY <1>6, <2>a, RowsTell DEF SessionsFit, Stored
  <2>5. CreatorsFit'
    <3>1. ASSUME NEW q \in Requests, req'[q].pc \in CreatePcs
          PROVE  /\ sessions'[req'[q].sid] # NoRow => sessions'[req'[q].sid].status = "pending"
                 /\ req'[q].pc = "insertSession" => sessions'[req'[q].sid] = NoRow
                 /\ \A u \in Requests \ {q} :
                      req'[u].pc \in CreatePcs \cup UsePcs => req'[u].sid # req'[q].sid
      <4>1. req[q].pc \in CreatePcs /\ req'[q] = req[q] /\ q # r
        BY <1>4, <3>1 DEF CreatePcs
      <4>2. req[q].sid # s /\ req[q].sid \in SessionIds
        BY <1>1, <4>1, AtWorkHasSession DEF SessionsFit, CreatorsFit
      <4>3. \A u \in Requests : req'[u].pc \in CreatePcs \cup UsePcs =>
              req[u].pc \in CreatePcs \cup UsePcs /\ req'[u].sid = req[u].sid
        BY <1>5 DEF PcsKept
      <4> QED
        BY <1>6, <4>1, <4>2, <4>3 DEF SessionsFit, CreatorsFit, Stored
    <3> QED
      BY <3>1 DEF CreatorsFit, Stored
  <2>6. UsersFit'
    <3>1. ASSUME NEW q \in Requests, req'[q].pc \in UsePcs, sessions'[req'[q].sid] # NoRow
          PROVE  sessions'[req'[q].sid].ids = req'[q].ids \cup {"app"}
      <4>1. req[q].pc \in UsePcs /\ req'[q].sid = req[q].sid /\ req'[q].ids = req[q].ids
        BY <1>5, <3>1 DEF PcsKept
      <4>2. req[q].sid \in SessionIds
        BY <4>1, AtWorkHasSession
      <4>3. CASE req[q].sid = s
        <5>1. sessions[s].ids = req[q].ids \cup {"app"}
          BY <1>8, <4>1, <4>3 DEF SessionsFit, UsersFit
        <5> QED
          BY <2>2, <4>1, <4>3, <5>1
      <4>4. CASE req[q].sid # s
        BY <1>6, <3>1, <4>1, <4>2, <4>4 DEF SessionsFit, UsersFit, Stored
      <4> QED
        BY <4>3, <4>4
    <3> QED
      BY <3>1 DEF UsersFit, Stored
  <2> QED
    BY <2>4, <2>5, <2>6 DEF SessionsFit
<1> QED
  BY <1>2, <1>3, <1>7, <1>8 DEF SetStatus, Stored

\* Handlers and rows have ids that were made for somebody.
LEMMA TakenIsMinted ==
  ASSUME TypeOK, Isolated
  PROVE  /\ \A s \in SessionIds : Stored(s) => mintedBy[s] # NoId
         /\ \A q \in Requests : req[q].pc \in CreatePcs \cup UsePcs =>
              mintedBy[req[q].sid] # NoId
<1>1. NoId \notin Orgs /\ NoId \notin SessionIds
  BY IdsAreDistinct
<1>2. ASSUME NEW s \in SessionIds, Stored(s) PROVE mintedBy[s] # NoId
  BY <1>1, <1>2 DEF TypeOK, SessionRow, Isolated, RowsStayInTenant, Stored
<1>3. ASSUME NEW q \in Requests, req[q].pc \in CreatePcs \cup UsePcs
      PROVE  mintedBy[req[q].sid] # NoId
  BY <1>1, <1>3, AtWorkHasSession DEF Isolated, HandlersStayInTenant
<1> QED
  BY <1>2, <1>3

\* A handler of its own begins on s, and nobody in the middle of a creation is
\* disturbed.
LEMMA BegunFit ==
  ASSUME TypeOK, SessionsFit, UNCHANGED sessions, NEW r \in Requests,
         \A q \in Requests \ {r} : req'[q] = req[q],
         req'[r].sid \in SessionIds,
         \A q \in Requests \ {r} : req[q].pc \in CreatePcs => req[q].sid # req'[r].sid,
         \/ /\ req'[r].pc \in UsePcs
            /\ Stored(req'[r].sid) => sessions[req'[r].sid].ids = req'[r].ids \cup {"app"}
         \/ /\ req'[r].pc \in CreatePcs
            /\ ~Stored(req'[r].sid)
            /\ \A q \in Requests \ {r} : req[q].pc \in UsePcs => req[q].sid # req'[r].sid
  PROVE  SessionsFit'
<1>1. IdsMatchStatus'
  BY RowsTell DEF SessionsFit, Stored
<1>2. CreatorsFit'
  <2>1. ASSUME NEW q \in Requests, req'[q].pc \in CreatePcs
        PROVE  /\ Stored(req'[q].sid) => sessions[req'[q].sid].status = "pending"
               /\ req'[q].pc = "insertSession" => ~Stored(req'[q].sid)
               /\ \A u \in Requests \ {q} :
                    req'[u].pc \in CreatePcs \cup UsePcs => req'[u].sid # req'[q].sid
    <3>1. CASE q = r
      BY <2>1, <3>1, WorkIsApart
    <3>2. CASE q # r
      BY <2>1, <3>2 DEF SessionsFit, CreatorsFit
    <3> QED
      BY <3>1, <3>2
  <2> QED
    BY <2>1 DEF CreatorsFit, Stored
<1>3. UsersFit'
  <2>1. ASSUME NEW q \in Requests, req'[q].pc \in UsePcs, Stored(req'[q].sid)
        PROVE  sessions[req'[q].sid].ids = req'[q].ids \cup {"app"}
    BY <2>1, WorkIsApart DEF SessionsFit, UsersFit
  <2> QED
    BY <2>1 DEF UsersFit, Stored
<1> QED
  BY <1>1, <1>2, <1>3 DEF SessionsFit

LEMMA SessionArrivalFit ==
  ASSUME TypeOK, Isolated, SessionsFit, NEW r \in Requests, SessionArrival(r)
  PROVE  SessionsFit'
<1>0. sessions' = sessions
  BY DEF SessionArrival, CreateSession, ReadSession, ListSessions, ResumeSession,
     HibernateSession, DeleteSession, LookUpSession, db
<1>a. ASSUME req'[r].pc \in {"done", "deleteRow"},
             \A q \in Requests \ {r} : req'[q] = req[q]
      PROVE  SessionsFit'
  <2>1. PcsKept
    BY <1>a, MovedPcs DEF CreatePcs, UsePcs
  <2> QED
    BY <1>0, <2>1, QuietFit DEF RowsWane
<1>1. CASE CreateSession(r)
  <2>1. CASE req'[r].pc = "done"
    BY <1>1, <1>a, <2>1, CreateSessionEffect
  <2>2. CASE req'[r].pc # "done"
    <3>1. PICK s \in SessionIds : /\ mintedBy[s] = NoId
                                  /\ req'[r].pc = "insertSession" /\ req'[r].sid = s
      BY <1>1, <2>2, CreateSessionEffect
    <3>2. \A q \in Requests \ {r} : req'[q] = req[q]
      BY <1>1, CreateSessionEffect
    <3>3. req'[r].pc \in CreatePcs
      BY <3>1 DEF CreatePcs
    <3>4. /\ ~Stored(s)
          /\ \A q \in Requests : req[q].pc \in CreatePcs \cup UsePcs => req[q].sid # s
      BY <3>1, TakenIsMinted
    <3> QED
      BY <1>0, <3>1, <3>2, <3>3, <3>4, BegunFit
  <2> QED
    BY <2>1, <2>2
<1>2. CASE ReadSession(r) \/ ListSessions(r)
  BY <1>2, <1>a, ReadEffect
<1>3. CASE \E op \in SessionOps : LookUpSession(r, op)
  <2>2. \A q \in Requests \ {r} : req'[q] = req[q]
    BY <1>3, LookUpEffect
  <2>3. \/ req'[r].pc \in {"done", "deleteRow"}
        \/ /\ req'[r].sid \in SessionIds /\ Stored(req'[r].sid)
           /\ req'[r].pc \in {"power", "destroyMachine", "destroyVolume"}
           /\ req'[r].ids = sessions[req'[r].sid].ids /\ "app" \in req'[r].ids
    BY <1>3, LookUpEffect, FirstCallKnows
  <2>4. CASE req'[r].pc \in {"done", "deleteRow"}
    BY <1>a, <2>2, <2>4
  <2>5. CASE /\ req'[r].sid \in SessionIds /\ Stored(req'[r].sid)
             /\ req'[r].pc \in {"power", "destroyMachine", "destroyVolume"}
             /\ req'[r].ids = sessions[req'[r].sid].ids /\ "app" \in req'[r].ids
    <3>1. \A q \in Requests \ {r} : req[q].pc \in CreatePcs => req[q].sid # req'[r].sid
      BY <2>5, RowsTell DEF SessionsFit, CreatorsFit, RowTells
    <3>2. req'[r].pc \in UsePcs
      BY <2>5 DEF UsePcs
    <3>3. sessions[req'[r].sid].ids = req'[r].ids \cup {"app"}
      BY <2>5
    <3> QED
      BY <1>0, <2>2, <2>5, <3>1, <3>2, <3>3, BegunFit
  <2> QED
    BY <2>3, <2>4, <2>5
<1> QED
  BY <1>1, <1>2, <1>3 DEF SessionArrival, ResumeSession, HibernateSession, DeleteSession,
     SessionOps

LEMMA SessionStepFit ==
  ASSUME TypeOK, SessionsFit, RoutesFit, NEW r \in Requests, SessionStep(r)
  PROVE  SessionsFit'
<1>1. CASE EnsureSessionApp(r) \/ CreateVolume(r) \/ CreateMachine(r) \/ UndoVolume(r)
  <2>1. /\ sessions' = sessions /\ req[r].pc \in CreatePcs
        /\ \E pc \in CreatePcs \ {"insertSession"} : Goes(r, pc)
    BY <1>1 DEF EnsureSessionApp, CreateVolume, CreateMachine, AskForMachine, UndoVolume,
       CreatePcs, Goes, db
  <2>2. PcsKept
    BY <2>1, GoesEffect, MovedPcs
  <2> QED
    BY <2>1, <2>2, QuietFit DEF RowsWane
<1>2. CASE Power(r)
  <2>1. /\ sessions' = sessions /\ req[r].pc \in UsePcs
        /\ (\E code : Answer(r, code)) \/ (\E x : GoTo(r, "setStatus", x))
    BY <1>2 DEF Power, UsePcs, db
  <2>2. PcsKept
    BY <2>1, GoToEffect, AnswerEffect, MovedPcs DEF UsePcs, CreatePcs
  <2> QED
    BY <2>1, <2>2, QuietFit DEF RowsWane
<1>3. CASE DestroyMachine(r) \/ DestroyVolume(r)
  <2>1. /\ sessions' = sessions /\ req[r].pc \in UsePcs
        /\ \E pc \in {"destroyVolume", "deleteRow"} : \E x : GoTo(r, pc, x)
    BY <1>3 DEF DestroyMachine, DestroyVolume, Destruction, UsePcs, db
  <2>2. PcsKept
    BY <2>1, GoToEffect, MovedPcs DEF UsePcs, CreatePcs
  <2> QED
    BY <2>1, <2>2, QuietFit DEF RowsWane
<1>4. CASE ReloadSession(r) \/ DeleteRow(r)
  <2>1. /\ \/ sessions' = sessions
           \/ sessions' = [sessions EXCEPT ![req[r].sid] = NoRow]
        /\ \E code : Answer(r, code)
    BY <1>4 DEF ReloadSession, DeleteRow, db
  <2>2. PcsKept
    BY <2>1, AnswerEffect, MovedPcs DEF UsePcs, CreatePcs
  <2>3. RowsWane
    BY <2>1 DEF RowsWane, TypeOK
  <2> QED
    BY <2>2, <2>3, QuietFit
<1> QED
  BY <1>1, <1>2, <1>3, <1>4, InsertSessionFit, FailSessionFit, ProvisionedFit, RecordPowerFit
     DEF SessionStep

LEMMA TemplateFit ==
  ASSUME TypeOK, SessionsFit, NEW r \in Requests, TemplateStep(r) \/ TemplateArrival(r)
  PROVE  SessionsFit'
<1>1. PcsKept
  <2>1. req'[r].pc \in TemplatePcs \cup {"done"} /\ \A q \in Requests \ {r} : req'[q] = req[q]
    BY TemplateStepMoves, TemplateArrivalMoves DEF TemplatePcs
  <2> QED
    BY <2>1, MovedPcs DEF TemplatePcs, CreatePcs, UsePcs
<1>2. RowsWane
  <2>1. CASE sessions' = sessions
    BY <2>1 DEF RowsWane
  <2>2. CASE DeleteTemplate(r)
    <3>1. sessions' = sessions \/ \E t : sessions' = Cascade(t)
      BY <2>2 DEF DeleteTemplate
    <3> QED
      BY <2>1, <3>1 DEF Cascade, RowsWane
  <2> QED
    BY <2>1, <2>2 DEF TemplateStep, TemplateArrival, MarkBuilding, EnsureTemplateApp,
       BuildImage, MarkReady, MarkFailed, ReloadTemplate, CreateTemplate, ReadTemplate,
       ListTemplates, BuildTemplate, db
<1> QED
  BY <1>1, <1>2, QuietFit

LEMMA InitFit == Init => SessionsFit /\ RoutesFit
BY DEF Init, SessionsFit, IdsMatchStatus, CreatorsFit, UsersFit, RoutesFit, Stored, Idle,
   RouteFits, CreatePcs, UsePcs, SessionPcs, TemplatePcs

LEMMA NextFit ==
  TypeOK /\ Isolated /\ SessionsFit /\ RoutesFit /\ [Next]_vars => SessionsFit'
<1> SUFFICES ASSUME TypeOK, Isolated, SessionsFit, RoutesFit, [Next]_vars PROVE SessionsFit'
  OBVIOUS
<1>1. CASE \E r \in Requests : SessionArrival(r) \/ TemplateArrival(r) \/ Advance(r)
  BY <1>1, SessionArrivalFit, SessionStepFit, TemplateFit DEF Advance
<1>2. CASE Crash
  <2>1. sessions' = sessions /\ PcsKept
    BY <1>2 DEF Crash, PcsKept, Idle, CreatePcs, UsePcs, db
  <2> QED
    BY <2>1, QuietFit DEF RowsWane
<1>3. CASE UNCHANGED <<sessions, req>>
  <2>1. PcsKept /\ RowsWane
    BY <1>3 DEF PcsKept, RowsWane
  <2> QED
    BY <2>1, QuietFit
<1> QED
  BY <1>1, <1>2, <1>3 DEF Next, Autostop, Autostart, vars, db

\* The four parts hold each other up; typing and isolation come from before.
LEMMA SessionsStayFit == Spec => [](TypeOK /\ Isolated /\ SessionsFit /\ RoutesFit)
BY TypeCorrect, TenantsIsolated, InitFit, NextFit, NextRoutes, PTL DEF Spec

\* A row names its app exactly when it is running or suspended, and its machine
\* when it is suspended, whatever overlaps and whatever Fly's replies left out:
\* the status an UPDATE by id writes always meets the right row.
THEOREM IdsTellStatus == Spec => []IdsMatchStatus
BY SessionsStayFit, PTL DEF SessionsFit

-----------------------------------------------------------------------------
(* AnswersAreHonest.                                                       *)

\* Handlers that do not move answer nothing; what r answers is in question.
LEMMA SilentAreHonest ==
  ASSUME NEW r \in Requests, \A q \in Requests \ {r} : req'[q] = req[q],
         \/ req'[r].pc # "done"
         \/ req'[r].ans \notin {200, 201, 204}
         \/ req'[r].op \notin {"createSession", "resumeSession", "hibernateSession",
                              "deleteSession", "deleteTemplate"}
  PROVE  SuccessIsTrue
BY DEF SuccessIsTrue, Answered

LEMMA ErrorsAreNoSuccess ==
  /\ \A e : MapError(e) \notin {200, 201, 204}
  /\ 500 \notin {200, 201, 204}
BY DEF MapError

LEMMA ReloadSessionHonest ==
  ASSUME TypeOK, SessionsFit, RoutesFit, NEW r \in Requests, ReloadSession(r)
  PROVE  SuccessIsTrue
<1> DEFINE s == req[r].sid
<1>1. PICK x \in Queried(req[r].live) :
        Answer(r, IF GetSession(req[r].org, s, x) = NoRow
                  THEN MapError(LookupError)
                  ELSE IF req[r].op = "createSession" THEN 201 ELSE 200)
  BY DEF ReloadSession
<1>2. req[r].pc = "reloadSession" /\ req[r].pc \in UsePcs /\ req[r].pc \in SessionPcs
  BY DEF ReloadSession, UsePcs, SessionPcs
<1>3. /\ req'[r].sid = s /\ req'[r].op = req[r].op /\ req[r].op \in SessionOps
      /\ \A q \in Requests \ {r} : req'[q] = req[q]
  BY <1>1, <1>2, AnswerEffect DEF RoutesFit, RouteFits
<1>4. CASE GetSession(req[r].org, s, x) = NoRow
  <2>1. req'[r].ans = MapError(LookupError)
    BY <1>1, <1>4, AnswerEffect
  <2> QED
    BY <1>3, <2>1, ErrorsAreNoSuccess, SilentAreHonest
<1>5. CASE GetSession(req[r].org, s, x) # NoRow
  <2>1. Named(s) = req[r].ids \cup {"app"}
    BY <1>2, <1>5 DEF GetSession, Named, Stored, SessionsFit, UsersFit
  <2>5. req[r].op = "createSession" \/ "machine" \in req[r].ids
    BY <1>2 DEF RoutesFit, RouteFits, ReloadSession
  <2>2. req'[r].ans \in {200, 201}
    BY <1>1, <1>5, AnswerEffect
  <2>3. req'[r].op # "deleteTemplate"
    BY <1>3 DEF SessionOps
  <2>4. Named(req'[r].sid) = req[r].ids \cup {"app"}
    BY <1>3, <2>1
  <2>6. req'[r].op # "deleteSession" \/ req'[r].ans # 204
    BY <2>2
  <2> HIDE DEF s
  <2> QED
    BY <1>3, <2>2, <2>3, <2>4, <2>5, <2>6 DEF SuccessIsTrue, Answered
<1> QED
  BY <1>4, <1>5

LEMMA DeleteRowHonest ==
  ASSUME TypeOK, RoutesFit, NEW r \in Requests, DeleteRow(r)
  PROVE  SuccessIsTrue
<1> DEFINE s == req[r].sid
           found == sessions[s] # NoRow /\ sessions[s].org = req[r].org
<1>1. PICK x \in Queried(req[r].live) :
        /\ sessions' = IF x.applied /\ found
                       THEN [sessions EXCEPT ![s] = NoRow] ELSE sessions
        /\ Answer(r, IF x.failed THEN 500
                     ELSE IF found THEN 204 ELSE MapError("ErrNotFound"))
  BY DEF DeleteRow
<1>2. req[r].pc = "deleteRow" /\ req[r].pc \in SessionPcs
  BY DEF DeleteRow, SessionPcs
<1>3. /\ req'[r].sid = s /\ req'[r].op \in SessionOps
      /\ req'[r].ans = IF x.failed THEN 500
                       ELSE IF found THEN 204 ELSE MapError("ErrNotFound")
      /\ \A q \in Requests \ {r} : req'[q] = req[q]
  BY <1>1, <1>2, AnswerEffect DEF RoutesFit, RouteFits
<1>4. CASE ~x.failed /\ found
  <2>1. x.applied
    BY <1>4, SuccessIsApplied DEF Queried
  <2>2. s \in SessionIds
    BY <1>2 DEF TypeOK, HasTarget
  <2>3. sessions'[s] = NoRow
    BY <1>1, <1>4, <2>1, <2>2 DEF TypeOK
  <2>4. req'[r].ans = 204 /\ req'[r].op # "deleteTemplate"
    BY <1>3, <1>4 DEF SessionOps
  <2>5. sessions'[req'[r].sid] = NoRow
    BY <1>3, <2>3
  <2> QED
    BY <1>3, <2>4, <2>5 DEF SuccessIsTrue, Answered
<1>5. CASE x.failed \/ ~found
  <2>1. req'[r].ans = 500 \/ \E e : req'[r].ans = MapError(e)
    BY <1>3, <1>5
  <2> QED
    BY <1>3, <2>1, ErrorsAreNoSuccess, SilentAreHonest
<1> QED
  BY <1>4, <1>5

LEMMA DeleteTemplateHonest ==
  ASSUME TypeOK, NEW r \in Requests, DeleteTemplate(r)
  PROVE  SuccessIsTrue
<1>1. PICK org \in Orgs, t \in TemplateIds, x \in Queried(TRUE) :
        LET found == templates[t] # NoRow /\ templates[t].org = org
            gone  == x.applied /\ found
        IN  /\ templates' = IF gone THEN [templates EXCEPT ![t] = NoRow] ELSE templates
            /\ sessions' = IF gone THEN Cascade(t) ELSE sessions
            /\ AnswerAtOnce(r, "deleteTemplate", org, t,
                            IF x.failed THEN 500
                            ELSE IF found THEN 204 ELSE MapError("ErrNotFound"))
  BY DEF DeleteTemplate, Minted
<1> DEFINE found == templates[t] # NoRow /\ templates[t].org = org
           code == IF x.failed THEN 500 ELSE IF found THEN 204 ELSE MapError("ErrNotFound")
<1>2. AnswerAtOnce(r, "deleteTemplate", org, t, code)
  BY <1>1
<1>3. /\ req'[r].pc = "done" /\ req'[r].op = "deleteTemplate" /\ req'[r].tid = t
      /\ req'[r].ans = code
      /\ \A q \in Requests \ {r} : req'[q] = req[q]
  <2> HIDE DEF code
  <2>1. "deleteTemplate" \in TemplateOps
    BY DEF TemplateOps
  <2> QED
    BY <1>2, <2>1, AnswerAtOnceEffect
<1>4. CASE ~x.failed /\ found
  <2>1. x.applied
    BY <1>4, SuccessIsApplied DEF Queried
  <2>2. templates' = [templates EXCEPT ![t] = NoRow] /\ sessions' = Cascade(t)
    BY <1>1, <1>4, <2>1
  <2>3. templates'[t] = NoRow
    BY <2>2 DEF TypeOK
  <2>4. \A s \in SessionIds : sessions'[s] # NoRow => sessions'[s].tpl # t
    BY <2>2 DEF Cascade
  <2> HIDE DEF code, found
  <2> QED
    BY <1>3, <2>3, <2>4 DEF SuccessIsTrue, Answered
<1>5. CASE x.failed \/ ~found
  <2>1. code = 500 \/ \E e : code = MapError(e)
    BY <1>5
  <2> HIDE DEF code, found
  <2> QED
    BY <1>3, <2>1, ErrorsAreNoSuccess, SilentAreHonest
<1> QED
  BY <1>4, <1>5

LEMMA SessionStepHonest ==
  ASSUME TypeOK, SessionsFit, RoutesFit, NEW r \in Requests, SessionStep(r)
  PROVE  SuccessIsTrue
<1>1. CASE ReloadSession(r) \/ DeleteRow(r)
  BY <1>1, ReloadSessionHonest, DeleteRowHonest
<1>2. CASE ~(ReloadSession(r) \/ DeleteRow(r))
  <2>1. \/ \E pc \in SessionPcs : Goes(r, pc)
        \/ Answer(r, 500)
    <3> USE DEF SessionPcs, Goes
    <3>1. CASE InsertSession(r)
      BY <3>1 DEF InsertSession
    <3>2. CASE EnsureSessionApp(r)
      BY <3>2 DEF EnsureSessionApp
    <3>3. CASE CreateVolume(r)
      BY <3>3 DEF CreateVolume
    <3>4. CASE CreateMachine(r)
      BY <3>4 DEF CreateMachine, AskForMachine
    <3>5. CASE UndoVolume(r)
      BY <3>5 DEF UndoVolume
    <3>6. CASE FailSession(r)
      BY <3>6 DEF FailSession
    <3>7. CASE Provisioned(r)
      BY <3>7 DEF Provisioned
    <3>8. CASE Power(r)
      BY <3>8 DEF Power
    <3>9. CASE RecordPower(r)
      BY <3>9 DEF RecordPower
    <3>10. CASE DestroyMachine(r)
      BY <3>10 DEF DestroyMachine, Destruction
    <3>11. CASE DestroyVolume(r)
      BY <3>11 DEF DestroyVolume
    <3> QED
      BY <1>2, <3>1, <3>2, <3>3, <3>4, <3>5, <3>6, <3>7, <3>8, <3>9, <3>10, <3>11
         DEF SessionStep
  <2>2. CASE Answer(r, 500)
    BY <2>2, AnswerEffect, ErrorsAreNoSuccess, SilentAreHonest
  <2>3. CASE \E pc \in SessionPcs : Goes(r, pc)
    <3>1. req'[r].pc # "done" /\ \A q \in Requests \ {r} : req'[q] = req[q]
      BY <2>3, GoesEffect DEF SessionPcs
    <3> QED
      BY <3>1, SilentAreHonest
  <2> QED
    BY <2>1, <2>2, <2>3
<1> QED
  BY <1>1, <1>2

LEMMA SessionArrivalHonest ==
  ASSUME TypeOK, NEW r \in Requests, SessionArrival(r)
  PROVE  SuccessIsTrue
<1>1. CASE CreateSession(r)
  <2>1. req'[r].op = "createSession" /\ \A q \in Requests \ {r} : req'[q] = req[q]
    BY <1>1, CreateSessionEffect
  <2>2. req'[r].pc # "done" \/ req'[r].ans # 201
    BY <1>1, CreateSessionEffect
  <2> QED
    BY <2>1, <2>2 DEF SuccessIsTrue, Answered
<1>2. CASE ReadSession(r) \/ ListSessions(r)
  <2>1. /\ req'[r].op \in {"getSession", "listSessions"}
        /\ \A q \in Requests \ {r} : req'[q] = req[q]
    BY <1>2, ReadEffect
  <2> QED
    BY <2>1, SilentAreHonest
<1>3. CASE \E op \in SessionOps : LookUpSession(r, op)
  <2>1. PICK op \in SessionOps : LookUpSession(r, op)
    BY <1>3
  <2>2. /\ req'[r].pc # "done" \/ req'[r].ans = 404
        /\ \A q \in Requests \ {r} : req'[q] = req[q]
    BY <2>1, LookUpEffect
  <2> QED
    BY <2>2, SilentAreHonest
<1> QED
  BY <1>1, <1>2, <1>3 DEF SessionArrival, ResumeSession, HibernateSession,
     DeleteSession, SessionPcs, SessionOps

LEMMA TemplateHonest ==
  ASSUME TypeOK, RoutesFit, NEW r \in Requests, TemplateStep(r) \/ TemplateArrival(r)
  PROVE  SuccessIsTrue
<1>1. CASE DeleteTemplate(r)
  BY <1>1, DeleteTemplateHonest
<1>2. CASE ~DeleteTemplate(r)
  <2>1. /\ req'[r].op \in TemplateOps \ {"deleteTemplate"}
        /\ \A q \in Requests \ {r} : req'[q] = req[q]
    BY <1>2, TemplateStepMoves, TemplateArrivalMoves DEF RoutesFit, RouteFits, TemplateOps
  <2> QED
    BY <2>1, SilentAreHonest DEF TemplateOps
<1> QED
  BY <1>1, <1>2

\* 201, 200 and 204 are never wishful, although the handlers drop the errors of
\* several of their calls: what is answered is true of the rows in that step.
THEOREM SuccessIsHonest == Spec => AnswersAreHonest
<1>1. ASSUME TypeOK, SessionsFit, RoutesFit, [Next]_vars
      PROVE  [SuccessIsTrue]_vars
  <2>1. CASE \E r \in Requests : SessionArrival(r) \/ TemplateArrival(r) \/ Advance(r)
    BY <1>1, <2>1, SessionArrivalHonest, SessionStepHonest, TemplateHonest DEF Advance
  <2>2. CASE Crash
    BY <2>2 DEF Crash, SuccessIsTrue, Answered, Idle
  <2>3. CASE UNCHANGED req
    BY <2>3 DEF SuccessIsTrue, Answered
  <2> QED
    BY <1>1, <2>1, <2>2, <2>3 DEF Next, Autostop, Autostart, vars
<1> QED
  BY <1>1, SessionsStayFit, PTL DEF Spec, AnswersAreHonest

-----------------------------------------------------------------------------
(* The refinement of SessionLifecycle.                                     *)

Inserting(s) == \E r \in Requests : req[r].pc = "insertSession" /\ req[r].sid = s

Stage == [s \in SessionIds |-> StageOf(s)]

\* Steps of the lifecycle, from what happens to each stage.
LEMMA StagesStay ==
  ASSUME \A u \in SessionIds : StageOf(u)' = StageOf(u)
  PROVE  UNCHANGED Stage
BY DEF Stage

LEMMA StageMoves ==
  ASSUME NEW s \in SessionIds, NEW from, NEW to,
         StageOf(s) \in from, StageOf(s)' = to,
         \A u \in SessionIds \ {s} : StageOf(u)' = StageOf(u)
  PROVE  Lifecycle!Move(s, from, to)
BY DEF Lifecycle!Move

LEMMA StagesGo ==
  ASSUME \A u \in SessionIds : StageOf(u)' = StageOf(u) \/ StageOf(u)' = "gone"
  PROVE  Lifecycle!Next \/ UNCHANGED Stage
<1> DEFINE gone == {u \in SessionIds : StageOf(u)' # StageOf(u)}
<1>1. CASE gone = {}
  BY <1>1, StagesStay
<1>2. CASE gone # {}
  <2>1. \A u \in SessionIds : StageOf(u)' = IF u \in gone THEN "gone" ELSE StageOf(u)
    OBVIOUS
  <2> HIDE DEF gone
  <2>2. [s \in SessionIds |-> StageOf(s)]' =
          [i \in SessionIds |-> IF i \in gone THEN "gone"
                                ELSE [s \in SessionIds |-> StageOf(s)][i]]
    BY <2>1
  <2>3. Lifecycle!Remove(gone)
    BY <1>2, <2>2 DEF Lifecycle!Remove
  <2>4. gone \in SUBSET SessionIds
    BY DEF gone
  <2> QED
    BY <2>3, <2>4 DEF Lifecycle!Next
<1> QED
  BY <1>1, <1>2

\* A row there is has an id that was made, and nobody is about to insert it.
LEMMA StoredIsNotAwaited ==
  ASSUME TypeOK, Isolated, SessionsFit, NEW s \in SessionIds, Stored(s)
  PROVE  mintedBy[s] # NoId /\ ~Inserting(s)
<1>1. "insertSession" \in CreatePcs
  BY DEF CreatePcs
<1> QED
  BY <1>1, TakenIsMinted DEF SessionsFit, CreatorsFit, Inserting

\* Steps that change no row but to remove it, make no id of a session and start
\* no insertion leave the stages or end them.
LEMMA WaneGo ==
  ASSUME TypeOK, Isolated, SessionsFit, RowsWane,
         \A u \in SessionIds : mintedBy'[u] = mintedBy[u],
         \A q \in Requests : req'[q].pc = "insertSession" =>
           req[q].pc = "insertSession" /\ req'[q].sid = req[q].sid
  PROVE  Lifecycle!Next \/ UNCHANGED Stage
<1>1. ASSUME NEW u \in SessionIds
      PROVE  StageOf(u)' = StageOf(u) \/ StageOf(u)' = "gone"
  <2>1. Inserting(u)' => Inserting(u)
    BY DEF Inserting
  <2>2. Awaited(u)' => Awaited(u)
    BY <2>1 DEF Awaited, Inserting
  <2>3. CASE Stored(u)'
    BY <2>3 DEF RowsWane, Stored, StageOf
  <2>4. CASE ~Stored(u)' /\ Stored(u)
    <3>1. ~Awaited(u)'
      BY <2>1, <2>4, StoredIsNotAwaited DEF Awaited, Inserting
    <3> QED
      BY <2>4, <3>1 DEF StageOf
  <2>5. CASE ~Stored(u)' /\ ~Stored(u)
    BY <2>2, <2>5 DEF StageOf
  <2> QED
    BY <2>3, <2>4, <2>5
<1> QED
  BY <1>1, StagesGo

\* An UPDATE by id of a row that is there.
LEMMA RowMoves ==
  ASSUME TypeOK, Isolated, SessionsFit, NEW r \in Requests, NEW s \in SessionIds,
         UNCHANGED mintedBy,
         \A q \in Requests \ {r} : req'[q] = req[q],
         req[r].pc # "insertSession", req'[r].pc # "insertSession",
         Stored(s), sessions'[s] # NoRow,
         \A u \in SessionIds \ {s} : sessions'[u] = sessions[u]
  PROVE  /\ StageOf(s) = sessions[s].status
         /\ StageOf(s)' = sessions'[s].status
         /\ \A u \in SessionIds \ {s} : StageOf(u)' = StageOf(u)
<1>1. StageOf(s) = sessions[s].status /\ StageOf(s)' = sessions'[s].status
  BY DEF StageOf, Stored
<1>2. ASSUME NEW u \in SessionIds \ {s} PROVE StageOf(u)' = StageOf(u)
  <2>1. Awaited(u)' <=> Awaited(u)
    BY DEF Awaited
  <2> QED
    BY <2>1 DEF StageOf, Stored
<1> QED
  BY <1>1, <1>2

LEMMA CreateSessionStages ==
  ASSUME TypeOK, Isolated, SessionsFit, NEW r \in Requests, CreateSession(r)
  PROVE  Lifecycle!Next \/ UNCHANGED Stage
<1>1. sessions' = sessions /\ Free(r)
  BY DEF CreateSession
<1>2. \A q \in Requests \ {r} : req'[q] = req[q]
  BY CreateSessionEffect
<1>3. CASE req'[r].pc = "done" /\ UNCHANGED mintedBy
  <2>1. /\ RowsWane
        /\ \A q \in Requests : req'[q].pc = "insertSession" =>
             req[q].pc = "insertSession" /\ req'[q].sid = req[q].sid
    BY <1>1, <1>2, <1>3 DEF RowsWane
  <2> QED
    BY <1>3, <2>1, WaneGo
<1>4. CASE \E s \in SessionIds, org \in Orgs :
             /\ mintedBy[s] = NoId
             /\ mintedBy' = [mintedBy EXCEPT ![s] = org]
             /\ req'[r].pc = "insertSession"
             /\ req'[r].sid = s
  <2>1. PICK s \in SessionIds, org \in Orgs :
          /\ mintedBy[s] = NoId
          /\ mintedBy' = [mintedBy EXCEPT ![s] = org]
          /\ req'[r].pc = "insertSession"
          /\ req'[r].sid = s
    BY <1>4
  <2>2. ~Stored(s)
    BY <2>1, TakenIsMinted
  <2>3. StageOf(s) = "none" /\ StageOf(s)' = "none"
    BY <1>1, <2>1, <2>2 DEF StageOf, Stored, Awaited
  <2>4. ASSUME NEW u \in SessionIds \ {s} PROVE StageOf(u)' = StageOf(u)
    <3>1. mintedBy'[u] = mintedBy[u]
      BY <2>1 DEF TypeOK
    <3>2. Awaited(u)' <=> Awaited(u)
      BY <1>1, <1>2, <2>1, <3>1 DEF Awaited, Free
    <3> QED
      BY <1>1, <3>2 DEF StageOf, Stored
  <2> QED
    BY <2>3, <2>4, StagesStay
<1> QED
  BY <1>3, <1>4, CreateSessionEffect

LEMMA InsertSessionStages ==
  ASSUME TypeOK, Isolated, SessionsFit, NEW r \in Requests, InsertSession(r)
  PROVE  Lifecycle!Next \/ UNCHANGED Stage
<1> DEFINE s == req[r].sid
           t == req[r].tid
<1>1. /\ \/ sessions' = sessions
         \/ sessions' = [sessions EXCEPT ![s] = PendingRow(req[r].org, t)]
      /\ (\E x : GoTo(r, "ensureSessionApp", x)) \/ Answer(r, 500)
      /\ req[r].pc = "insertSession"
      /\ UNCHANGED mintedBy
  BY DEF InsertSession
<1>2. "insertSession" \in CreatePcs
  BY DEF CreatePcs
<1>3. s \in SessionIds /\ ~Stored(s) /\ req[r].org \in Orgs /\ t \in TemplateIds
  BY <1>1, <1>2, AtWorkHasSession DEF SessionsFit, CreatorsFit, TypeOK, HasTarget
<1>4. req'[r].pc # "insertSession" /\ \A q \in Requests \ {r} : req'[q] = req[q]
  BY <1>1, GoToEffect, AnswerEffect
<1>5. CASE sessions' = sessions
  BY <1>1, <1>4, <1>5, WaneGo DEF RowsWane
<1>6. CASE sessions' = [sessions EXCEPT ![s] = PendingRow(req[r].org, t)]
  <2>1. PendingRow(req[r].org, t) # NoRow /\ PendingRow(req[r].org, t).status = "pending"
    <3>1. PendingRow(req[r].org, t) \in SessionRow
      BY <1>3 DEF PendingRow, SessionRow, SessionStatus
    <3> QED
      BY <3>1, IdsAreDistinct DEF PendingRow
  <2>2. sessions'[s] = PendingRow(req[r].org, t)
        /\ \A u \in SessionIds \ {s} : sessions'[u] = sessions[u]
    BY <1>3, <1>6 DEF TypeOK
  <2>3. PICK i \in SessionIds : i = s
    BY <1>3
  <2>4. StageOf(i) = "none"
    BY <1>1, <1>3, <2>3 DEF StageOf, Awaited
  <2>5. StageOf(i)' = "pending"
    BY <2>1, <2>2, <2>3 DEF StageOf, Stored
  <2>6. ASSUME NEW u \in SessionIds \ {i} PROVE StageOf(u)' = StageOf(u)
    <3>1. Awaited(u)' <=> Awaited(u)
      BY <1>1, <1>4, <2>3 DEF Awaited
    <3> QED
      BY <2>2, <2>3, <3>1 DEF StageOf, Stored
  <2>7. Lifecycle!Register(i)
    BY <2>4, <2>5, <2>6, StageMoves DEF Lifecycle!Register
  <2> QED
    BY <2>7 DEF Lifecycle!Next
<1> QED
  BY <1>1, <1>5, <1>6

LEMMA FailSessionStages ==
  ASSUME TypeOK, Isolated, SessionsFit, NEW r \in Requests, FailSession(r)
  PROVE  Lifecycle!Next \/ UNCHANGED Stage
<1> DEFINE s == req[r].sid
<1>1. /\ req[r].pc = "failSession" /\ req[r].pc \in CreatePcs
      /\ UNCHANGED mintedBy
      /\ sessions' = SetStatus(s, "error") \/ sessions' = sessions
      /\ req'[r].pc = "done" /\ \A q \in Requests \ {r} : req'[q] = req[q]
  BY AnswerEffect DEF FailSession, CreatePcs
<1>2. PICK i \in SessionIds : i = s
  BY <1>1, AtWorkHasSession
<1>3. sessions \in [SessionIds -> SessionRow \cup {NoRow}] /\ NoRow \notin SessionRow
  BY IdsAreDistinct DEF TypeOK
<1>4. CASE sessions' = sessions \/ ~Stored(i)
  <2>1. RowsWane
    BY <1>1, <1>2, <1>3, <1>4 DEF RowsWane, SetStatus, Stored
  <2> QED
    BY <1>1, <2>1, WaneGo
<1>5. CASE sessions' = SetStatus(s, "error") /\ Stored(i)
  <2>1. sessions'[i] = [sessions[i] EXCEPT !.status = "error"]
        /\ \A u \in SessionIds \ {i} : sessions'[u] = sessions[u]
    BY <1>2, <1>3, <1>5 DEF SetStatus, Stored
  <2>2. sessions'[i] # NoRow /\ sessions'[i].status = "error"
    BY <1>3, <1>5, <2>1 DEF SessionRow, SessionStatus, Stored
  <2>3. sessions[i].status = "pending"
    BY <1>1, <1>2, <1>5 DEF SessionsFit, CreatorsFit
  <2>4. /\ StageOf(i) = "pending" /\ StageOf(i)' = "error"
        /\ \A u \in SessionIds \ {i} : StageOf(u)' = StageOf(u)
    BY <1>1, <1>5, <2>1, <2>2, <2>3, RowMoves
  <2>5. Lifecycle!Fail(i)
    BY <2>4, StageMoves DEF Lifecycle!Fail
  <2> QED
    BY <2>5 DEF Lifecycle!Next
<1> QED
  BY <1>1, <1>4, <1>5

LEMMA ProvisionedStages ==
  ASSUME TypeOK, Isolated, SessionsFit, NEW r \in Requests, Provisioned(r)
  PROVE  Lifecycle!Next \/ UNCHANGED Stage
<1> DEFINE s == req[r].sid
<1>1. /\ req[r].pc = "provisioned" /\ req[r].pc \in CreatePcs
      /\ UNCHANGED mintedBy
      /\ sessions' = MarkProvisioned(s, req[r].ids) \/ sessions' = sessions
      /\ req'[r].pc # "insertSession" /\ \A q \in Requests \ {r} : req'[q] = req[q]
  BY AnswerEffect, GoToEffect DEF Provisioned, CreatePcs
<1>2. PICK i \in SessionIds : i = s
  BY <1>1, AtWorkHasSession
<1>3. sessions \in [SessionIds -> SessionRow \cup {NoRow}] /\ NoRow \notin SessionRow
  BY IdsAreDistinct DEF TypeOK
<1>4. CASE sessions' = sessions \/ ~Stored(i)
  <2>1. RowsWane
    BY <1>1, <1>2, <1>3, <1>4 DEF RowsWane, MarkProvisioned, Stored
  <2> QED
    BY <1>1, <2>1, WaneGo
<1>5. CASE sessions' = MarkProvisioned(s, req[r].ids) /\ Stored(i)
  <2>1. sessions'[i] = [sessions[i] EXCEPT !.status = "running", !.ids = req[r].ids \cup {"app"}]
        /\ \A u \in SessionIds \ {i} : sessions'[u] = sessions[u]
    BY <1>2, <1>3, <1>5 DEF MarkProvisioned, Stored
  <2>2. sessions'[i] # NoRow /\ sessions'[i].status = "running"
    <3>1. sessions[i] \in SessionRow
      BY <1>3, <1>5 DEF Stored
    <3>a. req[r].ids \cup {"app"} \in SUBSET FlyIds
      BY DEF TypeOK, Request, FlyIds
    <3>2. sessions'[i] \in SessionRow
      BY <2>1, <3>1, <3>a DEF SessionRow, SessionStatus
    <3>3. sessions'[i].status = "running"
      BY <2>1, <3>1 DEF SessionRow
    <3> QED
      BY <1>3, <3>2, <3>3
  <2>3. sessions[i].status = "pending"
    BY <1>1, <1>2, <1>5 DEF SessionsFit, CreatorsFit
  <2>4. /\ StageOf(i) = "pending" /\ StageOf(i)' = "running"
        /\ \A u \in SessionIds \ {i} : StageOf(u)' = StageOf(u)
    BY <1>1, <1>5, <2>1, <2>2, <2>3, RowMoves
  <2>5. Lifecycle!Provision(i)
    BY <2>4, StageMoves DEF Lifecycle!Provision
  <2> QED
    BY <2>5 DEF Lifecycle!Next
<1> QED
  BY <1>1, <1>4, <1>5

LEMMA RecordPowerStages ==
  ASSUME TypeOK, Isolated, SessionsFit, NEW r \in Requests, RecordPower(r)
  PROVE  Lifecycle!Next \/ UNCHANGED Stage
<1> DEFINE s == req[r].sid
<1>a. PICK status \in {"running", "suspended"} :
        sessions' = sessions \/ sessions' = SetStatus(s, status)
  <2> DEFINE status == IF req[r].op = "resumeSession" THEN "running" ELSE "suspended"
  <2>1. status \in {"running", "suspended"}
    OBVIOUS
  <2>2. sessions' = sessions \/ sessions' = SetStatus(s, status)
    BY DEF RecordPower
  <2> HIDE DEF status
  <2> QED
    BY <2>1, <2>2
<1>1. /\ req[r].pc = "setStatus" /\ req[r].pc \in UsePcs
      /\ UNCHANGED mintedBy
      /\ req'[r].pc # "insertSession" /\ \A q \in Requests \ {r} : req'[q] = req[q]
  BY GoToEffect DEF RecordPower, UsePcs
<1>2. PICK i \in SessionIds : i = s
  BY <1>1, AtWorkHasSession
<1>3. sessions \in [SessionIds -> SessionRow \cup {NoRow}] /\ NoRow \notin SessionRow
  BY IdsAreDistinct DEF TypeOK
<1>4. CASE sessions' = sessions \/ ~Stored(i)
  <2>1. RowsWane
    BY <1>a, <1>2, <1>3, <1>4 DEF RowsWane, SetStatus, Stored
  <2> QED
    BY <1>1, <2>1, WaneGo
<1>5. CASE sessions' = SetStatus(s, status) /\ Stored(i)
  <2>1. sessions'[i] = [sessions[i] EXCEPT !.status = status]
        /\ \A u \in SessionIds \ {i} : sessions'[u] = sessions[u]
    BY <1>2, <1>3, <1>5 DEF SetStatus, Stored
  <2>2. sessions'[i] # NoRow /\ sessions'[i].status = status
    BY <1>3, <1>5, <2>1 DEF SessionRow, SessionStatus, Stored
  <2>3. sessions[i].status \in {"running", "suspended"}
    BY <1>1, <1>2, <1>5, RowsTell DEF SessionsFit, UsersFit, RowTells
  <2>4. /\ StageOf(i) = sessions[i].status /\ StageOf(i)' = status
        /\ \A u \in SessionIds \ {i} : StageOf(u)' = StageOf(u)
    BY <1>1, <1>5, <2>1, <2>2, RowMoves
  <2>5. CASE sessions[i].status = status
    BY <2>4, <2>5, StagesStay
  <2>6. CASE sessions[i].status = "suspended" /\ status = "running"
    <3>1. Lifecycle!Resume(i)
      BY <2>4, <2>6, StageMoves DEF Lifecycle!Resume
    <3> QED
      BY <3>1 DEF Lifecycle!Next
  <2>7. CASE sessions[i].status = "running" /\ status = "suspended"
    <3>1. Lifecycle!Hibernate(i)
      BY <2>4, <2>7, StageMoves DEF Lifecycle!Hibernate
    <3> QED
      BY <3>1 DEF Lifecycle!Next
  <2> QED
    BY <2>3, <2>5, <2>6, <2>7
<1> QED
  BY <1>a, <1>4, <1>5

\* All other steps.
LEMMA OtherStages ==
  ASSUME TypeOK, Isolated, SessionsFit, [Next]_vars,
         \A r \in Requests : ~(CreateSession(r) \/ InsertSession(r) \/ FailSession(r)
                                \/ Provisioned(r) \/ RecordPower(r))
  PROVE  Lifecycle!Next \/ UNCHANGED Stage
<1> DEFINE Kept == \A q \in Requests : req'[q].pc = "insertSession" =>
                     req[q].pc = "insertSession" /\ req'[q].sid = req[q].sid
           MintsKept == \A u \in SessionIds : mintedBy'[u] = mintedBy[u]
<1>1. ASSUME NEW r \in Requests, SessionStep(r) PROVE RowsWane /\ Kept /\ MintsKept
  <2>1. Kept
    BY <1>1, SessionStepMoves, GoesEffect, AnswerEffect
  <2>2. /\ \/ sessions' = sessions
           \/ sessions' = [sessions EXCEPT ![req[r].sid] = NoRow]
        /\ UNCHANGED mintedBy
    BY <1>1 DEF SessionStep, EnsureSessionApp, CreateVolume, CreateMachine, AskForMachine,
       UndoVolume, ReloadSession, Power, DestroyMachine, DestroyVolume, DeleteRow, db
  <2> QED
    BY <2>1, <2>2 DEF RowsWane, TypeOK
<1>2. ASSUME NEW r \in Requests, TemplateStep(r) \/ TemplateArrival(r)
      PROVE  RowsWane /\ Kept /\ MintsKept
  <2>1. Kept
    BY <1>2, TemplateStepMoves, TemplateArrivalMoves DEF TemplatePcs
  <2>2. RowsWane
    <3>1. sessions' = sessions \/ \E t : sessions' = Cascade(t)
      BY <1>2 DEF TemplateStep, TemplateArrival, MarkBuilding, EnsureTemplateApp,
         BuildImage, MarkReady, MarkFailed, ReloadTemplate, CreateTemplate, ReadTemplate,
         ListTemplates, BuildTemplate, DeleteTemplate, db
    <3> QED
      BY <3>1 DEF Cascade, RowsWane
  <2>3. MintsKept
    <3>1. UNCHANGED mintedBy \/ \E org \in Orgs, t \in TemplateIds :
                                  mintedBy' = [mintedBy EXCEPT ![t] = org]
      BY <1>2 DEF TemplateStep, TemplateArrival, MarkBuilding, EnsureTemplateApp,
         BuildImage, MarkReady, MarkFailed, ReloadTemplate, CreateTemplate, ReadTemplate,
         ListTemplates, BuildTemplate, DeleteTemplate, db
    <3> QED
      BY <3>1, IdsAreDistinct DEF TypeOK
  <2> QED
    BY <2>1, <2>2, <2>3
<1>3. ASSUME NEW r \in Requests, SessionArrival(r) PROVE RowsWane /\ Kept /\ MintsKept
  <2>1. sessions' = sessions /\ UNCHANGED mintedBy
    BY <1>3 DEF SessionArrival, ReadSession, ListSessions, ResumeSession,
       HibernateSession, DeleteSession, LookUpSession, db
  <2>2. Kept
    <3>1. CASE ReadSession(r) \/ ListSessions(r)
      BY <3>1, ReadEffect
    <3>2. CASE \E op \in SessionOps : LookUpSession(r, op)
      <4>1. req'[r].pc # "insertSession" /\ \A q \in Requests \ {r} : req'[q] = req[q]
        BY <3>2, LookUpEffect, FirstCallKnows
      <4> QED
        BY <4>1
    <3> QED
      BY <1>3, <3>1, <3>2 DEF SessionArrival, ResumeSession, HibernateSession,
         DeleteSession, SessionOps
  <2> QED
    BY <2>1, <2>2 DEF RowsWane
<1>4. CASE Crash
  <2>1. RowsWane /\ Kept /\ MintsKept
    BY <1>4 DEF Crash, Idle, RowsWane, db
  <2> QED
    BY <2>1, WaneGo
<1>5. CASE UNCHANGED <<sessions, mintedBy, req>>
  BY <1>5, WaneGo DEF RowsWane
<1> HIDE DEF Kept, MintsKept
<1>6. CASE RowsWane /\ Kept /\ MintsKept
  BY <1>6, WaneGo DEF Kept, MintsKept
<1> QED
  BY <1>1, <1>2, <1>3, <1>4, <1>5, <1>6 DEF Next, Advance, Autostop, Autostart, vars, db

LEMMA InitStages == Init => Lifecycle!Init
BY DEF Init, Lifecycle!Init, StageOf, Stored, Awaited

LEMMA NextStages ==
  TypeOK /\ Isolated /\ SessionsFit /\ [Next]_vars => [Lifecycle!Next]_Stage
BY CreateSessionStages, InsertSessionStages, FailSessionStages, ProvisionedStages,
   RecordPowerStages, OtherStages

\* Every behaviour of the control plane, failing, overlapping or cut off, takes
\* each session through its lifecycle: no statement revives a row, takes it back
\* to pending or out of error.
THEOREM ImplementsLifecycle == Spec => RefinesLifecycle
BY InitStages, NextStages, SessionsStayFit, PTL
   DEF Spec, RefinesLifecycle, Lifecycle!Spec, Stage
=============================================================================
