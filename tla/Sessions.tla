------------------------------ MODULE Sessions ------------------------------
(***************************************************************************)
(* The session routes: createSession, getSession, listSessions,            *)
(* resumeSession, hibernateSession, deleteSession.  One action per call a  *)
(* handler makes to the database or to Fly; what it computes in between    *)
(* belongs to the action before.                                           *)
(***************************************************************************)
EXTENDS Platform

-----------------------------------------------------------------------------
(* createSession                                                           *)

ImageToBoot(tpl) == IF tpl.image # NoImage THEN tpl.image ELSE DefaultImage

\* The template's image decides, not its status.
CreateSession(r) ==
  /\ Free(r)
  /\ "createSession" \in Ops
  /\ \E org \in Orgs, t \in Minted(TemplateIds), x \in Queried(TRUE) :
       LET tpl == GetTemplate(org, t, x)
           new == Accept("createSession", org, NoId, t, x)
           reject(e) == /\ req' = [req EXCEPT ![r] =
                              [new EXCEPT !.pc = "done", !.live = TRUE, !.ans = MapError(e)]]
                        /\ UNCHANGED mintedBy
       IN  \/ tpl = NoRow /\ reject(TemplateError(LookupError))
           \/ tpl # NoRow /\ ImageToBoot(tpl) = NoImage /\ reject("ErrTemplateNotReady")
           \/ /\ tpl # NoRow
              /\ ImageToBoot(tpl) # NoImage
              /\ \E s \in SessionIds \ Minted(SessionIds) :
                   /\ mintedBy' = [mintedBy EXCEPT ![s] = org]
                   /\ req' = [req EXCEPT ![r] = [new EXCEPT !.pc = "insertSession",
                                !.sid = s, !.img = ImageToBoot(tpl)]]
  /\ UNCHANGED <<sessions, templates, fly>>

\* sessions.Create.  The template may have been deleted since it was loaded:
\* the foreign key refuses the row.  RETURNING yields the five NULL columns.
InsertSession(r) ==
  LET s == req[r].sid
      t == req[r].tid
  IN  /\ req[r].pc = "insertSession"
      /\ \E x \in Replies(req[r].live, DbFaults, templates[t] # NoRow) :
           /\ sessions' = IF x.applied
                          THEN [sessions EXCEPT ![s] = PendingRow(req[r].org, t)]
                          ELSE sessions
           /\ IF ~x.failed /\ Readable(PendingRow(req[r].org, t))
              THEN GoTo(r, "ensureSessionApp", x)
              ELSE Answer(r, 500)
      /\ UNCHANGED <<templates, mintedBy, fly>>

\* Mutant: the failure path forgets failSession.
EnsureSessionAppUnmarked(r) ==
  /\ req[r].pc = "ensureSessionApp"
  /\ \E x \in Replies(req[r].live, FlyFaults["EnsureApp"], TRUE) :
       /\ apps' = IF x.applied THEN apps \cup {req[r].sid} ELSE apps
       /\ IF x.failed THEN Answer(r, 500) ELSE GoTo(r, "createVolume", x)
  /\ UNCHANGED <<db, volumes, machines, boots, registry, astray>>

\* builder.EnsureApp: 409 from Fly counts as success.
EnsureSessionApp(r) ==
  /\ req[r].pc = "ensureSessionApp"
  /\ \E x \in Replies(req[r].live, FlyFaults["EnsureApp"], TRUE) :
       /\ apps' = IF x.applied THEN apps \cup {req[r].sid} ELSE apps
       /\ GoTo(r, IF x.failed THEN "failSession" ELSE "createVolume", x)
  /\ UNCHANGED <<db, volumes, machines, boots, registry, astray>>

CreateVolume(r) ==
  LET s == req[r].sid
  IN  /\ req[r].pc = "createVolume"
      /\ \E x \in Replies(req[r].live, FlyFaults["CreateVolume"], s \in apps) :
         \E told \in Told(x, FlyFaults["CreateVolume"]) :
           /\ volumes' = IF x.applied THEN volumes \cup {s} ELSE volumes
           /\ StraysIf(s, x.applied /\ ~told)
           /\ GoOn(r, IF x.failed THEN "failSession" ELSE "createMachine", x, "volume", told)
      /\ UNCHANGED <<db, apps, machines, boots, registry>>

\* Fly may refuse a machine that mounts the volume "".
CreateMachineReplies(r) ==
  LET s == req[r].sid
      named == "volume" \in req[r].ids
  IN  Replies(req[r].live,
              FlyFaults["CreateMachine"] \cup (IF named THEN {} ELSE {"refused"}),
              s \in apps /\ (named => s \in volumes))

\* What follows a failure is a parameter for the mutants' sake.
AskForMachine(r, onFailure) ==
  LET s == req[r].sid
  IN  /\ req[r].pc = "createMachine"
      /\ \E x \in CreateMachineReplies(r) : \E told \in Told(x, FlyFaults["CreateMachine"]) :
           /\ machines' = IF x.applied THEN [machines EXCEPT ![s] = "started"] ELSE machines
           /\ boots' = IF x.applied THEN [boots EXCEPT ![s] = req[r].img] ELSE boots
           /\ StraysIf(s, x.applied /\ ~told)
           /\ GoOn(r, IF x.failed THEN onFailure ELSE "provisioned", x, "machine", told)
      /\ UNCHANGED <<db, apps, volumes, registry>>

\* Mutants: the failure path leaves the volume, or tries again without end.
CreateMachineNoCleanup(r) == AskForMachine(r, "failSession")
CreateMachineRetried(r) == AskForMachine(r, "createVolume")

CreateMachine(r) == AskForMachine(r, "undoVolume")

\* Fly may refuse to delete a volume a machine still mounts; a volume whose id
\* is not known is not found.
DestroyVolumeReplies(r) ==
  LET s == req[r].sid
  IN  Replies(req[r].live,
              FlyFaults["DestroyVolume"] \cup
                (IF machines[s] # "none" THEN {"refused"} ELSE {}),
              "volume" \in req[r].ids /\ s \in volumes)

\* Best effort: the reply is ignored.
UndoVolume(r) ==
  /\ req[r].pc = "undoVolume"
  /\ \E x \in DestroyVolumeReplies(r) :
       /\ volumes' = IF x.applied THEN volumes \ {req[r].sid} ELSE volumes
       /\ StraysIf(req[r].sid, req[r].sid \in volumes')
       /\ GoTo(r, "failSession", x)
  /\ UNCHANGED <<db, apps, machines, boots, registry>>

\* failSession uses the request's own context, and ignores the reply.
FailSession(r) ==
  /\ req[r].pc = "failSession"
  /\ \E x \in Queried(req[r].live) :
       sessions' = IF x.applied THEN SetStatus(req[r].sid, "error") ELSE sessions
  /\ Answer(r, 500)
  /\ UNCHANGED <<templates, mintedBy, fly>>

\* Mutants: the error of Provisioned is dropped, or handled by failSession.
ProvisionedUnchecked(r) ==
  /\ req[r].pc = "provisioned"
  /\ \E x \in Queried(req[r].live) :
       /\ sessions' = IF x.applied THEN MarkProvisioned(req[r].sid, req[r].ids) ELSE sessions
       /\ GoTo(r, "reloadSession", x)
  /\ UNCHANGED <<templates, mintedBy, fly>>

ProvisionedOrFailed(r) ==
  /\ req[r].pc = "provisioned"
  /\ \E x \in Queried(req[r].live) :
       /\ sessions' = IF x.applied THEN MarkProvisioned(req[r].sid, req[r].ids) ELSE sessions
       /\ GoTo(r, IF x.failed THEN "failSession" ELSE "reloadSession", x)
  /\ UNCHANGED <<templates, mintedBy, fly>>

\* A failure here is answered as it is: no cleanup and no failSession.
Provisioned(r) ==
  /\ req[r].pc = "provisioned"
  /\ \E x \in Queried(req[r].live) :
       /\ sessions' = IF x.applied THEN MarkProvisioned(req[r].sid, req[r].ids) ELSE sessions
       /\ IF x.failed THEN Answer(r, 500) ELSE GoTo(r, "reloadSession", x)
  /\ UNCHANGED <<templates, mintedBy, fly>>

\* The row sent to the client; its error is not turned into ErrSessionNotFound.
ReloadSession(r) ==
  /\ req[r].pc = "reloadSession"
  /\ \E x \in Queried(req[r].live) :
       Answer(r, IF GetSession(req[r].org, req[r].sid, x) = NoRow
                 THEN MapError(LookupError)
                 ELSE IF req[r].op = "createSession" THEN 201 ELSE 200)
  /\ UNCHANGED <<db, fly>>

-----------------------------------------------------------------------------
(* getSession and listSessions                                             *)

ReadSession(r) ==
  /\ Free(r)
  /\ "getSession" \in Ops
  /\ \E org \in Orgs, s \in Minted(SessionIds), x \in Queried(TRUE) :
       req' = [req EXCEPT ![r] =
                 [Accept("getSession", org, s, NoId, Done) EXCEPT !.pc = "done",
                    !.ans = IF GetSession(org, s, x) = NoRow
                            THEN MapError(LookupError) ELSE 200]]
  /\ UNCHANGED <<db, fly>>

ListSessions(r) ==
  /\ Free(r)
  /\ "listSessions" \in Ops
  /\ \E org \in Orgs, x \in Queried(TRUE) :
       req' = [req EXCEPT ![r] =
                 [Accept("listSessions", org, NoId, NoId, Done) EXCEPT !.pc = "done",
                    !.ans = IF ListSucceeds(sessions, org, x) THEN 200 ELSE 500]]
  /\ UNCHANGED <<db, fly>>

-----------------------------------------------------------------------------
(* resumeSession, hibernateSession and deleteSession start with the same   *)
(* lookup: whatever its error, the answer is ErrSessionNotFound.           *)

\* A deletion goes on with what the row names, and last with the row.
Destruction(ids) ==
  IF {"app", "volume"} \subseteq ids THEN "destroyVolume" ELSE "deleteRow"

\* Mutant: no check of the Fly ids.
FirstCallUnchecked(op, ids) ==
  IF op # "deleteSession" THEN "power"
  ELSE IF "machine" \in ids THEN "destroyMachine" ELSE Destruction(ids)

\* Where the handler goes on when the row carries these ids; "done" stands for
\* the same 404.
FirstCall(op, ids) ==
  IF op # "deleteSession" THEN IF {"app", "machine"} \subseteq ids THEN "power" ELSE "done"
  ELSE IF {"app", "machine"} \subseteq ids THEN "destroyMachine" ELSE Destruction(ids)

LookUpSession(r, op) ==
  /\ Free(r)
  /\ op \in Ops
  /\ \E org \in Orgs, s \in Minted(SessionIds), x \in Queried(TRUE) :
       LET row == GetSession(org, s, x)
           pc  == IF row = NoRow THEN "done" ELSE FirstCall(op, row.ids)
           new == Accept(op, org, s, NoId, x)
       IN  req' = [req EXCEPT ![r] =
             IF pc = "done"
             THEN [new EXCEPT !.pc = "done", !.live = TRUE,
                              !.ans = MapError("ErrSessionNotFound")]
             ELSE [new EXCEPT !.pc = pc, !.ids = row.ids]]
  /\ UNCHANGED <<db, fly>>

ResumeSession(r) == LookUpSession(r, "resumeSession")

HibernateSession(r) == LookUpSession(r, "hibernateSession")

\* Mutant: the error of the Fly call is dropped.
PowerUnchecked(r) ==
  LET s    == req[r].sid
      call == IF req[r].op = "resumeSession" THEN "StartMachine" ELSE "StopMachine"
  IN  /\ req[r].pc = "power"
      /\ \E x \in Replies(req[r].live, FlyFaults[call], machines[s] # "none") :
           /\ machines' = IF x.applied
                          THEN [machines EXCEPT ![s] = IF call = "StartMachine"
                                                       THEN "started" ELSE "stopped"]
                          ELSE machines
           /\ GoTo(r, "setStatus", x)
      /\ UNCHANGED <<db, apps, volumes, boots, registry, astray>>

\* StartMachine or StopMachine.
Power(r) ==
  LET s    == req[r].sid
      call == IF req[r].op = "resumeSession" THEN "StartMachine" ELSE "StopMachine"
  IN  /\ req[r].pc = "power"
      /\ \E x \in Replies(req[r].live, FlyFaults[call], machines[s] # "none") :
           /\ machines' = IF x.applied
                          THEN [machines EXCEPT ![s] = IF call = "StartMachine"
                                                       THEN "started" ELSE "stopped"]
                          ELSE machines
           /\ IF x.failed THEN Answer(r, 500) ELSE GoTo(r, "setStatus", x)
      /\ UNCHANGED <<db, apps, volumes, boots, registry, astray>>

\* Mutant: hibernation records the state Fly gives the machine.
RecordStopped(r) ==
  /\ req[r].pc = "setStatus"
  /\ \E x \in Queried(req[r].live) :
       /\ sessions' = IF x.applied
                      THEN SetStatus(req[r].sid, IF req[r].op = "resumeSession"
                                                 THEN "running" ELSE "stopped")
                      ELSE sessions
       /\ GoTo(r, "reloadSession", x)
  /\ UNCHANGED <<templates, mintedBy, fly>>

\* The reply is ignored: a status that was not written goes unnoticed.
RecordPower(r) ==
  /\ req[r].pc = "setStatus"
  /\ \E x \in Queried(req[r].live) :
       /\ sessions' = IF x.applied
                      THEN SetStatus(req[r].sid, IF req[r].op = "resumeSession"
                                                 THEN "running" ELSE "suspended")
                      ELSE sessions
       /\ GoTo(r, "reloadSession", x)
  /\ UNCHANGED <<templates, mintedBy, fly>>

DeleteSession(r) == LookUpSession(r, "deleteSession")

\* Best effort: the reply is ignored, the volume is destroyed next whether or
\* not the machine is gone.  The call has no force: Fly may refuse it.
DestroyMachine(r) ==
  LET s == req[r].sid
  IN  /\ req[r].pc = "destroyMachine"
      /\ \E x \in Replies(req[r].live, FlyFaults["DestroyMachine"], machines[s] # "none") :
           /\ machines' = IF x.applied THEN [machines EXCEPT ![s] = "none"] ELSE machines
           /\ boots' = IF x.applied THEN [boots EXCEPT ![s] = NoImage] ELSE boots
           /\ StraysIf(s, machines'[s] # "none")
           /\ GoTo(r, Destruction(req[r].ids), x)
      /\ UNCHANGED <<db, apps, volumes, registry>>

\* Mutant: a volume that cannot be destroyed stops the deletion.
DestroyVolumeOrStop(r) ==
  /\ req[r].pc = "destroyVolume"
  /\ \E x \in DestroyVolumeReplies(r) :
       /\ volumes' = IF x.applied THEN volumes \ {req[r].sid} ELSE volumes
       /\ StraysIf(req[r].sid, req[r].sid \in volumes')
       /\ IF x.failed THEN Answer(r, 500) ELSE GoTo(r, "deleteRow", x)
  /\ UNCHANGED <<db, apps, machines, boots, registry>>

DestroyVolume(r) ==
  /\ req[r].pc = "destroyVolume"
  /\ \E x \in DestroyVolumeReplies(r) :
       /\ volumes' = IF x.applied THEN volumes \ {req[r].sid} ELSE volumes
       /\ StraysIf(req[r].sid, req[r].sid \in volumes')
       /\ GoTo(r, "deleteRow", x)
  /\ UNCHANGED <<db, apps, machines, boots, registry>>

\* sessions.Delete, scoped to the organisation; no row is db.ErrNotFound.
DeleteRow(r) ==
  LET s     == req[r].sid
      found == sessions[s] # NoRow /\ sessions[s].org = req[r].org
  IN  /\ req[r].pc = "deleteRow"
      /\ \E x \in Queried(req[r].live) :
           /\ sessions' = IF x.applied /\ found
                          THEN [sessions EXCEPT ![s] = NoRow] ELSE sessions
           /\ Answer(r, IF x.failed THEN 500
                        ELSE IF found THEN 204 ELSE MapError("ErrNotFound"))
      /\ UNCHANGED <<templates, mintedBy, fly>>

-----------------------------------------------------------------------------
\* What handler r can do when it serves a session route.
SessionStep(r) ==
  \/ InsertSession(r) \/ EnsureSessionApp(r) \/ CreateVolume(r) \/ CreateMachine(r)
  \/ UndoVolume(r) \/ FailSession(r) \/ Provisioned(r) \/ ReloadSession(r)
  \/ Power(r) \/ RecordPower(r)
  \/ DestroyMachine(r) \/ DestroyVolume(r) \/ DeleteRow(r)

SessionArrival(r) ==
  \/ CreateSession(r) \/ ReadSession(r) \/ ListSessions(r)
  \/ ResumeSession(r) \/ HibernateSession(r) \/ DeleteSession(r)
=============================================================================
