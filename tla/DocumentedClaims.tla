-------------------------- MODULE DocumentedClaims --------------------------
(***************************************************************************)
(* What comments, docs and tests of the repository say of the control      *)
(* plane and the code does not do.  Each claim is refuted by a run; the    *)
(* README tells the story of each counterexample.  The first two are about *)
(* the orchestrator and refuted with scans of NULL repaired, NullAsEmpty:  *)
(* with the pgx of go.mod the third fails first, and nothing is launched   *)
(* (NothingIsLaunched in ResourceProofs).                                  *)
(***************************************************************************)
EXTENDS MCControlPlane

\* "deleteSession destroys the machine + volume and removes the session record"
\* (handlers_sessions.go): once a deletion was answered 204 and every handler
\* is through, its machine and its volume are gone from Fly.  (Scans of NULL
\* repaired.)
DeletionIsComplete ==
  (\A r \in Requests : Free(r)) =>
    \A r \in Requests :
      req[r].op = "deleteSession" /\ req[r].ans = 204 =>
        machines[req[r].sid] = "none" /\ req[r].sid \notin volumes

\* "failSession marks a session as error after a provisioning failure"
\* (orchestrator.go), if the row is there.  (Scans of NULL repaired.)
FailureMarksError ==
  [][\A r \in Requests :
       req[r].pc = "failSession" /\ req'[r].pc = "done" /\ Stored(req[r].sid)
       => sessions'[req[r].sid].status = "error"]_vars

\* "if rr.Code != http.StatusCreated { t.Fatalf(...)" (TestCreateTemplateAndList in
\* handlers_templates_test.go): a template that was stored is acknowledged with
\* 201, here asked of a driver that refuses to scan NULL into a string.
StoredTemplateIsAcknowledged ==
  [][\A r \in Requests, t \in TemplateIds :
       /\ req'[r] # req[r]
       /\ req'[r].op = "createTemplate"
       /\ req'[r].tid = t
       /\ templates[t] = NoRow /\ templates'[t] # NoRow
       => req'[r].ans = 201]_vars
=============================================================================
