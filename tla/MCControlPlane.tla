--------------------------- MODULE MCControlPlane ---------------------------
(***************************************************************************)
(* Values for the constants of ControlPlane in the TLC runs.               *)
(***************************************************************************)
EXTENDS ControlPlane, TLC

AllOps == SessionOps \cup TemplateOps

\* The routes that change something.
WriteOps == AllOps \ {"getSession", "listSessions", "getTemplate", "listTemplates"}

\* Deletions of sessions, but no cascade.
NoCascadeOps == WriteOps \ {"deleteTemplate"}

FlyReliable == [c \in FlyCalls |-> {}]
FlyAnyFault == [c \in FlyCalls |-> Faults]

\* Any call may be refused and any reply lost, but that a machine was started or
\* stopped is answered.
FlyFrank ==
  [c \in FlyCalls |-> IF c \in {"StartMachine", "StopMachine"} THEN {"refused"} ELSE Faults]

\* Any call may be refused.
FlyRefuses == [c \in FlyCalls |-> {"refused"}]

NoFaults == {}

SameRequests == Permutations(Requests)

\* No session is special either.
SameSessions == Permutations(Requests) \cup Permutations(SessionIds)

\* No tenant and no template is special either.
SameTenants == Permutations(Requests) \cup Permutations(Orgs) \cup Permutations(TemplateIds)

\* What the future depends on: a handler that is free starts anew, and no guard
\* reads astray.
Present ==
  <<db, apps, volumes, machines, boots, registry,
    [r \in Requests |-> IF Free(r) THEN Idle ELSE req[r]]>>
=============================================================================
