-------------------------- MODULE SessionLifecycle --------------------------
(***************************************************************************)
(* What the statuses of a workspace session promise to whoever reads them: *)
(* a session is pending once, then running or in error; error is final,    *)
(* running and suspended alternate, and what is gone stays gone.           *)
(***************************************************************************)

CONSTANT Ids

VARIABLE stage

Stages == {"none", "pending", "running", "suspended", "error", "gone"}

Init == stage = [i \in Ids |-> "none"]

Move(i, from, to) ==
  /\ stage[i] \in from
  /\ stage' = [stage EXCEPT ![i] = to]

Register(i)  == Move(i, {"none"}, "pending")
Provision(i) == Move(i, {"pending"}, "running")
Fail(i)      == Move(i, {"pending"}, "error")
Resume(i)    == Move(i, {"suspended"}, "running")
Hibernate(i) == Move(i, {"running"}, "suspended")

\* One deletion may take several sessions at once (a template's cascade), and
\* a restart may drop several that were never registered.
Remove(gone) ==
  /\ gone # {}
  /\ stage' = [i \in Ids |-> IF i \in gone THEN "gone" ELSE stage[i]]

Next ==
  \/ \E i \in Ids : Register(i) \/ Provision(i) \/ Fail(i) \/ Resume(i) \/ Hibernate(i)
  \/ \E gone \in SUBSET Ids : Remove(gone)

Spec == Init /\ [][Next]_stage
=============================================================================
