------------------------------ MODULE Admission ------------------------------
(***************************************************************************)
(* What the identity middleware promises to the handlers behind it: each   *)
(* request acts for one subject in one organisation, of which that subject *)
(* is a member, and members stay members.                                  *)
(***************************************************************************)

CONSTANTS Requests, Pairs   \* pairs of a subject and an organisation

VARIABLES members, acting   \* acting[r]: the pair r acts for, or nothing

Init == members = {} /\ acting = [r \in Requests |-> {}]

\* A pair is admitted, for request r or for one that never gets to know.
Enter(r, p) ==
  /\ acting[r] = {}
  /\ members' = members \cup {p}
  /\ acting' = [acting EXCEPT ![r] = {p}]

Admit(p) ==
  /\ members' = members \cup {p}
  /\ UNCHANGED acting

\* Requests end, one by one or all at once with the process.
Leave(ended) ==
  /\ acting' = [r \in Requests |-> IF r \in ended THEN {} ELSE acting[r]]
  /\ UNCHANGED members

Next ==
  \/ \E r \in Requests, p \in Pairs : Enter(r, p)
  \/ \E p \in Pairs : Admit(p)
  \/ \E ended \in SUBSET Requests : Leave(ended)

Spec == Init /\ [][Next]_<<members, acting>>
=============================================================================
