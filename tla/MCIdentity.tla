----------------------------- MODULE MCIdentity -----------------------------
(***************************************************************************)
(* Values for the constants of Identity in the TLC runs.                   *)
(***************************************************************************)
EXTENDS Identity, TLC

PersonalKeys == [s \in Subjects |-> <<"personal", s>>]
AnyDbFault == Faults

\* Handlers and UUIDs are interchangeable.
Interchangeable ==
  Permutations(Requests) \cup Permutations(UserIds) \cup Permutations(OrgIds)
=============================================================================
