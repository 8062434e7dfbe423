-------------------------------- MODULE Calls --------------------------------
(***************************************************************************)
(* How a call over the network, to the database or to Fly, comes back to   *)
(* a handler that makes it with its request's context.                     *)
(***************************************************************************)

CONSTANT Disconnects   \* clients may go away, which cancels the request's context

\* "refused": an error reply, nothing happened.  "lost": it happened, but the
\* reply did not come back (timeout, broken connection), or not to its end.
Faults == {"refused", "lost"}

Done    == [applied |-> TRUE,  failed |-> FALSE, live |-> TRUE]
Refused == [applied |-> FALSE, failed |-> TRUE,  live |-> TRUE]
Lost    == [applied |-> TRUE,  failed |-> TRUE,  live |-> TRUE]
\* The client hangs up during the call: the context is cancelled, the call
\* errs, and whether the server had already acted is open.
HungUp(acted) == [applied |-> acted, failed |-> TRUE, live |-> FALSE]

\* Replies to a call made with a context that is still live, which may go
\* wrong as faults say, and which the server can carry out or not.  With a
\* cancelled context nothing is sent any more: the call errs at once.
Replies(live, faults, possible) ==
  IF live
  THEN {x \in {Done, Refused, Lost, HungUp(TRUE), HungUp(FALSE)} :
          /\ x.applied => possible
          /\ x = Refused => ~possible \/ "refused" \in faults
          /\ x = Lost => "lost" \in faults
          /\ ~x.live => Disconnects}
  ELSE {HungUp(FALSE)}

\* Whether reply x tells the caller what Fly made.  An error does not; and
\* Client.do drops the error of reading the body and decodes only a body that
\* is not empty, so that a reply broken off behind its headers, by the network
\* or by the client, is a success with an empty result.  (After a client that
\* hung up there HungUp stands as well: its next call errs in either case.)
Told(x, faults) ==
  {told \in BOOLEAN : /\ told => ~x.failed
                      /\ ~told => x.failed \/ "lost" \in faults \/ Disconnects}
=============================================================================
