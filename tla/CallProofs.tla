----------------------------- MODULE CallProofs -----------------------------
(***************************************************************************)
(* Lemmas about replies, for the proofs of every module that makes calls.  *)
(***************************************************************************)
EXTENDS Calls, TLAPS

Reply == [applied : BOOLEAN, failed : BOOLEAN, live : BOOLEAN]

LEMMA ReplyKinds ==
  {Done, Refused, Lost, HungUp(TRUE), HungUp(FALSE)} \subseteq Reply
<1>1. Done \in Reply /\ Refused \in Reply /\ Lost \in Reply
  BY DEF Done, Refused, Lost, Reply
<1>2. HungUp(TRUE) \in Reply /\ HungUp(FALSE) \in Reply
  BY DEF HungUp, Reply
<1> QED
  BY <1>1, <1>2

\* Every reply says whether the call was applied, whether it failed, and
\* whether the client is still there.
LEMMA ReplyType ==
  ASSUME NEW live, NEW faults, NEW possible, NEW x \in Replies(live, faults, possible)
  PROVE  x \in Reply /\ x.live \in BOOLEAN
<1>1. x \in {Done, Refused, Lost, HungUp(TRUE), HungUp(FALSE)}
  BY DEF Replies
<1>2. x \in Reply
  BY <1>1, ReplyKinds
<1> QED
  BY <1>2 DEF Reply

\* The same for a call the server can always carry out.
LEMMA CertainReplyType ==
  ASSUME NEW live, NEW faults, NEW x \in Replies(live, faults, TRUE)
  PROVE  x \in Reply /\ x.live \in BOOLEAN
<1>1. x \in {Done, Refused, Lost, HungUp(TRUE), HungUp(FALSE)}
  BY DEF Replies
<1>2. x \in Reply
  BY <1>1, ReplyKinds
<1> QED
  BY <1>2 DEF Reply

\* A call that did not fail was carried out.
LEMMA CarriedOut ==
  ASSUME NEW live, NEW faults, NEW possible, NEW x \in Replies(live, faults, possible),
         ~x.failed
  PROVE  x.applied
<1>1. x \in {Done, Refused, Lost, HungUp(TRUE), HungUp(FALSE)}
  BY DEF Replies
<1>2. Refused.failed /\ Lost.failed /\ Done.applied
  BY DEF Refused, Lost, Done
<1>3. HungUp(TRUE).failed /\ HungUp(FALSE).failed
  BY DEF HungUp
<1> QED
  BY <1>1, <1>2, <1>3

\* The same for a call the server can always carry out.
LEMMA SuccessIsApplied ==
  ASSUME NEW live, NEW faults, NEW x \in Replies(live, faults, TRUE), ~x.failed
  PROVE  x.applied
<1>1. x \in {Done, Refused, Lost, HungUp(TRUE), HungUp(FALSE)}
  BY DEF Replies
<1>2. Refused.failed /\ Lost.failed /\ Done.applied
  BY DEF Refused, Lost, Done
<1>3. HungUp(TRUE).failed /\ HungUp(FALSE).failed
  BY DEF HungUp
<1> QED
  BY <1>1, <1>2, <1>3
=============================================================================
