--------------------------- MODULE IdentityProofs ---------------------------
(***************************************************************************)
(* The identity middleware, proved for any number of requests, subjects    *)
(* and organisations and any faults, hang-ups and restarts.  The induction *)
(* needs, beside what the theorems state, that ids of rows are unique,     *)
(* that memberships name rows that exist, and what each handler knows      *)
(* after each of its upserts.                                              *)
(***************************************************************************)
EXTENDS Identity, CallProofs

\* UUIDs name one row each.
IdsUnique ==
  /\ \A s, t \in Subjects :
       users[s] # NoRow /\ users[t] # NoRow /\ users[s].id = users[t].id => s = t
  /\ \A k, l \in Keys : orgs[k] # NoRow /\ orgs[k] = orgs[l] => k = l

\* The foreign keys of organization_memberships.
MembershipsRefer ==
  \A u \in UserIds, o \in OrgIds : memberships[<<u, o>>] # NoRow =>
    /\ \E s \in Subjects : users[s] # NoRow /\ users[s].id = u
    /\ \E k \in Keys : orgs[k] = o

\* What handler q knows after each upsert.
Fits(q) ==
  /\ q.pc \notin {"idle", "done"} => q.token \in Token
  /\ q.pc \in {"ensureOrganization", "ensureMembership", "serving"} =>
       users[q.token.sub] # NoRow /\ users[q.token.sub].id = q.uid
  /\ q.pc \in {"ensureMembership", "serving"} =>
       q.oid # NoRow /\ orgs[KeyOf(q.token)] = q.oid
  /\ q.pc = "serving" => memberships[<<q.uid, q.oid>>] = RoleOf(q.token)

HandlersFit == \A r \in Requests : Fits(req[r])

IInv == TypeOK /\ IdsUnique /\ MembershipsRefer /\ HandlersFit /\ GrantsFitTokens

-----------------------------------------------------------------------------
LEMMA QueriedReplies ==
  ASSUME NEW live, NEW x \in Queried(live)
  PROVE  x.live \in BOOLEAN /\ (~x.failed => x.applied)
BY CertainReplyType, SuccessIsApplied DEF Queried

LEMMA KeyOfToken ==
  ASSUME NEW token \in Token
  PROVE  /\ token.sub \in Subjects
         /\ KeyOf(token) \in Keys
         /\ RoleOf(token) \in Roles
         /\ KeyOf(token) \in OrgClaims => RoleOf(token) = "member"
         /\ KeyOf(token) \notin OrgClaims =>
              RoleOf(token) = "admin" /\ KeyOf(token) = PersonalKey[token.sub]
BY KeySpacesApart, MarkersAreDistinct DEF Token, KeyOf, RoleOf, Keys, Roles

LEMMA IdleFits == Idle \in Request /\ Fits(Idle)
BY DEF Idle, Request, Pcs, Fits

\* A handler's record after one of its fields was set.
LEMMA PcSet ==
  ASSUME NEW q \in Request, NEW pc \in Pcs, NEW n, n = [q EXCEPT !.pc = pc]
  PROVE  /\ n \in Request /\ n.pc = pc
         /\ n.token = q.token /\ n.uid = q.uid /\ n.oid = q.oid
BY DEF Request

LEMMA UidSet ==
  ASSUME NEW q \in Request, NEW uid \in UserIds, NEW n, n = [q EXCEPT !.uid = uid]
  PROVE  /\ n \in Request /\ n.uid = uid
         /\ n.pc = q.pc /\ n.token = q.token /\ n.oid = q.oid
BY DEF Request

LEMMA OidSet ==
  ASSUME NEW q \in Request, NEW oid \in OrgIds, NEW n, n = [q EXCEPT !.oid = oid]
  PROVE  /\ n \in Request /\ n.oid = oid
         /\ n.pc = q.pc /\ n.token = q.token /\ n.uid = q.uid
BY DEF Request

LEMMA LiveSet ==
  ASSUME NEW q \in Request, NEW live \in BOOLEAN, NEW n, n = [q EXCEPT !.live = live]
  PROVE  /\ n \in Request
         /\ n.pc = q.pc /\ n.token = q.token /\ n.uid = q.uid /\ n.oid = q.oid
BY DEF Request

\* An answered request knows nothing any more.
LEMMA AnswerFits ==
  ASSUME NEW r \in Requests, NEW code \in {200, 500}, NEW listed \in SUBSET OrgIds,
         TypeOK, Answer(r, code, listed)
  PROVE  /\ req' \in [Requests -> Request]
         /\ req'[r].pc = "done"
         /\ \A q \in Requests \ {r} : req'[q] = req[q]
<1> DEFINE q == [Idle EXCEPT !.pc = "done", !.ans = code, !.listed = listed]
<1>1. q \in Request /\ q.pc = "done"
  BY ZenonT(60) DEF Idle, Request, Pcs
<1>2. req' = [req EXCEPT ![r] = q]
  BY DEF Answer
<1> HIDE DEF q
<1> QED
  BY <1>1, <1>2 DEF TypeOK

\* A step that leaves the rows alone preserves the invariant when the
\* handlers it moves know what they should.
LEMMA RowsUnchanged ==
  ASSUME IInv, UNCHANGED <<users, orgs, memberships>>,
         req' \in [Requests -> Request],
         \A q \in Requests : req'[q] = req[q] \/ Fits(req[q])'
  PROVE  IInv'
<1>1. TypeOK' /\ IdsUnique' /\ MembershipsRefer' /\ GrantsFitTokens'
  BY DEF IInv, TypeOK, IdsUnique, MembershipsRefer, GrantsFitTokens
<1>2. HandlersFit'
  BY DEF IInv, HandlersFit, Fits
<1> QED
  BY <1>1, <1>2 DEF IInv

LEMMA InitInv == Init => IInv
<1> SUFFICES ASSUME Init PROVE IInv
  OBVIOUS
<1>1. TypeOK
  BY IdleFits DEF Init, TypeOK
<1>2. IdsUnique /\ MembershipsRefer /\ GrantsFitTokens
  BY DEF Init, IdsUnique, MembershipsRefer, GrantsFitTokens
<1>3. HandlersFit
  BY IdleFits DEF Init, HandlersFit
<1> QED
  BY <1>1, <1>2, <1>3 DEF IInv

LEMMA ArriveInv ==
  ASSUME IInv, NEW r \in Requests, Arrive(r)
  PROVE  IInv'
<1>1. PICK token \in Token :
        req' = [req EXCEPT ![r] = [Idle EXCEPT !.pc = "ensureUser", !.token = token]]
  BY DEF Arrive
<1> DEFINE q == [Idle EXCEPT !.pc = "ensureUser", !.token = token]
<1>2. q \in Request /\ q.pc = "ensureUser" /\ q.token = token
  BY DEF Idle, Request, Pcs
<1>3. req' \in [Requests -> Request] /\ req'[r] = q
      /\ \A p \in Requests \ {r} : req'[p] = req[p]
  BY <1>1, <1>2 DEF IInv, TypeOK
<1>4. Fits(req[r])'
  BY <1>2, <1>3 DEF Fits
<1> QED
  BY <1>3, <1>4, RowsUnchanged DEF Arrive

LEMMA MeInv ==
  ASSUME IInv, NEW r \in Requests, Me(r)
  PROVE  IInv'
<1>1. PICK code \in {200, 500}, listed \in SUBSET OrgIds : Answer(r, code, listed)
  <2>1. {} \in SUBSET OrgIds /\ MembershipsOf(req[r].uid) \in SUBSET OrgIds
    BY DEF MembershipsOf
  <2>2. Answer(r, 500, {}) \/ Answer(r, 200, MembershipsOf(req[r].uid))
    BY DEF Me
  <2> QED
    BY <2>1, <2>2
<1>2. /\ req' \in [Requests -> Request]
      /\ req'[r].pc = "done"
      /\ \A p \in Requests \ {r} : req'[p] = req[p]
  BY <1>1, AnswerFits DEF IInv
<1>3. Fits(req[r])'
  BY <1>2 DEF Fits
<1> QED
  BY <1>2, <1>3, RowsUnchanged DEF Me

LEMMA CrashInv ==
  ASSUME IInv, Crash
  PROVE  IInv'
<1>1. req' \in [Requests -> Request] /\ \A p \in Requests : req'[p] = Idle
  BY IdleFits DEF Crash
<1>2. \A p \in Requests : Fits(req[p])'
  BY <1>1 DEF Fits, Idle
<1> QED
  BY <1>1, <1>2, RowsUnchanged DEF Crash

-----------------------------------------------------------------------------
(* The upserts.                                                            *)

\* What EnsureUser does: the row of its subject is new or keeps its id, or the
\* table stays as it is; the handler fails or has learnt the id.
LEMMA EnsureUserStep ==
  ASSUME IInv, NEW r \in Requests, EnsureUser(r)
  PROVE  LET token == req[r].token
         IN  \E id \in UserIdFor(token.sub) :
               /\ \/ users' = users
                  \/ users' = [users EXCEPT ![token.sub] = Upserted(token, id)]
               /\ req' \in [Requests -> Request]
               /\ \A q \in Requests \ {r} : req'[q] = req[q]
               /\ \/ req'[r].pc = "done"
                  \/ /\ users' = [users EXCEPT ![token.sub] = Upserted(token, id)]
                     /\ req'[r].pc = "ensureOrganization"
                     /\ req'[r].token = token
                     /\ req'[r].uid = id
                     /\ Scans(Upserted(token, id))
<1> DEFINE token == req[r].token
<1>1. PICK x \in Queried(req[r].live), id \in UserIdFor(token.sub) :
        LET row == Upserted(token, id)
        IN  /\ users' = IF x.applied THEN [users EXCEPT ![token.sub] = row] ELSE users
            /\ IF ~x.failed /\ Scans(row)
               THEN Proceed(r, [req[r] EXCEPT !.pc = "ensureOrganization", !.uid = id], x)
               ELSE Answer(r, 500, {})
  BY DEF EnsureUser
<1>2. req[r] \in Request /\ req[r].pc = "ensureUser" /\ token \in Token
  BY DEF EnsureUser, IInv, TypeOK, HandlersFit, Fits
<1>3. x.live \in BOOLEAN /\ (~x.failed => x.applied)
  BY QueriedReplies
<1>4. id \in UserIds
  <2>1. users[token.sub] # NoRow => users[token.sub] \in UserRow
    BY <1>2, KeyOfToken DEF IInv, TypeOK
  <2> QED
    BY <2>1 DEF UserIdFor, UserRow
<1>5. CASE Answer(r, 500, {})
  <2>1. req' \in [Requests -> Request] /\ req'[r].pc = "done"
        /\ \A q \in Requests \ {r} : req'[q] = req[q]
    BY <1>5, AnswerFits DEF IInv
  <2> QED
    BY <1>1, <2>1
<1>6. CASE /\ ~x.failed /\ Scans(Upserted(token, id))
           /\ Proceed(r, [req[r] EXCEPT !.pc = "ensureOrganization", !.uid = id], x)
  <2> DEFINE q == [[req[r] EXCEPT !.pc = "ensureOrganization", !.uid = id]
                     EXCEPT !.live = x.live]
  <2>1. q \in Request /\ q.pc = "ensureOrganization" /\ q.uid = id /\ q.token = token
    <3> DEFINE p == [req[r] EXCEPT !.pc = "ensureOrganization"]
               n == [p EXCEPT !.uid = id]
    <3>1. /\ p \in Request /\ p.pc = "ensureOrganization" /\ p.token = token
      BY <1>2, PcSet DEF Pcs
    <3>2. q = [n EXCEPT !.live = x.live]
      OBVIOUS
    <3> HIDE DEF p
    <3>3. n \in Request /\ n.pc = p.pc /\ n.uid = id /\ n.token = p.token
      BY <1>4, <3>1, UidSet
    <3> HIDE DEF n, q
    <3> QED
      BY <1>3, <3>1, <3>2, <3>3, LiveSet
  <2>2. req' = [req EXCEPT ![r] = q]
    BY <1>6 DEF Proceed
  <2> HIDE DEF q
  <2>3. req' \in [Requests -> Request] /\ req'[r] = q
        /\ \A p \in Requests \ {r} : req'[p] = req[p]
    BY <2>1, <2>2 DEF IInv, TypeOK
  <2> QED
    BY <1>1, <1>3, <1>6, <2>1, <2>3
<1> QED
  BY <1>1, <1>5, <1>6

LEMMA EnsureUserInv ==
  ASSUME IInv, NEW r \in Requests, EnsureUser(r)
  PROVE  IInv'
<1> DEFINE token == req[r].token
           s == token.sub
<1>1. PICK id \in UserIdFor(s) :
        /\ \/ users' = users
           \/ users' = [users EXCEPT ![s] = Upserted(token, id)]
        /\ req' \in [Requests -> Request]
        /\ \A q \in Requests \ {r} : req'[q] = req[q]
        /\ \/ req'[r].pc = "done"
           \/ /\ users' = [users EXCEPT ![s] = Upserted(token, id)]
              /\ req'[r].pc = "ensureOrganization"
              /\ req'[r].token = token
              /\ req'[r].uid = id
  BY EnsureUserStep
<1>2. UNCHANGED <<orgs, memberships>>
  BY DEF EnsureUser
<1>3. token \in Token /\ s \in Subjects
  <2>1. token \in Token
    BY DEF EnsureUser, IInv, HandlersFit, Fits
  <2> QED
    BY <2>1, KeyOfToken
<1>4. CASE users' = users
  <2>1. Fits(req[r])'
    <3>1. CASE req'[r].pc = "done"
      BY <3>1 DEF Fits
    <3>2. CASE /\ users' = [users EXCEPT ![s] = Upserted(token, id)]
               /\ req'[r].pc = "ensureOrganization"
               /\ req'[r].token = token
               /\ req'[r].uid = id
      <4>1. users'[s] = Upserted(token, id)
        BY <1>3, <3>2 DEF IInv, TypeOK
      <4>2. users'[s] \in UserRow \cup {NoRow} /\ users[s] = users'[s]
        BY <1>3, <1>4 DEF IInv, TypeOK
      <4>3. Upserted(token, id) \in UserRow
        <5>1. users[s] # NoRow => users[s] \in UserRow
          BY <1>3 DEF IInv, TypeOK
        <5>2. id \in UserIds
          BY <1>1, <5>1 DEF UserIdFor, UserRow
        <5> QED
          BY <1>3, <5>1, <5>2 DEF Upserted, UserRow, Token
      <4> QED
        BY <1>3, <3>2, <4>1, <4>3, MarkersAreDistinct DEF Fits, Upserted
    <3> QED
      BY <1>1, <3>1, <3>2
  <2> QED
    BY <1>1, <1>2, <1>4, <2>1, RowsUnchanged
<1>5. CASE users' = [users EXCEPT ![s] = Upserted(token, id)]
  <2>1. users[s] # NoRow => users[s] \in UserRow
    BY <1>3 DEF IInv, TypeOK
  <2>2. id \in UserIds
    BY <1>1, <2>1 DEF UserIdFor, UserRow
  <2>3. Upserted(token, id) \in UserRow /\ Upserted(token, id) # NoRow
        /\ Upserted(token, id).id = id
    BY <1>3, <2>1, <2>2, MarkersAreDistinct DEF Upserted, UserRow, Token
  <2>4. users' \in [Subjects -> UserRow \cup {NoRow}]
        /\ users'[s] # NoRow /\ users'[s].id = id
        /\ \A t \in Subjects \ {s} : users'[t] = users[t]
    BY <1>3, <1>5, <2>3 DEF IInv, TypeOK
  <2>5. /\ users[s] # NoRow => id = users[s].id
        /\ users[s] = NoRow => \A t \in Subjects : users[t] # NoRow => users[t].id # id
    BY <1>1 DEF UserIdFor
  <2>6. TypeOK'
    BY <1>1, <1>2, <2>4 DEF IInv, TypeOK
  <2>7. IdsUnique'
    BY <1>2, <1>3, <2>4, <2>5 DEF IInv, IdsUnique
  <2>8. MembershipsRefer'
    BY <1>2, <1>3, <2>4, <2>5 DEF IInv, MembershipsRefer
  <2>9. GrantsFitTokens'
    <3> SUFFICES ASSUME NEW t \in Subjects, NEW k \in Keys,
                        users'[t] # NoRow, orgs[k] # NoRow
                 PROVE  memberships[<<users'[t].id, orgs[k]>>] \in
                          {NoRow} \cup (IF k \in OrgClaims THEN {"member"}
                                        ELSE IF k = PersonalKey[t] THEN {"admin"} ELSE {})
      BY <1>2 DEF GrantsFitTokens
    <3>1. CASE users[t] # NoRow
      <4>1. users'[t].id = users[t].id
        BY <2>4, <2>5, <3>1
      <4> QED
        BY <3>1, <4>1 DEF IInv, GrantsFitTokens
    <3>2. CASE users[t] = NoRow
      <4>1. t = s /\ users'[t].id = id
        BY <2>4, <3>2
      <4>2. orgs[k] \in OrgIds
        BY DEF IInv, TypeOK
      <4>3. memberships[<<id, orgs[k]>>] = NoRow
        BY <2>2, <2>5, <3>2, <4>1, <4>2 DEF IInv, MembershipsRefer
      <4> QED
        BY <4>1, <4>3
    <3> QED
      BY <3>1, <3>2
  <2>10. HandlersFit'
    <3> SUFFICES ASSUME NEW p \in Requests PROVE Fits(req[p])'
      BY DEF HandlersFit
    <3>1. CASE p = r
      BY <1>1, <1>3, <2>4, <3>1 DEF Fits
    <3>2. CASE p # r
      <4>1. req'[p] = req[p] /\ Fits(req[p])
        BY <1>1, <3>2 DEF IInv, HandlersFit
      <4>2. \A t \in Subjects : users[t] # NoRow =>
              users'[t] # NoRow /\ users'[t].id = users[t].id
        BY <2>4, <2>5
      <4>3. req[p].pc \notin {"idle", "done"} => req[p].token.sub \in Subjects
        BY <4>1, KeyOfToken DEF Fits
      <4> QED
        BY <1>2, <4>1, <4>2, <4>3 DEF Fits
    <3> QED
      BY <3>1, <3>2
  <2> QED
    BY <2>6, <2>7, <2>8, <2>9, <2>10 DEF IInv
<1> QED
  BY <1>1, <1>4, <1>5

LEMMA EnsureOrganizationStep ==
  ASSUME IInv, NEW r \in Requests, EnsureOrganization(r)
  PROVE  LET token == req[r].token
             key == KeyOf(token)
         IN  \E id \in OrgIdFor(key) :
               /\ \/ orgs' = orgs
                  \/ orgs' = [orgs EXCEPT ![key] = id]
               /\ req' \in [Requests -> Request]
               /\ \A q \in Requests \ {r} : req'[q] = req[q]
               /\ \/ req'[r].pc = "done"
                  \/ /\ orgs' = [orgs EXCEPT ![key] = id]
                     /\ req'[r].pc = "ensureMembership"
                     /\ req'[r].token = token
                     /\ req'[r].uid = req[r].uid
                     /\ req'[r].oid = id
<1> DEFINE token == req[r].token
           key == KeyOf(token)
<1>1. PICK x \in Queried(req[r].live), id \in OrgIdFor(key) :
        /\ orgs' = IF x.applied THEN [orgs EXCEPT ![key] = id] ELSE orgs
        /\ IF x.failed
           THEN Answer(r, 500, {})
           ELSE Proceed(r, [req[r] EXCEPT !.pc = "ensureMembership", !.oid = id], x)
  BY DEF EnsureOrganization
<1>2. req[r] \in Request /\ token \in Token
  BY DEF EnsureOrganization, IInv, TypeOK, HandlersFit, Fits
<1>3. x.live \in BOOLEAN /\ (~x.failed => x.applied)
  BY QueriedReplies
<1>4. id \in OrgIds
  BY <1>2, KeyOfToken DEF IInv, TypeOK, OrgIdFor
<1>5. CASE x.failed
  <2>1. req' \in [Requests -> Request] /\ req'[r].pc = "done"
        /\ \A q \in Requests \ {r} : req'[q] = req[q]
    BY <1>1, <1>5, AnswerFits DEF IInv
  <2> QED
    BY <1>1, <2>1
<1>6. CASE ~x.failed
  <2> DEFINE q == [[req[r] EXCEPT !.pc = "ensureMembership", !.oid = id]
                     EXCEPT !.live = x.live]
  <2>1. /\ q \in Request /\ q.pc = "ensureMembership" /\ q.oid = id
        /\ q.token = token /\ q.uid = req[r].uid
    <3> DEFINE p == [req[r] EXCEPT !.pc = "ensureMembership"]
               n == [p EXCEPT !.oid = id]
    <3>1. /\ p \in Request /\ p.pc = "ensureMembership"
          /\ p.token = token /\ p.uid = req[r].uid
      BY <1>2, PcSet DEF Pcs
    <3>2. q = [n EXCEPT !.live = x.live]
      OBVIOUS
    <3> HIDE DEF p
    <3>3. n \in Request /\ n.pc = p.pc /\ n.oid = id /\ n.token = p.token /\ n.uid = p.uid
      BY <1>4, <3>1, OidSet
    <3> HIDE DEF n, q
    <3> QED
      BY <1>3, <3>1, <3>2, <3>3, LiveSet
  <2>2. req' = [req EXCEPT ![r] = q]
    BY <1>1, <1>6 DEF Proceed
  <2> HIDE DEF q
  <2>3. req' \in [Requests -> Request] /\ req'[r] = q
        /\ \A p \in Requests \ {r} : req'[p] = req[p]
    BY <2>1, <2>2 DEF IInv, TypeOK
  <2> QED
    BY <1>1, <1>3, <1>6, <2>1, <2>3
<1> QED
  BY <1>5, <1>6

LEMMA EnsureOrganizationInv ==
  ASSUME IInv, NEW r \in Requests, EnsureOrganization(r)
  PROVE  IInv'
<1> DEFINE token == req[r].token
           key == KeyOf(token)
<1>1. PICK id \in OrgIdFor(key) :
        /\ \/ orgs' = orgs
           \/ orgs' = [orgs EXCEPT ![key] = id]
        /\ req' \in [Requests -> Request]
        /\ \A q \in Requests \ {r} : req'[q] = req[q]
        /\ \/ req'[r].pc = "done"
           \/ /\ orgs' = [orgs EXCEPT ![key] = id]
              /\ req'[r].pc = "ensureMembership"
              /\ req'[r].token = token
              /\ req'[r].uid = req[r].uid
              /\ req'[r].oid = id
  BY EnsureOrganizationStep
<1>2. UNCHANGED <<users, memberships>>
  BY DEF EnsureOrganization
<1>3. /\ token \in Token /\ token.sub \in Subjects /\ key \in Keys
      /\ users[token.sub] # NoRow /\ users[token.sub].id = req[r].uid
  <2>1. /\ token \in Token
        /\ users[token.sub] # NoRow /\ users[token.sub].id = req[r].uid
    BY DEF EnsureOrganization, IInv, HandlersFit, Fits
  <2> QED
    BY <2>1, KeyOfToken
<1>4. id \in OrgIds /\ id # NoRow
  BY <1>1, <1>3, MarkersAreDistinct DEF IInv, TypeOK, OrgIdFor
<1>5. /\ orgs[key] # NoRow => id = orgs[key]
      /\ orgs[key] = NoRow => \A l \in Keys : orgs[l] # id
  BY <1>1 DEF OrgIdFor
<1>6. CASE orgs' = orgs /\ req'[r].pc = "done"
  <2>1. Fits(req[r])'
    BY <1>6 DEF Fits
  <2> QED
    BY <1>1, <1>2, <1>6, <2>1, RowsUnchanged
<1>7. CASE orgs' = [orgs EXCEPT ![key] = id]
  <2>1. /\ orgs' \in [Keys -> OrgIds \cup {NoRow}]
        /\ orgs'[key] = id
        /\ \A k \in Keys \ {key} : orgs'[k] = orgs[k]
    BY <1>3, <1>4, <1>7 DEF IInv, TypeOK
  <2>2. TypeOK'
    BY <1>1, <1>2, <2>1 DEF IInv, TypeOK
  <2>3. IdsUnique'
    BY <1>2, <1>3, <1>5, <2>1 DEF IInv, IdsUnique
  <2>4. MembershipsRefer'
    BY <1>2, <1>3, <1>4, <1>5, <2>1, MarkersAreDistinct DEF IInv, MembershipsRefer
  <2>5. GrantsFitTokens'
    <3> SUFFICES ASSUME NEW t \in Subjects, NEW k \in Keys,
                        users[t] # NoRow, orgs'[k] # NoRow
                 PROVE  memberships[<<users[t].id, orgs'[k]>>] \in
                          {NoRow} \cup (IF k \in OrgClaims THEN {"member"}
                                        ELSE IF k = PersonalKey[t] THEN {"admin"} ELSE {})
      BY <1>2 DEF GrantsFitTokens
    <3>1. CASE orgs[k] # NoRow
      <4>1. orgs'[k] = orgs[k]
        BY <1>5, <2>1, <3>1
      <4> QED
        BY <3>1, <4>1 DEF IInv, GrantsFitTokens
    <3>2. CASE orgs[k] = NoRow
      <4>1. k = key /\ orgs'[k] = id
        BY <2>1, <3>2
      <4>2. users[t].id \in UserIds
        BY DEF IInv, TypeOK, UserRow
      <4>3. memberships[<<users[t].id, id>>] = NoRow
        BY <1>4, <1>5, <3>2, <4>1, <4>2 DEF IInv, MembershipsRefer
      <4> QED
        BY <4>1, <4>3
    <3> QED
      BY <3>1, <3>2
  <2>6. HandlersFit'
    <3> SUFFICES ASSUME NEW p \in Requests PROVE Fits(req[p])'
      BY DEF HandlersFit
    <3>1. CASE p = r
      BY <1>1, <1>2, <1>3, <1>4, <2>1, <3>1 DEF Fits
    <3>2. CASE p # r
      <4>1. req'[p] = req[p] /\ Fits(req[p])
        BY <1>1, <3>2 DEF IInv, HandlersFit
      <4>2. \A k \in Keys : orgs[k] # NoRow => orgs'[k] = orgs[k]
        BY <1>5, <2>1
      <4>3. req[p].pc \notin {"idle", "done"} => KeyOf(req[p].token) \in Keys
        BY <4>1, KeyOfToken DEF Fits
      <4> QED
        BY <1>2, <4>1, <4>2, <4>3 DEF Fits
    <3> QED
      BY <3>1, <3>2
  <2> QED
    BY <2>2, <2>3, <2>4, <2>5, <2>6 DEF IInv
<1> QED
  BY <1>1, <1>6, <1>7

LEMMA EnsureMembershipStep ==
  ASSUME IInv, NEW r \in Requests, EnsureMembership(r)
  PROVE  LET m == <<req[r].uid, req[r].oid>>
             role == RoleOf(req[r].token)
         IN  /\ \/ memberships' = memberships
                \/ memberships' = [memberships EXCEPT ![m] = role]
             /\ req' \in [Requests -> Request]
             /\ \A q \in Requests \ {r} : req'[q] = req[q]
             /\ \/ req'[r].pc = "done"
                \/ /\ memberships' = [memberships EXCEPT ![m] = role]
                   /\ req'[r].pc = "serving"
                   /\ req'[r].token = req[r].token
                   /\ req'[r].uid = req[r].uid
                   /\ req'[r].oid = req[r].oid
<1>1. PICK x \in Queried(req[r].live) :
        /\ memberships' =
             IF x.applied
             THEN [memberships EXCEPT ![<<req[r].uid, req[r].oid>>] = RoleOf(req[r].token)]
             ELSE memberships
        /\ IF x.failed
           THEN Answer(r, 500, {})
           ELSE Proceed(r, [req[r] EXCEPT !.pc = "serving"], x)
  BY DEF EnsureMembership
<1>2. req[r] \in Request
  BY DEF IInv, TypeOK
<1>3. x.live \in BOOLEAN /\ (~x.failed => x.applied)
  BY QueriedReplies
<1>4. CASE x.failed
  <2>1. req' \in [Requests -> Request] /\ req'[r].pc = "done"
        /\ \A q \in Requests \ {r} : req'[q] = req[q]
    BY <1>1, <1>4, AnswerFits DEF IInv
  <2> QED
    BY <1>1, <2>1
<1>5. CASE ~x.failed
  <2> DEFINE q == [[req[r] EXCEPT !.pc = "serving"] EXCEPT !.live = x.live]
  <2>1. /\ q \in Request /\ q.pc = "serving" /\ q.oid = req[r].oid
        /\ q.token = req[r].token /\ q.uid = req[r].uid
    <3> DEFINE p == [req[r] EXCEPT !.pc = "serving"]
    <3>1. /\ p \in Request /\ p.pc = "serving" /\ p.oid = req[r].oid
          /\ p.token = req[r].token /\ p.uid = req[r].uid
      BY <1>2, PcSet DEF Pcs
    <3>2. q = [p EXCEPT !.live = x.live]
      OBVIOUS
    <3> HIDE DEF p, q
    <3> QED
      BY <1>3, <3>1, <3>2, LiveSet
  <2>2. req' = [req EXCEPT ![r] = q]
    BY <1>1, <1>5 DEF Proceed
  <2> HIDE DEF q
  <2>3. req' \in [Requests -> Request] /\ req'[r] = q
        /\ \A p \in Requests \ {r} : req'[p] = req[p]
    BY <2>1, <2>2 DEF IInv, TypeOK
  <2> QED
    BY <1>1, <1>3, <1>5, <2>1, <2>3
<1> QED
  BY <1>4, <1>5

\* What the handler at its last upsert knows.
LEMMA AboutToJoin ==
  ASSUME IInv, NEW r \in Requests, EnsureMembership(r)
  PROVE  LET token == req[r].token
         IN  /\ token \in Token /\ token.sub \in Subjects /\ KeyOf(token) \in Keys
             /\ users[token.sub] # NoRow /\ users[token.sub].id = req[r].uid
             /\ orgs[KeyOf(token)] # NoRow /\ orgs[KeyOf(token)] = req[r].oid
             /\ req[r].uid \in UserIds /\ req[r].oid \in OrgIds
<1>1. LET token == req[r].token
      IN  /\ token \in Token
          /\ users[token.sub] # NoRow /\ users[token.sub].id = req[r].uid
          /\ req[r].oid # NoRow /\ orgs[KeyOf(token)] = req[r].oid
  BY DEF EnsureMembership, IInv, HandlersFit, Fits
<1>2. req[r].token.sub \in Subjects /\ KeyOf(req[r].token) \in Keys
  BY <1>1, KeyOfToken
<1>3. users[req[r].token.sub] \in UserRow /\ orgs[KeyOf(req[r].token)] \in OrgIds
  BY <1>1, <1>2 DEF IInv, TypeOK
<1> QED
  BY <1>1, <1>2, <1>3 DEF UserRow

LEMMA EnsureMembershipInv ==
  ASSUME IInv, NEW r \in Requests, EnsureMembership(r)
  PROVE  IInv'
<1> DEFINE token == req[r].token
           m == <<req[r].uid, req[r].oid>>
           role == RoleOf(token)
<1>1. /\ \/ memberships' = memberships
         \/ memberships' = [memberships EXCEPT ![m] = role]
      /\ req' \in [Requests -> Request]
      /\ \A q \in Requests \ {r} : req'[q] = req[q]
      /\ \/ req'[r].pc = "done"
         \/ /\ memberships' = [memberships EXCEPT ![m] = role]
            /\ req'[r].pc = "serving"
            /\ req'[r].token = token
            /\ req'[r].uid = req[r].uid
            /\ req'[r].oid = req[r].oid
  BY EnsureMembershipStep
<1>2. UNCHANGED <<users, orgs>>
  BY DEF EnsureMembership
<1>3. /\ token \in Token /\ token.sub \in Subjects /\ KeyOf(token) \in Keys
      /\ users[token.sub] # NoRow /\ users[token.sub].id = req[r].uid
      /\ orgs[KeyOf(token)] # NoRow /\ orgs[KeyOf(token)] = req[r].oid
      /\ req[r].uid \in UserIds /\ req[r].oid \in OrgIds
  BY AboutToJoin
<1>4. CASE memberships' = memberships /\ req'[r].pc = "done"
  <2>1. Fits(req[r])'
    BY <1>4 DEF Fits
  <2> QED
    BY <1>1, <1>2, <1>4, <2>1, RowsUnchanged
<1>5. CASE memberships' = [memberships EXCEPT ![m] = role]
  <2>1. /\ role \in Roles /\ role # NoRow
        /\ m \in UserIds \X OrgIds
    BY <1>3, KeyOfToken, MarkersAreDistinct
  <2>2. /\ memberships' \in [UserIds \X OrgIds -> Roles \cup {NoRow}]
        /\ memberships'[m] = role
        /\ \A n \in (UserIds \X OrgIds) \ {m} : memberships'[n] = memberships[n]
    BY <1>5, <2>1 DEF IInv, TypeOK
  <2> HIDE DEF role, m
  <2>3. TypeOK'
    BY <1>1, <1>2, <2>2 DEF IInv, TypeOK
  <2>4. IdsUnique'
    BY <1>2 DEF IInv, IdsUnique
  <2>5. MembershipsRefer'
    <3> SUFFICES ASSUME NEW u \in UserIds, NEW o \in OrgIds, memberships'[<<u, o>>] # NoRow
                 PROVE  /\ \E s \in Subjects : users[s] # NoRow /\ users[s].id = u
                        /\ \E k \in Keys : orgs[k] = o
      BY <1>2 DEF MembershipsRefer
    <3>1. CASE <<u, o>> = m
      BY <1>3, <3>1 DEF m
    <3>2. CASE <<u, o>> # m
      BY <2>2, <3>2 DEF IInv, MembershipsRefer
    <3> QED
      BY <3>1, <3>2
  <2>6. GrantsFitTokens'
    <3> SUFFICES ASSUME NEW t \in Subjects, NEW k \in Keys,
                        users[t] # NoRow, orgs[k] # NoRow
                 PROVE  memberships'[<<users[t].id, orgs[k]>>] \in
                          {NoRow} \cup (IF k \in OrgClaims THEN {"member"}
                                        ELSE IF k = PersonalKey[t] THEN {"admin"} ELSE {})
      BY <1>2 DEF GrantsFitTokens
    <3>1. users[t].id \in UserIds /\ orgs[k] \in OrgIds
      BY DEF IInv, TypeOK, UserRow
    <3>2. CASE <<users[t].id, orgs[k]>> = m
      <4>1. t = token.sub /\ k = KeyOf(token)
        BY <1>3, <3>2 DEF IInv, IdsUnique, m
      <4>2. memberships'[<<users[t].id, orgs[k]>>] = RoleOf(token)
        BY <2>2, <3>2 DEF role
      <4> QED
        BY <1>3, <4>1, <4>2, KeyOfToken
    <3>3. CASE <<users[t].id, orgs[k]>> # m
      BY <2>2, <3>1, <3>3 DEF IInv, GrantsFitTokens
    <3> QED
      BY <3>2, <3>3
  <2>7. HandlersFit'
    <3> SUFFICES ASSUME NEW p \in Requests PROVE Fits(req[p])'
      BY DEF HandlersFit
    <3>1. CASE p = r
      BY <1>1, <1>2, <1>3, <2>2, <3>1, MarkersAreDistinct DEF Fits, m, role
    <3>2. CASE p # r
      <4>1. req'[p] = req[p] /\ Fits(req[p])
        BY <1>1, <3>2 DEF IInv, HandlersFit
      <4>2. CASE req[p].pc = "serving"
        <5>1. /\ req[p].token \in Token
              /\ users[req[p].token.sub] # NoRow /\ users[req[p].token.sub].id = req[p].uid
              /\ req[p].oid # NoRow /\ orgs[KeyOf(req[p].token)] = req[p].oid
              /\ memberships[<<req[p].uid, req[p].oid>>] = RoleOf(req[p].token)
          BY <4>1, <4>2 DEF Fits
        <5>2. req[p].token.sub \in Subjects /\ KeyOf(req[p].token) \in Keys
          BY <5>1, KeyOfToken
        <5>3. req[p].uid \in UserIds /\ req[p].oid \in OrgIds
          BY <5>1, <5>2 DEF IInv, TypeOK, UserRow
        <5>4. memberships'[<<req[p].uid, req[p].oid>>] = RoleOf(req[p].token)
          <6>1. CASE <<req[p].uid, req[p].oid>> = m
            <7>1. KeyOf(req[p].token) = KeyOf(token)
              BY <1>3, <5>1, <5>2, <6>1 DEF IInv, IdsUnique, m
            <7>2. RoleOf(req[p].token) = RoleOf(token)
              BY <1>3, <5>1, <7>1, KeyOfToken
            <7> QED
              BY <2>2, <6>1, <7>2 DEF role
          <6>2. CASE <<req[p].uid, req[p].oid>> # m
            BY <2>2, <5>1, <5>3, <6>2
          <6> QED
            BY <6>1, <6>2
        <5> QED
          BY <1>2, <4>1, <5>1, <5>4 DEF Fits
      <4>3. CASE req[p].pc # "serving"
        BY <1>2, <4>1, <4>3 DEF Fits
      <4> QED
        BY <4>2, <4>3
    <3> QED
      BY <3>1, <3>2
  <2> QED
    BY <2>3, <2>4, <2>5, <2>6, <2>7 DEF IInv
<1> QED
  BY <1>1, <1>4, <1>5

-----------------------------------------------------------------------------
LEMMA NextInv == IInv /\ [Next]_vars => IInv'
<1> SUFFICES ASSUME IInv, [Next]_vars PROVE IInv'
  OBVIOUS
<1>1. CASE \E r \in Requests : Arrive(r) \/ Advance(r)
  BY <1>1, ArriveInv, EnsureUserInv, EnsureOrganizationInv, EnsureMembershipInv, MeInv
     DEF Advance
<1>2. CASE Crash
  BY <1>2, CrashInv
<1>3. CASE UNCHANGED vars
  <2>1. req' \in [Requests -> Request] /\ \A q \in Requests : req'[q] = req[q]
    BY <1>3 DEF vars, IInv, TypeOK
  <2> QED
    BY <1>3, <2>1, RowsUnchanged DEF vars
<1> QED
  BY <1>1, <1>2, <1>3 DEF Next

LEMMA IdentityInvariant == Spec => []IInv
BY InitInv, NextInv, PTL DEF Spec

\* Every variable of the identity tables and of the handlers keeps its type.
THEOREM IdentityTyped == Spec => []TypeOK
BY IdentityInvariant, PTL DEF IInv

\* Whatever fails and however requests overlap, a handler behind the middleware
\* acts with its subject's user, in the organisation its token asks for, of
\* which that user is a member with the role the token confers.
THEOREM MembersAreServed == Spec => []ServedAreMembers
<1>1. IInv => ServedAreMembers
  BY DEF IInv, HandlersFit, Fits, ServedAreMembers
<1> QED
  BY <1>1, IdentityInvariant, PTL

\* Nobody gets into another's personal organisation, and nobody becomes admin of
\* an organisation of a claim.
THEOREM GrantsAreSound == Spec => []GrantsFitTokens
BY IdentityInvariant, PTL DEF IInv

\* What GET /api/me lists holds the organisation the request acts in.
THEOREM MeIsComplete == Spec => MeListsItsOrg
<1> DEFINE Lists == \A r \in Requests :
                     req[r].pc = "serving" /\ req'[r].pc = "done" /\ req'[r].ans = 200
                     => req[r].oid \in req'[r].listed
<1>1. IInv /\ [Next]_vars => [Lists]_vars
  <2> SUFFICES ASSUME IInv, Next, NEW r \in Requests,
                      req[r].pc = "serving", req'[r].pc = "done", req'[r].ans = 200
               PROVE  req[r].oid \in req'[r].listed
    OBVIOUS
  <2>1. Me(r)
    <3>1. ~Crash
      BY DEF Crash, Idle
    <3>2. PICK q \in Requests : Arrive(q) \/ Advance(q)
      BY <3>1 DEF Next
    <3>3. q = r
      <4>1. \A p \in Requests \ {q} : req'[p] = req[p]
        <5>1. CASE Arrive(q)
          BY <5>1 DEF Arrive, IInv, TypeOK
        <5>2. CASE EnsureUser(q)
          BY <5>2, EnsureUserStep
        <5>3. CASE EnsureOrganization(q)
          BY <5>3, EnsureOrganizationStep
        <5>4. CASE EnsureMembership(q)
          BY <5>4, EnsureMembershipStep
        <5>5. CASE Me(q)
          BY <5>5 DEF Me, Answer, IInv, TypeOK
        <5> QED
          BY <3>2, <5>1, <5>2, <5>3, <5>4, <5>5 DEF Advance
      <4> QED
        BY <4>1
    <3> QED
      BY <3>2, <3>3 DEF Arrive, Busy, Advance, EnsureUser, EnsureOrganization, EnsureMembership
  <2>2. PICK code, listed : /\ Answer(r, code, listed)
                            /\ code = 200 => listed = MembershipsOf(req[r].uid)
                            /\ code \in {200, 500}
    BY <2>1 DEF Me
  <2>3. req'[r].ans = code /\ req'[r].listed = listed
    BY <2>2 DEF Answer, Idle, IInv, TypeOK
  <2>4. req[r].oid \in MembershipsOf(req[r].uid)
    <3>1. /\ req[r].token \in Token
          /\ req[r].oid # NoRow /\ orgs[KeyOf(req[r].token)] = req[r].oid
          /\ memberships[<<req[r].uid, req[r].oid>>] = RoleOf(req[r].token)
      BY DEF IInv, HandlersFit, Fits
    <3>2. req[r].oid \in OrgIds
      BY <3>1, KeyOfToken DEF IInv, TypeOK
    <3> QED
      BY <3>1, <3>2, KeyOfToken, MarkersAreDistinct DEF MembershipsOf
  <2> QED
    BY <2>2, <2>3, <2>4
<1> QED
  BY <1>1, IdentityInvariant, PTL DEF Spec, MeListsItsOrg

-----------------------------------------------------------------------------
\* Whoever a membership names, and whom a handler acts for past its first upsert,
\* has a row that scans.
Returnable ==
  /\ \A s \in Subjects, o \in OrgIds :
       users[s] # NoRow /\ memberships[<<users[s].id, o>>] # NoRow => Scans(users[s])
  /\ \A r \in Requests :
       req[r].pc \in {"ensureOrganization", "ensureMembership", "serving"} =>
         Scans(users[req[r].token.sub])

\* EnsureUser is the one step that rewrites a row, and COALESCE keeps its e-mail.
LEMMA EnsureUserReturnable ==
  ASSUME IInv, Returnable, NEW r \in Requests, EnsureUser(r)
  PROVE  Returnable'
<1> DEFINE token == req[r].token
           s == token.sub
<1>1. PICK id \in UserIdFor(s) :
        /\ \/ users' = users
           \/ users' = [users EXCEPT ![s] = Upserted(token, id)]
        /\ req' \in [Requests -> Request]
        /\ \A q \in Requests \ {r} : req'[q] = req[q]
        /\ \/ req'[r].pc = "done"
           \/ /\ users' = [users EXCEPT ![s] = Upserted(token, id)]
              /\ req'[r].pc = "ensureOrganization"
              /\ req'[r].token = token
              /\ req'[r].uid = id
              /\ Scans(Upserted(token, id))
  BY EnsureUserStep
<1>2. memberships' = memberships
  BY DEF EnsureUser
<1>3. token \in Token /\ s \in Subjects
  <2>1. token \in Token
    BY DEF EnsureUser, IInv, HandlersFit, Fits
  <2> QED
    BY <2>1, KeyOfToken
<1>4. users \in [Subjects -> UserRow \cup {NoRow}]
  BY DEF IInv, TypeOK
<1>5. ASSUME NEW t \in Subjects, users[t] # NoRow, Scans(users[t])
      PROVE  Scans(users'[t])
  <2>1. CASE users'[t] = users[t]
    BY <1>5, <2>1
  <2>2. CASE t = s /\ users'[t] = Upserted(token, id)
    <3>1. users[s].mail \/ NullAsEmpty
      BY <1>5, <2>2 DEF Scans
    <3>2. users[s].mail => Upserted(token, id).mail
      BY <1>5, <2>2, Zenon DEF Upserted
    <3> QED
      BY <2>2, <3>1, <3>2, Zenon DEF Scans
  <2> QED
    BY <1>1, <1>3, <1>4, <2>1, <2>2
<1>6. ASSUME NEW t \in Subjects, NEW o \in OrgIds,
             users'[t] # NoRow, memberships'[<<users'[t].id, o>>] # NoRow
      PROVE  Scans(users'[t])
  <2>1. CASE users[t] # NoRow
    <3>1. users'[t].id = users[t].id
      <4>1. CASE users'[t] = users[t]
        BY <4>1
      <4>2. CASE t = s /\ users'[t] = Upserted(token, id)
        BY <1>1, <2>1, <4>2 DEF Upserted, UserIdFor
      <4> QED
        BY <1>1, <1>3, <1>4, <4>1, <4>2
    <3> QED
      BY <1>2, <1>5, <1>6, <2>1, <3>1 DEF Returnable
  <2>2. CASE users[t] = NoRow
    <3>1. t = s /\ users'[t] = Upserted(token, id)
      BY <1>1, <1>3, <1>4, <1>6, <2>2
    <3>2. /\ users'[t].id = id /\ id \in UserIds
          /\ \A u \in Subjects : users[u] # NoRow => users[u].id # id
      BY <1>1, <2>2, <3>1 DEF Upserted, UserIdFor
    <3>3. memberships[<<id, o>>] = NoRow
      BY <3>2 DEF IInv, MembershipsRefer
    <3> QED
      BY <1>2, <1>6, <3>2, <3>3
  <2> QED
    BY <2>1, <2>2
<1>7. ASSUME NEW q \in Requests,
             req'[q].pc \in {"ensureOrganization", "ensureMembership", "serving"}
      PROVE  Scans(users'[req'[q].token.sub])
  <2>1. CASE q = r
    BY <1>1, <1>3, <1>4, <1>7, <2>1
  <2>2. CASE q # r
    <3>1. req'[q] = req[q] /\ Fits(req[q])
      BY <1>1, <2>2 DEF IInv, HandlersFit
    <3>2. /\ req[q].token \in Token /\ users[req[q].token.sub] # NoRow
          /\ Scans(users[req[q].token.sub])
      BY <1>7, <3>1 DEF Fits, Returnable
    <3>3. req[q].token.sub \in Subjects
      BY <3>2, KeyOfToken
    <3> QED
      BY <1>5, <3>1, <3>2, <3>3
  <2> QED
    BY <2>1, <2>2
<1> QED
  BY <1>6, <1>7 DEF Returnable

\* The handler that adds a membership has scanned its user's row.
LEMMA EnsureMembershipReturnable ==
  ASSUME IInv, Returnable, NEW r \in Requests, EnsureMembership(r)
  PROVE  Returnable'
<1> DEFINE token == req[r].token
           m == <<req[r].uid, req[r].oid>>
           role == RoleOf(token)
<1>1. /\ \/ memberships' = memberships
         \/ memberships' = [memberships EXCEPT ![m] = role]
      /\ req' \in [Requests -> Request]
      /\ \A q \in Requests \ {r} : req'[q] = req[q]
      /\ req'[r].pc = "done" \/ req'[r].token = token
  BY EnsureMembershipStep
<1>2. users' = users /\ req[r].pc = "ensureMembership"
  BY DEF EnsureMembership
<1>3. /\ token.sub \in Subjects /\ users[token.sub] # NoRow
      /\ users[token.sub].id = req[r].uid
  BY AboutToJoin
<1>4. Scans(users[token.sub])
  BY <1>2 DEF Returnable
<1>5. ASSUME NEW t \in Subjects, NEW o \in OrgIds,
             users[t] # NoRow, memberships'[<<users[t].id, o>>] # NoRow
      PROVE  Scans(users[t])
  <2>1. CASE memberships'[<<users[t].id, o>>] = memberships[<<users[t].id, o>>]
    BY <1>5, <2>1 DEF Returnable
  <2>2. CASE <<users[t].id, o>> = m
    <3>1. t = token.sub
      BY <1>3, <1>5, <2>2 DEF IInv, IdsUnique
    <3> QED
      BY <1>4, <3>1
  <2>3. <<users[t].id, o>> \in UserIds \X OrgIds
    BY <1>5 DEF IInv, TypeOK, UserRow
  <2>4. memberships \in [UserIds \X OrgIds -> Roles \cup {NoRow}]
    BY DEF IInv, TypeOK
  <2> HIDE DEF m, role
  <2> QED
    BY <1>1, <2>1, <2>2, <2>3, <2>4
<1>6. ASSUME NEW q \in Requests,
             req'[q].pc \in {"ensureOrganization", "ensureMembership", "serving"}
      PROVE  Scans(users[req'[q].token.sub])
  <2>1. CASE q = r
    BY <1>1, <1>4, <1>6, <2>1
  <2>2. CASE q # r
    BY <1>1, <1>6, <2>2 DEF Returnable
  <2> QED
    BY <2>1, <2>2
<1> QED
  BY <1>2, <1>5, <1>6 DEF Returnable

\* The other steps change neither a row of users nor a membership.
LEMMA OthersReturnable ==
  ASSUME IInv, Returnable, UNCHANGED <<users, memberships>>,
         NEW r \in Requests, \A q \in Requests \ {r} : req'[q] = req[q],
         \/ req'[r].pc \in {"idle", "done", "ensureUser"}
         \/ req[r].pc = "ensureOrganization" /\ req'[r].token = req[r].token
  PROVE  Returnable'
<1>1. \A q \in Requests : 
        req'[q].pc \in {"ensureOrganization", "ensureMembership", "serving"} =>
          Scans(users[req'[q].token.sub])
  BY DEF Returnable
<1> QED
  BY <1>1 DEF Returnable

LEMMA NextReturnable == IInv /\ Returnable /\ [Next]_vars => Returnable'
<1> SUFFICES ASSUME IInv, Returnable, [Next]_vars
             PROVE  Returnable'
  OBVIOUS
<1>1. ASSUME NEW r \in Requests, Arrive(r)
      PROVE  Returnable'
  <2>1. /\ req'[r].pc = "ensureUser"
        /\ \A q \in Requests \ {r} : req'[q] = req[q]
    BY <1>1 DEF Arrive, Idle, IInv, TypeOK
  <2> QED
    BY <1>1, <2>1, OthersReturnable DEF Arrive
<1>2. ASSUME NEW r \in Requests, EnsureOrganization(r)
      PROVE  Returnable'
  <2>1. /\ \A q \in Requests \ {r} : req'[q] = req[q]
        /\ req'[r].pc = "done" \/ req'[r].token = req[r].token
    BY <1>2, EnsureOrganizationStep
  <2> QED
    BY <1>2, <2>1, OthersReturnable DEF EnsureOrganization
<1>3. ASSUME NEW r \in Requests, Me(r)
      PROVE  Returnable'
  <2>1. /\ req'[r].pc = "done"
        /\ \A q \in Requests \ {r} : req'[q] = req[q]
    <3>1. PICK code \in {200, 500}, listed \in SUBSET OrgIds : Answer(r, code, listed)
      <4>1. {} \in SUBSET OrgIds /\ MembershipsOf(req[r].uid) \in SUBSET OrgIds
        BY DEF MembershipsOf
      <4>2. Answer(r, 500, {}) \/ Answer(r, 200, MembershipsOf(req[r].uid))
        BY <1>3 DEF Me
      <4> QED
        BY <4>1, <4>2
    <3> QED
      BY <3>1, AnswerFits DEF IInv
  <2> QED
    BY <1>3, <2>1, OthersReturnable DEF Me
<1>4. CASE Crash
  <2>1. \A r \in Requests : req'[r].pc = "idle"
    BY <1>4 DEF Crash, Idle
  <2> QED
    BY <1>4, <2>1 DEF Crash, Returnable
<1>5. CASE UNCHANGED vars
  BY <1>5 DEF vars, Returnable
<1> QED
  BY <1>1, <1>2, <1>3, <1>4, <1>5, EnsureUserReturnable, EnsureMembershipReturnable
     DEF Next, Advance

\* No member is ever locked out by a token without an e-mail, whichever way the
\* driver treats NULL and however the upserts of several requests interleave.
THEOREM MembersReturn == Spec => []MembersCanReturn
<1>1. Init => Returnable
  BY DEF Init, Returnable, Idle
<1>2. IInv /\ Returnable => MembersCanReturn
  BY DEF IInv, TypeOK, Returnable, MembersCanReturn, Joined
<1> QED
  BY <1>1, <1>2, NextReturnable, IdentityInvariant, PTL DEF Spec

-----------------------------------------------------------------------------
(* The refinement.                                                         *)

\* A step that moves one handler neither out of nor into serving moves no one
\* in the abstract specification.
LEMMA ActingUnchanged ==
  ASSUME NEW r \in Requests, req[r].pc # "serving", req'[r].pc # "serving",
         \A q \in Requests \ {r} : req'[q] = req[q]
  PROVE  Acting' = Acting
BY DEF Acting

LEMMA InitAdmits == Init => Admission!Init
BY DEF Init, Admission!Init, Joined, Acting, Idle

\* New rows come without memberships and old ones keep their ids.
LEMMA EnsureUserStutters ==
  ASSUME IInv, NEW r \in Requests, EnsureUser(r)
  PROVE  UNCHANGED <<Joined, Acting>>
<1> DEFINE token == req[r].token
           s == token.sub
<1>1. PICK id \in UserIdFor(s) :
        /\ \/ users' = users
           \/ users' = [users EXCEPT ![s] = Upserted(token, id)]
        /\ \A q \in Requests \ {r} : req'[q] = req[q]
        /\ req'[r].pc \in {"done", "ensureOrganization"}
  BY EnsureUserStep
<1>2. Acting' = Acting
  BY <1>1, ActingUnchanged DEF EnsureUser
<1>3. UNCHANGED <<orgs, memberships>>
  BY DEF EnsureUser
<1>4. CASE users' = users
  BY <1>2, <1>3, <1>4 DEF Joined
<1>5. CASE users' = [users EXCEPT ![s] = Upserted(token, id)]
  <2>1. token \in Token /\ s \in Subjects
    <3>1. token \in Token
      BY DEF EnsureUser, IInv, HandlersFit, Fits
    <3> QED
      BY <3>1, KeyOfToken
  <2>2. users[s] # NoRow => users[s] \in UserRow
    BY <2>1 DEF IInv, TypeOK
  <2>3. id \in UserIds
    BY <1>1, <2>2 DEF UserIdFor, UserRow
  <2>4. Upserted(token, id) # NoRow /\ Upserted(token, id).id = id
    <3>1. Upserted(token, id) \in UserRow
      BY <2>1, <2>2, <2>3 DEF Upserted, UserRow, Token
    <3> QED
      BY <3>1, MarkersAreDistinct DEF Upserted
  <2>5. /\ users'[s] # NoRow /\ users'[s].id = id
        /\ \A t \in Subjects \ {s} : users'[t] = users[t]
    BY <1>5, <2>1, <2>4 DEF IInv, TypeOK
  <2>6. /\ users[s] # NoRow => id = users[s].id
        /\ users[s] = NoRow => \A t \in Subjects : users[t] # NoRow => users[t].id # id
    BY <1>1 DEF UserIdFor
  <2>7. ASSUME NEW t \in Subjects, NEW k \in Keys
        PROVE  (<<t, k>> \in Joined)' <=> <<t, k>> \in Joined
    <3>1. CASE users[t] # NoRow
      <4>1. users'[t] # NoRow /\ users'[t].id = users[t].id
        BY <2>5, <2>6, <3>1
      <4> QED
        BY <1>3, <3>1, <4>1 DEF Joined
    <3>2. CASE users[t] = NoRow /\ t = s
      <4>1. <<t, k>> \notin Joined
        BY <3>2 DEF Joined
      <4>2. orgs[k] # NoRow => memberships[<<id, orgs[k]>>] = NoRow
        <5>1. orgs[k] # NoRow => orgs[k] \in OrgIds
          BY DEF IInv, TypeOK
        <5> QED
          BY <2>3, <2>6, <3>2, <5>1 DEF IInv, MembershipsRefer
      <4> QED
        BY <1>3, <2>5, <3>2, <4>1, <4>2 DEF Joined
    <3>3. CASE users[t] = NoRow /\ t # s
      BY <2>5, <3>3 DEF Joined
    <3> QED
      BY <3>1, <3>2, <3>3
  <2>8. Joined' = Joined
    <3>1. Joined \subseteq Subjects \X Keys /\ Joined' \subseteq Subjects \X Keys
      BY DEF Joined
    <3> QED
      BY <2>7, <3>1
  <2> QED
    BY <1>2, <2>8
<1> QED
  BY <1>1, <1>4, <1>5

LEMMA EnsureOrganizationStutters ==
  ASSUME IInv, NEW r \in Requests, EnsureOrganization(r)
  PROVE  UNCHANGED <<Joined, Acting>>
<1> DEFINE token == req[r].token
           key == KeyOf(token)
<1>1. PICK id \in OrgIdFor(key) :
        /\ \/ orgs' = orgs
           \/ orgs' = [orgs EXCEPT ![key] = id]
        /\ \A q \in Requests \ {r} : req'[q] = req[q]
        /\ req'[r].pc \in {"done", "ensureMembership"}
  BY EnsureOrganizationStep
<1>2. Acting' = Acting
  BY <1>1, ActingUnchanged DEF EnsureOrganization
<1>3. UNCHANGED <<users, memberships>>
  BY DEF EnsureOrganization
<1>4. CASE orgs' = orgs
  BY <1>2, <1>3, <1>4 DEF Joined
<1>5. CASE orgs' = [orgs EXCEPT ![key] = id]
  <2>1. key \in Keys
    BY KeyOfToken DEF EnsureOrganization, IInv, HandlersFit, Fits
  <2>2. id \in OrgIds
    BY <1>1, <2>1 DEF IInv, TypeOK, OrgIdFor
  <2>3. orgs'[key] = id /\ \A k \in Keys \ {key} : orgs'[k] = orgs[k]
    BY <1>5, <2>1 DEF IInv, TypeOK
  <2>4. /\ orgs[key] # NoRow => id = orgs[key]
        /\ orgs[key] = NoRow => \A l \in Keys : orgs[l] # id
    BY <1>1 DEF OrgIdFor
  <2>5. ASSUME NEW t \in Subjects, NEW k \in Keys
        PROVE  (<<t, k>> \in Joined)' <=> <<t, k>> \in Joined
    <3>1. CASE orgs[k] # NoRow
      <4>1. orgs'[k] = orgs[k]
        BY <2>3, <2>4, <3>1
      <4> QED
        BY <1>3, <3>1, <4>1 DEF Joined
    <3>2. CASE orgs[k] = NoRow /\ k = key
      <4>1. <<t, k>> \notin Joined
        BY <3>2 DEF Joined
      <4>2. users[t] # NoRow => memberships[<<users[t].id, id>>] = NoRow
        <5>1. users[t] # NoRow => users[t].id \in UserIds
          BY DEF IInv, TypeOK, UserRow
        <5> QED
          BY <2>2, <2>4, <3>2, <5>1 DEF IInv, MembershipsRefer
      <4> QED
        BY <1>3, <2>3, <3>2, <4>1, <4>2 DEF Joined
    <3>3. CASE orgs[k] = NoRow /\ k # key
      BY <2>3, <3>3 DEF Joined
    <3> QED
      BY <3>1, <3>2, <3>3
  <2>6. Joined' = Joined
    <3>1. Joined \subseteq Subjects \X Keys /\ Joined' \subseteq Subjects \X Keys
      BY DEF Joined
    <3> QED
      BY <2>5, <3>1
  <2> QED
    BY <1>2, <2>6
<1> QED
  BY <1>1, <1>4, <1>5

LEMMA EnsureMembershipAdmits ==
  ASSUME IInv, NEW r \in Requests, EnsureMembership(r)
  PROVE  Admission!Next \/ UNCHANGED <<Joined, Acting>>
<1> DEFINE token == req[r].token
           m == <<req[r].uid, req[r].oid>>
           role == RoleOf(token)
           p == <<token.sub, KeyOf(token)>>
<1>1. /\ \/ memberships' = memberships
         \/ memberships' = [memberships EXCEPT ![m] = role]
      /\ \A q \in Requests \ {r} : req'[q] = req[q]
      /\ \/ req'[r].pc = "done"
         \/ /\ memberships' = [memberships EXCEPT ![m] = role]
            /\ req'[r].pc = "serving"
            /\ req'[r].token = token
  BY EnsureMembershipStep
<1>2. UNCHANGED <<users, orgs>>
  BY DEF EnsureMembership
<1>3. /\ token \in Token /\ token.sub \in Subjects /\ KeyOf(token) \in Keys
      /\ users[token.sub] # NoRow /\ users[token.sub].id = req[r].uid
      /\ orgs[KeyOf(token)] # NoRow /\ orgs[KeyOf(token)] = req[r].oid
      /\ req[r].uid \in UserIds /\ req[r].oid \in OrgIds
  BY AboutToJoin
<1>4. req[r].pc = "ensureMembership"
  BY DEF EnsureMembership
<1>5. memberships' = [memberships EXCEPT ![m] = role] => Joined' = Joined \cup {p}
  <2> SUFFICES ASSUME memberships' = [memberships EXCEPT ![m] = role]
               PROVE  Joined' = Joined \cup {p}
    OBVIOUS
  <2>1. role # NoRow /\ m \in UserIds \X OrgIds /\ p \in Subjects \X Keys
    BY <1>3, KeyOfToken, MarkersAreDistinct
  <2>2. /\ memberships'[m] = role
        /\ \A n \in (UserIds \X OrgIds) \ {m} : memberships'[n] = memberships[n]
    BY <2>1 DEF IInv, TypeOK
  <2>3. ASSUME NEW t \in Subjects, NEW k \in Keys
        PROVE  (<<t, k>> \in Joined)' <=> <<t, k>> \in Joined \/ <<t, k>> = p
    <3> HIDE DEF role
    <3>1. CASE users[t] = NoRow \/ orgs[k] = NoRow
      BY <1>2, <1>3, <3>1 DEF Joined
    <3>2. CASE users[t] # NoRow /\ orgs[k] # NoRow
      <4>1. users[t].id \in UserIds /\ orgs[k] \in OrgIds
        BY <3>2 DEF IInv, TypeOK, UserRow
      <4>2. <<users[t].id, orgs[k]>> = m <=> <<t, k>> = p
        BY <1>3, <3>2 DEF IInv, IdsUnique
      <4>3. (<<t, k>> \in Joined)' <=> memberships'[<<users[t].id, orgs[k]>>] # NoRow
        BY <1>2, <3>2 DEF Joined
      <4>4. <<t, k>> \in Joined <=> memberships[<<users[t].id, orgs[k]>>] # NoRow
        BY <3>2 DEF Joined
      <4> HIDE DEF m, p
      <4> QED
        BY <2>1, <2>2, <4>1, <4>2, <4>3, <4>4
    <3> QED
      BY <3>1, <3>2
  <2>4. Joined \subseteq Subjects \X Keys /\ Joined' \subseteq Subjects \X Keys
    BY DEF Joined
  <2> HIDE DEF p
  <2> QED
    BY <2>1, <2>3, <2>4
<1>6. memberships' = memberships => Joined' = Joined
  BY <1>2 DEF Joined
<1>7. p \in Subjects \X Keys
  BY <1>3
<1>8. CASE req'[r].pc = "done"
  <2>1. Acting' = Acting
    BY <1>1, <1>4, <1>8, ActingUnchanged
  <2> HIDE DEF p
  <2> QED
    BY <1>1, <1>5, <1>6, <1>7, <2>1 DEF Admission!Next, Admission!Admit
<1>9. CASE /\ memberships' = [memberships EXCEPT ![m] = role]
           /\ req'[r].pc = "serving"
           /\ req'[r].token = token
  <2>1. Acting[r] = {} /\ Acting' = [Acting EXCEPT ![r] = {p}]
    BY <1>1, <1>4, <1>9 DEF Acting
  <2> HIDE DEF p
  <2>2. Admission!Enter(r, p)
    BY <1>5, <1>9, <2>1 DEF Admission!Enter
  <2> QED
    BY <1>7, <2>2 DEF Admission!Next
<1> QED
  BY <1>1, <1>8, <1>9

LEMMA OthersAdmit ==
  ASSUME IInv, Crash \/ \E r \in Requests : Arrive(r) \/ Me(r)
  PROVE  Admission!Next \/ UNCHANGED <<Joined, Acting>>
<1>1. Joined' = Joined
  BY DEF Crash, Arrive, Me, Joined
<1>2. CASE Crash
  <2>1. Acting' = [q \in Requests |-> IF q \in Requests THEN {} ELSE Acting[q]]
    BY <1>2 DEF Crash, Acting, Idle
  <2>2. Admission!Leave(Requests)
    BY <1>1, <2>1 DEF Admission!Leave
  <2> QED
    BY <2>2 DEF Admission!Next
<1>3. ASSUME NEW r \in Requests, Arrive(r)
      PROVE  UNCHANGED <<Joined, Acting>>
  <2>1. /\ req'[r].pc = "ensureUser"
        /\ \A q \in Requests \ {r} : req'[q] = req[q]
    BY ZenonT(60), <1>3 DEF Arrive, Idle, IInv, TypeOK
  <2>2. req[r].pc # "serving"
    BY <1>3 DEF Arrive, Busy
  <2> QED
    BY <1>1, <2>1, <2>2, ActingUnchanged
<1>4. ASSUME NEW r \in Requests, Me(r)
      PROVE  Admission!Next
  <2>1. PICK code, listed : Answer(r, code, listed)
    BY <1>4 DEF Me
  <2>2. /\ req'[r].pc = "done"
        /\ \A q \in Requests \ {r} : req'[q] = req[q]
    BY <2>1 DEF Answer, Idle, IInv, TypeOK
  <2>3. Acting' = [q \in Requests |-> IF q \in {r} THEN {} ELSE Acting[q]]
    BY <2>2 DEF Acting
  <2>4. Admission!Leave({r})
    BY <1>1, <2>3 DEF Admission!Leave
  <2> QED
    BY <2>4 DEF Admission!Next
<1> QED
  BY <1>2, <1>3, <1>4

LEMMA NextAdmits ==
  IInv /\ [Next]_vars => [Admission!Next]_<<Joined, Acting>>
<1> SUFFICES ASSUME IInv, [Next]_vars
             PROVE  Admission!Next \/ UNCHANGED <<Joined, Acting>>
  OBVIOUS
<1>1. CASE UNCHANGED vars
  BY <1>1 DEF vars, Joined, Acting
<1>2. CASE Next
  BY <1>2, EnsureUserStutters, EnsureOrganizationStutters, EnsureMembershipAdmits,
     OthersAdmit DEF Next, Advance
<1> QED
  BY <1>1, <1>2

\* The middleware's three upserts implement one atomic admission per request:
\* failing, overlapping or cut off by a restart, they admit nobody the token
\* does not name, and never drop a member.
THEOREM ImplementsAdmission == Spec => RefinesAdmission
BY InitAdmits, NextAdmits, IdentityInvariant, PTL
   DEF Spec, RefinesAdmission, Admission!Spec
=============================================================================
