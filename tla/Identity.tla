------------------------------ MODULE Identity ------------------------------
(***************************************************************************)
(* Who a request acts for: the middleware behind every route under /api    *)
(* turns the claims of a verified token into a user and an organisation,   *)
(* by three upserts without a transaction; the handler runs after them.    *)
(* Of the handlers only GET /api/me touches these tables again.            *)
(*                                                                         *)
(* Abstractions.  A row's columns are its id and, for a user, whether an   *)
(* e-mail is known; names are left out.  Rows are found by logto_id, which *)
(* is UNIQUE, so each table is a function of it.  No statement of the code *)
(* deletes from these tables.                                              *)
(***************************************************************************)
EXTENDS Calls

CONSTANTS
  Requests,     \* handler goroutines that can be live at once
  Subjects,     \* the sub claims of tokens
  OrgClaims,    \* the organisation claims of tokens
  NoClaim,      \* a token without one
  PersonalKey,  \* "personal:" + subject
  UserIds,      \* bound: UUIDs of users
  OrgIds,       \* bound: UUIDs of organisations
  NoRow,        \* the table has no such row
  DbFaults,     \* what can go wrong with a SQL statement
  Crashes,      \* the API process may die and be restarted
  NullAsEmpty   \* scanning a NULL column into a Go string yields ""

\* Values of organizations.logto_id.
Keys == OrgClaims \cup {PersonalKey[s] : s \in Subjects}

\* mail: the token carries an e-mail.
Token == [sub : Subjects, claim : OrgClaims \cup {NoClaim}, mail : BOOLEAN]

Roles == {"admin", "member"}

UserRow == [id : UserIds, mail : BOOLEAN]

Pcs == {"idle", "ensureUser", "ensureOrganization", "ensureMembership", "serving", "done"}

\* uid and oid are NoRow until the upserts have returned them.
Request == [pc : Pcs, token : Token \cup {NoRow}, uid : UserIds \cup {NoRow},
            oid : OrgIds \cup {NoRow}, live : BOOLEAN,
            ans : {0, 200, 500}, listed : SUBSET OrgIds]

\* The prefix keeps the subjects apart.  That the issuer's organisation ids
\* do not begin with it is taken for granted by the code.
ASSUME KeySpacesApart ==
  /\ \A s \in Subjects : PersonalKey[s] \notin OrgClaims
  /\ \A s, t \in Subjects : PersonalKey[s] = PersonalKey[t] => s = t

ASSUME MarkersAreDistinct ==
  /\ NoClaim \notin OrgClaims
  /\ NoRow \notin UserRow \cup UserIds \cup OrgIds \cup Roles \cup Token

ASSUME IdentityEnvironment ==
  /\ DbFaults \subseteq Faults
  /\ {Disconnects, Crashes, NullAsEmpty} \subseteq BOOLEAN

VARIABLES
  users,        \* table users, by logto_id
  orgs,         \* table organizations, by logto_id: the id
  memberships,  \* table organization_memberships, by its primary key: the role
  req           \* the handlers

vars == <<users, orgs, memberships, req>>

TypeOK ==
  /\ users \in [Subjects -> UserRow \cup {NoRow}]
  /\ orgs \in [Keys -> OrgIds \cup {NoRow}]
  /\ memberships \in [UserIds \X OrgIds -> Roles \cup {NoRow}]
  /\ req \in [Requests -> Request]

-----------------------------------------------------------------------------
Busy(r) == req[r].pc \notin {"idle", "done"}

Idle == [pc |-> "idle", token |-> NoRow, uid |-> NoRow, oid |-> NoRow,
         live |-> TRUE, ans |-> 0, listed |-> {}]

Queried(live) == Replies(live, DbFaults, TRUE)

\* Mutants: the personal key without the subject; a role nobody knows.
SharedKeyOf(token) ==
  IF token.claim = NoClaim THEN PersonalKey[CHOOSE s \in Subjects : TRUE] ELSE token.claim
OwnerRoleOf(token) == IF token.claim = NoClaim THEN "owner" ELSE "member"

\* The organisation a token asks for, and the role it confers there.
KeyOf(token) == IF token.claim = NoClaim THEN PersonalKey[token.sub] ELSE token.claim
RoleOf(token) == IF token.claim = NoClaim THEN "admin" ELSE "member"

\* RETURNING email is scanned into a Go string.
Scans(row) == row.mail \/ NullAsEmpty

\* Handler r goes on with its record changed to q, or answers 500.
Proceed(r, q, x) == req' = [req EXCEPT ![r] = [q EXCEPT !.live = x.live]]
Answer(r, code, listed) ==
  req' = [req EXCEPT ![r] =
            [Idle EXCEPT !.pc = "done", !.ans = code, !.listed = listed]]

Init ==
  /\ users = [s \in Subjects |-> NoRow]
  /\ orgs = [k \in Keys |-> NoRow]
  /\ memberships = [m \in UserIds \X OrgIds |-> NoRow]
  /\ req = [r \in Requests |-> Idle]

\* A request with a token the verifier accepts.
Arrive(r) ==
  /\ ~Busy(r)
  /\ \E token \in Token :
       req' = [req EXCEPT ![r] = [Idle EXCEPT !.pc = "ensureUser", !.token = token]]
  /\ UNCHANGED <<users, orgs, memberships>>

\* Mutant: the conflicting upsert overwrites the id.
NewUserIdFor(s) == {i \in UserIds : \A t \in Subjects : users[t] # NoRow => users[t].id # i}

\* The id an upsert stores: the row's own, or a new UUID.
UserIdFor(s) ==
  IF users[s] # NoRow THEN {users[s].id}
  ELSE {i \in UserIds : \A t \in Subjects : users[t] # NoRow => users[t].id # i}

OrgIdFor(k) ==
  IF orgs[k] # NoRow THEN {orgs[k]}
  ELSE {i \in OrgIds : \A l \in Keys : orgs[l] # i}

\* Mutant: the e-mail is overwritten.
Overwritten(token, id) == [id |-> id, mail |-> token.mail]

\* COALESCE keeps the e-mail when the token has none.
Upserted(token, id) ==
  [id |-> id,
   mail |-> token.mail \/ (users[token.sub] # NoRow /\ users[token.sub].mail)]

EnsureUser(r) ==
  LET token == req[r].token
  IN  /\ req[r].pc = "ensureUser"
      /\ \E x \in Queried(req[r].live), id \in UserIdFor(token.sub) :
           LET row == Upserted(token, id)
           IN  /\ users' = IF x.applied THEN [users EXCEPT ![token.sub] = row] ELSE users
               /\ IF ~x.failed /\ Scans(row)
                  THEN Proceed(r, [req[r] EXCEPT !.pc = "ensureOrganization", !.uid = id], x)
                  ELSE Answer(r, 500, {})
      /\ UNCHANGED <<orgs, memberships>>

EnsureOrganization(r) ==
  LET key == KeyOf(req[r].token)
  IN  /\ req[r].pc = "ensureOrganization"
      /\ \E x \in Queried(req[r].live), id \in OrgIdFor(key) :
           /\ orgs' = IF x.applied THEN [orgs EXCEPT ![key] = id] ELSE orgs
           /\ IF x.failed
              THEN Answer(r, 500, {})
              ELSE Proceed(r, [req[r] EXCEPT !.pc = "ensureMembership", !.oid = id], x)
      /\ UNCHANGED <<users, memberships>>

\* Mutant: the error of the upsert is dropped.
EnsureMembershipUnchecked(r) ==
  /\ req[r].pc = "ensureMembership"
  /\ \E x \in Queried(req[r].live) :
       /\ memberships' =
            IF x.applied
            THEN [memberships EXCEPT ![<<req[r].uid, req[r].oid>>] = RoleOf(req[r].token)]
            ELSE memberships
       /\ Proceed(r, [req[r] EXCEPT !.pc = "serving"], x)
  /\ UNCHANGED <<users, orgs>>

\* The role is overwritten, whatever it was.
EnsureMembership(r) ==
  /\ req[r].pc = "ensureMembership"
  /\ \E x \in Queried(req[r].live) :
       /\ memberships' =
            IF x.applied
            THEN [memberships EXCEPT ![<<req[r].uid, req[r].oid>>] = RoleOf(req[r].token)]
            ELSE memberships
       /\ IF x.failed
          THEN Answer(r, 500, {})
          ELSE Proceed(r, [req[r] EXCEPT !.pc = "serving"], x)
  /\ UNCHANGED <<users, orgs>>

\* Mutant: only what the user administers.
AdministeredBy(uid) == {o \in OrgIds : memberships[<<uid, o>>] = "admin"}

MembershipsOf(uid) == {o \in OrgIds : memberships[<<uid, o>>] # NoRow}

\* GET /api/me.
Me(r) ==
  /\ req[r].pc = "serving"
  /\ \E x \in Queried(req[r].live) :
       IF x.failed THEN Answer(r, 500, {}) ELSE Answer(r, 200, MembershipsOf(req[r].uid))
  /\ UNCHANGED <<users, orgs, memberships>>

\* Handlers keep nothing outside the tables: a restart loses them all.
Crash ==
  /\ Crashes
  /\ req' = [r \in Requests |-> Idle]
  /\ UNCHANGED <<users, orgs, memberships>>

Advance(r) == EnsureUser(r) \/ EnsureOrganization(r) \/ EnsureMembership(r) \/ Me(r)

Next == (\E r \in Requests : Arrive(r) \/ Advance(r)) \/ Crash

Spec == Init /\ [][Next]_vars

-----------------------------------------------------------------------------
\* A handler past the middleware acts with the user of its token's subject, in
\* the organisation its token asks for, and is a member there with the role the
\* token confers: no handler checks membership again.
ServedAreMembers ==
  \A r \in Requests : req[r].pc = "serving" =>
    LET token == req[r].token
    IN  /\ users[token.sub] # NoRow /\ users[token.sub].id = req[r].uid
        /\ orgs[KeyOf(token)] = req[r].oid
        /\ memberships[<<req[r].uid, req[r].oid>>] = RoleOf(token)

\* Nobody but its owner ever gets into a personal organisation, its owner only
\* as admin, and nobody becomes admin of an organisation of a claim, however the
\* upserts of several requests interleave.
GrantsFitTokens ==
  \A s \in Subjects, k \in Keys : users[s] # NoRow /\ orgs[k] # NoRow =>
    memberships[<<users[s].id, orgs[k]>>] \in
      {NoRow} \cup (IF k \in OrgClaims THEN {"member"}
                    ELSE IF k = PersonalKey[s] THEN {"admin"} ELSE {})

\* Who is a member of what.
Joined == {p \in Subjects \X Keys :
             /\ users[p[1]] # NoRow
             /\ orgs[p[2]] # NoRow
             /\ memberships[<<users[p[1]].id, orgs[p[2]]>>] # NoRow}

\* The row of a user who was ever admitted can be scanned: no later token of the
\* subject, though it carries no e-mail, locks out a member with a 500.
MembersCanReturn == \A p \in Joined : Scans(users[p[1]])

\* What GET /api/me lists holds the organisation the request acts in.
MeListsItsOrg ==
  [][\A r \in Requests :
       req[r].pc = "serving" /\ req'[r].pc = "done" /\ req'[r].ans = 200
       => req[r].oid \in req'[r].listed]_vars

\* Whom each handler behind the middleware acts for.
Acting == [r \in Requests |->
             IF req[r].pc = "serving"
             THEN {<<req[r].token.sub, KeyOf(req[r].token)>>} ELSE {}]

Admission == INSTANCE Admission
               WITH Pairs <- Subjects \X Keys, members <- Joined, acting <- Acting

\* The three upserts, failing, retried and overlapping, amount to one atomic
\* admission per request, and nobody who was admitted is ever dropped.
RefinesAdmission == Admission!Spec
=============================================================================
