------------------------------ MODULE Process -------------------------------
(***************************************************************************)
(* The life of an API process: main's run() connects to the database,      *)
(* migrates it, fetches the issuer's keys, serves, and drains at a signal, *)
(* while a background loop refreshes the keys.  Several instances share    *)
(* one database, as during a rolling deployment.                           *)
(*                                                                         *)
(* Abstractions.  Migrations are 1..Migrations in the order of their file  *)
(* names; a body is sent as one simple query, hence one transaction.  Of a *)
(* request only what a shutdown meets is kept: that it is being served,    *)
(* and whether it holds a database connection.  The issuer's key sets are  *)
(* numbered, and served at one URL only.  A signal cancels the context of   *)
(* run(), which plays here the part that the client's does in Calls        *)
(* (Disconnects: a signal may come).                                       *)
(***************************************************************************)
EXTENDS Calls, Configuration

CONSTANTS
  Instances,    \* API processes on one database
  Environments, \* what each instance may be started with
  Migrations,   \* number of embedded migration files
  Requests,     \* handlers that can be live at once
  MaxVersion,   \* bound: key sets the issuer ever publishes
  MaxSlashes,   \* bound: slashes in a row in the domain
  Never,        \* a fetch that never returns
  DbFaults,     \* what can go wrong with a statement at boot
  FetchFaults,  \* what can go wrong with a fetch of the keys
  FetchHangs,   \* the issuer may accept a connection and never answer
  ListenFails,  \* the address may be taken
  Crashes       \* a process may be killed

Versions == 1 .. MaxVersion

Booting == {"ping", "ensureTable", "check", "apply", "record", "fetchKeys"}
Running == {"listen", "listening", "deaf", "draining", "closing"}
Stopped == {"down", "killed"}
Phases == {"fetchHung"} \cup Stopped \cup Booting \cup Running

\* env: the environment it was started in.  at: the migration Migrate works on.
\* live: no signal yet.  keys: the cached key set, 0 before the first.  fetches:
\* replies the refresh loop waits for.  serving, inSql: requests accepted, and
\* those that hold a connection.
Proc == [phase : Phases, env : Environment, at : 1 .. Migrations, live : BOOLEAN,
         keys : {0} \cup Versions, fetches : SUBSET (Versions \cup {Never}),
         serving : SUBSET Requests, inSql : SUBSET Requests]

ASSUME ProcessEnvironment ==
  /\ \A p \in Instances : Environments[p] \subseteq Environment
  /\ Migrations \in Nat \ {0}
  /\ MaxVersion \in Nat \ {0}
  /\ MaxSlashes \in Nat
  /\ Never \notin Nat
  /\ DbFaults \subseteq Faults
  /\ FetchFaults \subseteq Faults
  /\ {FetchHangs, ListenFails, Crashes} \subseteq BOOLEAN

VARIABLES
  applied,    \* migrations whose statements the database has executed
  recorded,   \* rows of schema_migrations
  published,  \* the key set the issuer serves now
  proc        \* the instances

vars == <<applied, recorded, published, proc>>
db == <<applied, recorded>>

TypeOK ==
  /\ applied \subseteq 1 .. Migrations
  /\ recorded \subseteq 1 .. Migrations
  /\ published \in Versions
  /\ proc \in [Instances -> Proc]
  /\ \A p \in Instances : proc[p].inSql \subseteq proc[p].serving

-----------------------------------------------------------------------------
Down == [phase |-> "down", env |-> NoEnvironment, at |-> 1, live |-> TRUE, keys |-> 0,
         fetches |-> {}, serving |-> {}, inSql |-> {}]

Become(p, q) == proc' = [proc EXCEPT ![p] = q]
GoTo(p, phase) == Become(p, [proc[p] EXCEPT !.phase = phase])
\* run() returns, and main exits.
End(p) == Become(p, Down)

\* A statement sent with the context the signal cancels.
Executed(p) == Replies(proc[p].live, DbFaults, TRUE)

Init ==
  /\ applied = {}
  /\ recorded = {}
  /\ published = 1
  /\ proc = [p \in Instances |-> Down]

\* config.Load comes first, and an incomplete environment ends the process.
Start(p) ==
  /\ proc[p].phase \in Stopped
  /\ \E e \in Environments[p] :
       IF Missing(e) # {} THEN End(p)
       ELSE Become(p, [proc[p] EXCEPT !.phase = "ping", !.env = e])
  /\ UNCHANGED <<db, published>>

\* db.New.
Ping(p) ==
  /\ proc[p].phase = "ping"
  /\ \E x \in Executed(p) : IF x.failed THEN End(p) ELSE GoTo(p, "ensureTable")
  /\ UNCHANGED <<db, published>>

\* CREATE TABLE IF NOT EXISTS, which may err when another instance does the same.
EnsureTable(p) ==
  /\ proc[p].phase = "ensureTable"
  /\ \E x \in Executed(p) : IF x.failed THEN End(p) ELSE GoTo(p, "check")
  /\ UNCHANGED <<db, published>>

\* Mutant: the range loop runs one file too far.
OneMigrationMore(p) ==
  IF proc[p].at > Migrations
  THEN GoTo(p, "fetchKeys")
  ELSE Become(p, [proc[p] EXCEPT !.phase = "check", !.at = @ + 1])

\* The next round of Migrate's loop, or its end.
NextMigration(p) ==
  IF proc[p].at = Migrations
  THEN GoTo(p, "fetchKeys")
  ELSE Become(p, [proc[p] EXCEPT !.phase = "check", !.at = @ + 1])

Check(p) ==
  /\ proc[p].phase = "check"
  /\ \E x \in Executed(p) :
       IF x.failed THEN End(p)
       ELSE IF proc[p].at \in recorded THEN NextMigration(p)
       ELSE GoTo(p, "apply")
  /\ UNCHANGED <<db, published>>

\* Mutant: the error of the body is dropped.
ApplyUnchecked(p) ==
  /\ proc[p].phase = "apply"
  /\ \E x \in Executed(p) :
       /\ applied' = IF x.applied THEN applied \cup {proc[p].at} ELSE applied
       /\ GoTo(p, "record")
  /\ UNCHANGED <<recorded, published>>

Apply(p) ==
  /\ proc[p].phase = "apply"
  /\ \E x \in Executed(p) :
       /\ applied' = IF x.applied THEN applied \cup {proc[p].at} ELSE applied
       /\ IF x.failed THEN End(p) ELSE GoTo(p, "record")
  /\ UNCHANGED <<recorded, published>>

\* Mutants: the error of the INSERT is dropped; it is retried for ever.
RecordUnchecked(p) ==
  /\ proc[p].phase = "record"
  /\ \E x \in Executed(p) :
       /\ recorded' = IF x.applied THEN recorded \cup {proc[p].at} ELSE recorded
       /\ NextMigration(p)
  /\ UNCHANGED <<applied, published>>
RecordRetried(p) ==
  /\ proc[p].phase = "record"
  /\ \E x \in Executed(p) :
       /\ recorded' = IF x.applied THEN recorded \cup {proc[p].at} ELSE recorded
       /\ IF x.failed THEN GoTo(p, "check") ELSE NextMigration(p)
  /\ UNCHANGED <<applied, published>>

\* INSERT ... ON CONFLICT DO NOTHING.
Record(p) ==
  /\ proc[p].phase = "record"
  /\ \E x \in Executed(p) :
       /\ recorded' = IF x.applied THEN recorded \cup {proc[p].at} ELSE recorded
       /\ IF x.failed THEN End(p) ELSE NextMigration(p)
  /\ UNCHANGED <<applied, published>>

\* The initial fetch of NewJWKSVerifier, which has no timeout of its own and
\* finds keys only where the tenant serves them.
FetchKeys(p) ==
  /\ proc[p].phase = "fetchKeys"
  /\ \/ \E x \in Replies(proc[p].live, FetchFaults, TRUE) :
          IF x.failed \/ JWKSURL(proc[p].env) # TenantKeys THEN End(p)
          ELSE Become(p, [proc[p] EXCEPT !.phase = "listen", !.keys = published])
     \/ FetchHangs /\ proc[p].live /\ GoTo(p, "fetchHung")
  /\ UNCHANGED <<db, published>>

AbandonFetch(p) ==
  /\ proc[p].phase = "fetchHung"
  /\ ~proc[p].live
  /\ End(p)
  /\ UNCHANGED <<db, published>>

\* The server goroutine; an error of ListenAndServe is logged, no more.
Listen(p) ==
  /\ proc[p].phase = "listen"
  /\ \/ GoTo(p, "listening")
     \/ ListenFails /\ GoTo(p, "deaf")
  /\ UNCHANGED <<db, published>>

-----------------------------------------------------------------------------
\* Key set v of the issuer: its key v, and the one before it.
KeySet(v) == {k \in Versions : k = v \/ k + 1 = v}

\* Verify, for a token of the tenant signed with key k.
Accepts(p, k) ==
  /\ k \in KeySet(proc[p].keys)
  /\ Issuer(proc[p].env) = TenantIssuer

Rotate ==
  /\ published < MaxVersion
  /\ published' = published + 1
  /\ UNCHANGED <<db, proc>>

\* Mutant: each tick fetches in a goroutine of its own.
StartRefreshAnyway(p) ==
  /\ Refreshes(proc[p].env)
  /\ proc[p].phase \in Running
  /\ \E v \in {published} \cup (IF FetchHangs THEN {Never} ELSE {}) :
       Become(p, [proc[p] EXCEPT !.fetches = @ \cup {v}])
  /\ UNCHANGED <<db, published>>

\* A tick of the refresh loop, which waits for the reply before the next one.
\* v is what the issuer will have answered.
StartRefresh(p) ==
  /\ Refreshes(proc[p].env)
  /\ proc[p].phase \in Running
  /\ proc[p].fetches = {}
  /\ \E v \in {published} \cup (IF FetchHangs THEN {Never} ELSE {}) :
       Become(p, [proc[p] EXCEPT !.fetches = @ \cup {v}])
  /\ UNCHANGED <<db, published>>

\* Mutant: the new set is not stored.
RefreshArrivesUnstored(p) ==
  /\ \E v \in proc[p].fetches \ {Never} :
       Become(p, [proc[p] EXCEPT !.fetches = @ \ {v}])
  /\ UNCHANGED <<db, published>>

RefreshArrives(p) ==
  /\ \E v \in proc[p].fetches \ {Never} :
       Become(p, [proc[p] EXCEPT !.fetches = @ \ {v}, !.keys = v])
  /\ UNCHANGED <<db, published>>

\* The error is dropped and the old set stays.
RefreshFails(p) ==
  /\ FetchFaults # {}
  /\ \E v \in proc[p].fetches \ {Never} :
       Become(p, [proc[p] EXCEPT !.fetches = @ \ {v}])
  /\ UNCHANGED <<db, published>>

-----------------------------------------------------------------------------
\* A request whose token is accepted; it works for one instance at a time.
Admit(p, r) ==
  /\ proc[p].phase = "listening"
  /\ \A o \in Instances : r \notin proc[o].serving
  /\ \E k \in Versions : k <= published /\ Accepts(p, k)
  /\ Become(p, [proc[p] EXCEPT !.serving = @ \cup {r}])
  /\ UNCHANGED <<db, published>>

\* The pool hands out a connection, until it is being closed.
Acquire(p, r) ==
  /\ r \in proc[p].serving \ proc[p].inSql
  /\ proc[p].phase # "closing"
  /\ Become(p, [proc[p] EXCEPT !.inSql = @ \cup {r}])
  /\ UNCHANGED <<db, published>>

Release(p, r) ==
  /\ r \in proc[p].inSql
  /\ Become(p, [proc[p] EXCEPT !.inSql = @ \ {r}])
  /\ UNCHANGED <<db, published>>

Respond(p, r) ==
  /\ r \in proc[p].serving \ proc[p].inSql
  /\ Become(p, [proc[p] EXCEPT !.serving = @ \ {r}])
  /\ UNCHANGED <<db, published>>

\* SIGINT or SIGTERM.
Signal(p) ==
  /\ Disconnects
  /\ proc[p].phase \notin Stopped
  /\ proc[p].live
  /\ Become(p, [proc[p] EXCEPT !.live = FALSE])
  /\ UNCHANGED <<db, published>>

\* Mutant: the server goroutine is waited for.
ShutdownIfListening(p) ==
  /\ proc[p].phase = "listening"
  /\ ~proc[p].live
  /\ GoTo(p, "draining")
  /\ UNCHANGED <<db, published>>

\* http.Server.Shutdown closes the listener.
Shutdown(p) ==
  /\ proc[p].phase \in {"listening", "deaf"}
  /\ ~proc[p].live
  /\ GoTo(p, "draining")
  /\ UNCHANGED <<db, published>>

\* It returns when no request is left, or after 15 s.
Drained(p) ==
  /\ proc[p].phase = "draining"
  /\ GoTo(p, "closing")
  /\ UNCHANGED <<db, published>>

\* The deferred pool.Close waits, as pgxpool promises, for the connections that
\* are out; what is still being served then is cut off.
Exit(p) ==
  /\ proc[p].phase = "closing"
  /\ proc[p].inSql = {}
  /\ End(p)
  /\ UNCHANGED <<db, published>>

\* SIGKILL, out of memory, loss of the host.
Kill(p) ==
  /\ Crashes
  /\ proc[p].phase \notin Stopped
  /\ Become(p, [Down EXCEPT !.phase = "killed"])
  /\ UNCHANGED <<db, published>>

Boot(p) ==
  \/ Ping(p) \/ EnsureTable(p) \/ Check(p) \/ Apply(p) \/ Record(p)
  \/ FetchKeys(p) \/ AbandonFetch(p) \/ Listen(p)

Leave(p) == Shutdown(p) \/ Drained(p) \/ Exit(p)

Serve(p) == \E r \in Requests : Admit(p, r) \/ Acquire(p, r) \/ Release(p, r) \/ Respond(p, r)

Refresh(p) == StartRefresh(p) \/ RefreshArrives(p) \/ RefreshFails(p)

Next ==
  \/ \E p \in Instances :
       Start(p) \/ Boot(p) \/ Serve(p) \/ Refresh(p) \/ Signal(p) \/ Leave(p) \/ Kill(p)
  \/ Rotate

Spec == Init /\ [][Next]_vars

\* The runtime schedules main and the loop, timers fire, a statement ends; and
\* the issuer is not down for ever: of endless fetches endlessly many arrive.
FairSpec ==
  /\ Spec
  /\ \A p \in Instances :
       /\ WF_vars(Boot(p)) /\ WF_vars(Leave(p)) /\ WF_vars(Refresh(p))
       /\ SF_vars(RefreshArrives(p))
       /\ \A r \in Requests : WF_vars(Release(p, r))

-----------------------------------------------------------------------------
All == 1 .. Migrations

\* Whatever two instances and restarts make of the gap between applying a
\* migration and recording it, none runs before all earlier ones are recorded,
\* and none is recorded that has not run.
MigrationsInOrder ==
  /\ recorded \subseteq applied
  /\ \A m \in applied : 1 .. (m - 1) \subseteq recorded

\* A process that serves, or drains, has a whole schema and a key set, though
\* others migrate and crash beside it.
ServesMigrated ==
  \A p \in Instances : proc[p].phase \in Running =>
    recorded = All /\ applied = All /\ proc[p].keys # 0

\* However the domain is written, and in each instance of a rolling deployment
\* in another way: what the comments allow means the tenant, and who has found
\* the tenant's keys by it expects the tenant's issuer, so that the instances
\* agree on every token.
IssuersAgree ==
  \A p \in Instances :
    LET e == proc[p].env IN
    \/ e.domain \in Spellings(MaxSlashes)
    \/ proc[p].phase \in Running /\ e.jwks = Unset
    => Issuer(e) = TenantIssuer

\* No refresh puts back a key set older than the one in use, so that a key
\* once refused as withdrawn is not accepted again.
KeysNeverGoBack ==
  [][\A p \in Instances :
       proc'[p].keys < proc[p].keys => proc'[p].phase \in Stopped]_vars

\* A signalled process ends, in whatever call it hangs.
SignalEnds ==
  \A p \in Instances : ~proc[p].live ~> proc[p].phase \in Stopped

\* Each boot ends: with a server, or without a process, unless the issuer
\* never answers or the address is taken.
BootEnds ==
  \A p \in Instances :
    proc[p].phase \in Booting
      ~> proc[p].phase \in {"listening", "deaf", "fetchHung"} \cup Stopped

\* What the issuer publishes and what p accepts.
UpToDate(p) == \A k \in Versions : Accepts(p, k) <=> k \in KeySet(published)

\* Whatever single refreshes fail, what the issuer has withdrawn is refused in
\* the end and what it has added accepted, unless the process goes first, a
\* fetch hangs, or the interval turns refreshing off.
RotationIsPickedUp ==
  \A p \in Instances :
    proc[p].phase = "listening" /\ Refreshes(proc[p].env)
      ~> UpToDate(p) \/ proc[p].phase # "listening" \/ Never \in proc[p].fetches
=============================================================================
