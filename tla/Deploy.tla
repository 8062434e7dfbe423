------------------------------- MODULE Deploy -------------------------------
(***************************************************************************)
(* scripts/deploy.sh: what its commands find, create and overwrite at      *)
(* Neon, Logto and Fly, and write to .env, when calls fail, lose their     *)
(* reply or are interrupted, and the operator runs it again.  Commands     *)
(* run one at a time.                                                      *)
(*                                                                         *)
(* Abstractions.  settings numbers the operator's versions of the other    *)
(* lines of .env (domain, audience, origin).  Of what Fly runs only what   *)
(* it was given is kept.  A SPA application is its index in spas, which    *)
(* holds the settings it was last synced to; a Neon project is a number.   *)
(* The checks of the lines for presence and shape, and the commands that   *)
(* change nothing outside (logto, frontend, help), are left out, and so are *)
(* values in the environment beside an .env.                               *)
(***************************************************************************)
EXTENDS Calls, Naturals, SequencesExt

CONSTANTS
  Commands,     \* what the operator may run
  Files,        \* the files .env, or environments, to begin with
  Own,          \* a database of the operator's
  Absent,       \* no such line in .env
  Blank,        \* a line without a value
  Null,         \* what jq prints for the id in an error reply
  None,         \* nothing there yet
  Neonctl,      \* neonctl is installed
  CallFaults,   \* what can go wrong with a call
  MaxProjects, MaxSpas, MaxSettings   \* bounds

Databases == {Own} \cup 1 .. MaxProjects
AppIds == {Null} \cup 1 .. MaxSpas
Settings == 1 .. MaxSettings

\* there: ENV_FILE exists; if not, the values are the environment's.
\* seeded: the lines LOGTO_M2M_* are filled in.
EnvFile == [there : BOOLEAN, db : {Absent, Blank} \cup Databases,
            app : {Absent, Blank} \cup AppIds, seeded : BOOLEAN, settings : Settings]

Secret == [db : Databases, settings : Settings]

\* api: VITE_API_BASE is the URL of the API.
Bundle == [app : AppIds, settings : Settings, api : BOOLEAN]

Preflight == <<"database", "flyToken">>
Logto == <<"m2mToken", "resource", "spa">>
Api == <<"apiApp", "secrets", "deployApi">>
Web == <<"webApp", "deployWeb">>

Steps == UNION {ToSet(s) : s \in {Preflight, Logto, Api, Web, <<"neon">>}}

CommandNames == {"all", "preflight", "neon-create", "logto-setup", "fly", "web"}

\* The steps of a command.
Plan(cmd, seeded) ==
  CASE cmd = "all"         -> Preflight \o (IF seeded THEN Logto ELSE <<>>) \o Api \o Web
    [] cmd = "preflight"   -> Preflight
    [] cmd = "neon-create" -> <<"neon">>
    [] cmd = "logto-setup" -> Logto
    [] cmd = "fly"         -> Preflight \o Api
    [] cmd = "web"         -> Preflight \o Web

ASSUME DeployEnvironment ==
  /\ Commands \subseteq CommandNames
  /\ Files \subseteq EnvFile
  /\ Neonctl \in BOOLEAN
  /\ CallFaults \subseteq Faults
  /\ {MaxProjects, MaxSpas, MaxSettings} \subseteq Nat \ {0}

ASSUME ValuesAreDistinct ==
  /\ Absent # Blank
  /\ {Absent, Blank} \cap (Databases \cup AppIds) = {}
  /\ None \notin CommandNames \cup Secret \cup Bundle

VARIABLES
  file,       \* .env, or the environment
  script,     \* the last run: its command, the steps it still has to do, and its variables
  projects,   \* number of projects at Neon
  spas,       \* SPA applications of the name at Logto
  resources,  \* settings whose audience is a resource at Logto
  apps,       \* apps at Fly
  secrets,    \* secrets of the API app
  released,   \* the API has been deployed
  bundle,     \* what the web app serves
  calm,       \* from now on no call fails and nobody interrupts
  misread     \* history: some look at the SPA applications has failed

neon == <<projects>>
logto == <<spas, resources, misread>>
fly == <<apps, secrets, released, bundle>>
vars == <<file, script, neon, logto, fly, calm>>

TypeOK ==
  /\ file \in EnvFile
  /\ script \in [cmd : Commands \cup {None}, todo : Seq(Steps), db : {Absent} \cup Databases,
                 app : {Absent} \cup AppIds, settings : Settings,
                 clean : BOOLEAN, result : {"running", "ok", "failed"}]
  /\ projects \in 0 .. MaxProjects
  /\ spas \in Seq(Settings) /\ Len(spas) <= MaxSpas
  /\ resources \subseteq Settings
  /\ apps \subseteq {"api", "web"}
  /\ secrets \in {None} \cup Secret
  /\ bundle \in {None} \cup Bundle
  /\ {released, calm, misread} \subseteq BOOLEAN

-----------------------------------------------------------------------------
\* Mutant: a blank line is taken for a value.
ValueOrBlank(line) == line
\* The variable after load_env; the script asks [ -n ... ] of it.
Value(line) == IF line = Blank THEN Absent ELSE line

\* Mutant: nothing is written back.
NeverWritten(line, value) == line
\* A value is appended to .env, if there is one, and no such line in it, blank
\* or not.
Written(line, value) == IF file.there /\ line = Absent THEN value ELSE line

Called(possible) ==
  {x \in Replies(TRUE, IF calm THEN {} ELSE CallFaults, possible) : calm => x.live}

\* What a lookup makes of what is there: one that fails reads as nothing.
Found(there) == {there} \cup (IF calm \/ CallFaults = {} THEN {} ELSE {FALSE})

Init ==
  /\ file \in Files
  /\ script = [cmd |-> None, todo |-> <<>>, db |-> Absent, app |-> Absent,
               settings |-> 1, clean |-> FALSE, result |-> "ok"]
  /\ projects = 0
  /\ spas = <<>> /\ resources = {}
  /\ apps = {} /\ secrets = None /\ released = FALSE /\ bundle = None
  /\ calm = FALSE /\ misread = FALSE

\* The command can succeed with this .env.
Prepared(cmd) ==
  LET plan == ToSet(Plan(cmd, file.seeded)) IN
  /\ "database" \in plan => Value(file.db) # Absent \/ Neonctl
  /\ "neon" \in plan => Neonctl
  /\ "m2mToken" \in plan => file.seeded
  /\ "webApp" \in plan => "spa" \in plan \/ Value(file.app) # Absent

\* Bound: a run that would create a project too many is not started.
Start(cmd) ==
  /\ script.result # "running"
  /\ \/ cmd = "neon-create"
     \/ Value(file.db) = Absent /\ cmd # "logto-setup"
     => projects < MaxProjects
  /\ script' = [cmd |-> cmd, todo |-> Plan(cmd, file.seeded), db |-> Value(file.db),
                app |-> Value(file.app), settings |-> file.settings,
                clean |-> calm /\ Prepared(cmd), result |-> "running"]
  /\ UNCHANGED <<file, neon, logto, fly, calm>>

\* The operator changes the audience, the domain or the origin.
EditSettings ==
  /\ script.result # "running"
  /\ file.settings < MaxSettings
  /\ file' = [file EXCEPT !.settings = @ + 1]
  /\ UNCHANGED <<script, neon, logto, fly, calm>>

Recover ==
  /\ ~calm
  /\ calm' = TRUE
  /\ UNCHANGED <<file, script, neon, logto, fly>>

-----------------------------------------------------------------------------
At(step) == script.result = "running" /\ Head(script.todo) = step

Die == script' = [script EXCEPT !.todo = <<>>, !.result = "failed"]

\* On to the next step, with the variables as in s.
Advance(s) ==
  script' = [s EXCEPT !.todo = Tail(@), !.result = IF Tail(s.todo) = <<>> THEN "ok" ELSE @]

\* Mutant: errexit is off everywhere.
NeverStrict == FALSE
\* errexit is in force but within $(fly_deploy), as command all calls it.
Strict == ~(script.cmd = "all" /\ Head(script.todo) \in ToSet(Api))

\* A simple command that came back as x.
After(x) ==
  IF ~x.live \/ (x.failed /\ Strict) THEN Die ELSE Advance(script)

\* neon_create.
CreateProject ==
  \E x \in Called(TRUE) :
    /\ projects' = IF x.applied THEN projects + 1 ELSE projects
    /\ IF x.failed
       THEN Die /\ UNCHANGED file
       ELSE /\ file' = [file EXCEPT !.db = Written(@, projects')]
            /\ Advance([script EXCEPT !.db = projects'])

\* ensure_database_url.
EnsureDatabase ==
  /\ At("database")
  /\ IF script.db # Absent THEN Advance(script) /\ UNCHANGED <<file, neon>>
     ELSE IF Neonctl THEN CreateProject
     ELSE Die /\ UNCHANGED <<file, neon>>
  /\ UNCHANGED <<logto, fly, calm>>

NeonCreate ==
  /\ At("neon")
  /\ IF Neonctl THEN CreateProject ELSE Die /\ UNCHANGED <<file, neon>>
  /\ UNCHANGED <<logto, fly, calm>>

\* ensure_fly_token and logto_m2m_token: a token, which is not kept.
GetToken ==
  /\ At("flyToken") \/ (At("m2mToken") /\ file.seeded)
  /\ \E x \in Called(TRUE) : After(x)
  /\ UNCHANGED <<file, neon, logto, fly, calm>>

NoM2mApp ==
  /\ At("m2mToken") /\ ~file.seeded
  /\ Die
  /\ UNCHANGED <<file, neon, logto, fly, calm>>

\* Whether a POST that came back as x printed anything for an id: an error
\* reply has none, which jq prints as "null"; no reply prints nothing.
Printed(x) == IF x = Refused THEN BOOLEAN ELSE {~x.failed}

\* logto_setup, API resource: the indicator is unique at Logto.
EnsureResource ==
  /\ At("resource")
  /\ LET there == script.settings \in resources IN
     \E found \in Found(there) :
       IF found THEN Advance(script) /\ UNCHANGED resources
       ELSE \E x \in Called(~there) : \E printed \in Printed(x) :
              /\ resources' = IF x.applied THEN resources \cup {script.settings} ELSE resources
              /\ IF printed THEN Advance(script) ELSE Die
  /\ UNCHANGED <<file, neon, spas, misread, fly, calm>>

\* LOGTO_APP_ID is exported and persisted.
UseSpa(id) ==
  /\ file' = [file EXCEPT !.app = Written(@, id)]
  /\ Advance([script EXCEPT !.app = id])

CreateSpa ==
  /\ \E x \in Called(TRUE) : \E printed \in Printed(x) :
       /\ spas' = IF x.applied THEN Append(spas, script.settings) ELSE spas
       /\ IF ~printed THEN Die /\ UNCHANGED file
          ELSE UseSpa(IF x.failed THEN Null ELSE Len(spas'))

\* logto_api succeeds without a reply, so that only an error reply ends the run.
SyncSpa ==
  \E id \in DOMAIN spas : \E x \in Called(TRUE) :
    /\ spas' = IF x.applied THEN [spas EXCEPT ![id] = script.settings] ELSE spas
    /\ \E unanswered \in IF x = Refused THEN BOOLEAN ELSE {x.failed} :
         IF x.live /\ x.failed = unanswered THEN UseSpa(id) ELSE Die /\ UNCHANGED file

\* Mutant: the application is created at each run.
EnsureSpaAnew ==
  /\ At("spa")
  /\ Len(spas) < MaxSpas
  /\ CreateSpa
  /\ UNCHANGED <<misread, neon, resources, fly, calm>>

\* logto_setup, SPA application: names are not unique at Logto.  Bound: a
\* failed lookup makes no application too many.
EnsureSpa ==
  /\ At("spa")
  /\ \E found \in Found(spas # <<>>) :
       /\ found \/ Len(spas) < MaxSpas
       /\ IF found THEN SyncSpa ELSE CreateSpa
       /\ misread' = (misread \/ found # (spas # <<>>))
  /\ UNCHANGED <<neon, resources, fly, calm>>

-----------------------------------------------------------------------------
\* Mutant: the app is created whether it is there or not.
EnsureAppAnew(app) ==
  \E x \in Called(app \notin apps) :
    /\ apps' = IF x.applied THEN apps \cup {app} ELSE apps
    /\ After(x)

\* fly apps list and, if the app is not in it, fly apps create.
EnsureApp(app) ==
  \E found \in Found(app \in apps) :
    IF found THEN Advance(script) /\ UNCHANGED apps
    ELSE \E x \in Called(app \notin apps) :
           /\ apps' = IF x.applied THEN apps \cup {app} ELSE apps
           /\ After(x)

EnsureApiApp ==
  /\ At("apiApp")
  /\ EnsureApp("api")
  /\ UNCHANGED <<file, neon, logto, secrets, released, bundle, calm>>

SetSecrets ==
  /\ At("secrets")
  /\ \E x \in Called("api" \in apps) :
       /\ secrets' = IF x.applied THEN [db |-> script.db, settings |-> script.settings]
                     ELSE secrets
       /\ After(x)
  /\ UNCHANGED <<file, neon, logto, apps, released, bundle, calm>>

DeployApi ==
  /\ At("deployApi")
  /\ \E x \in Called("api" \in apps) :
       /\ released' = (released \/ x.applied)
       /\ After(x)
  /\ UNCHANGED <<file, neon, logto, apps, secrets, bundle, calm>>

\* web_deploy requires LOGTO_APP_ID.
EnsureWebApp ==
  /\ At("webApp")
  /\ IF script.app = Absent THEN Die /\ UNCHANGED apps ELSE EnsureApp("web")
  /\ UNCHANGED <<file, neon, logto, secrets, released, bundle, calm>>

\* Command all passes on all that fly_deploy printed, of which the URL is the
\* last line.
DeployWeb ==
  /\ At("deployWeb")
  /\ \E x \in Called("web" \in apps) :
       /\ bundle' = IF x.applied
                    THEN [app |-> script.app, settings |-> script.settings,
                          api |-> script.cmd # "all"]
                    ELSE bundle
       /\ After(x)
  /\ UNCHANGED <<file, neon, logto, apps, secrets, released, calm>>

Step ==
  \/ EnsureDatabase \/ NeonCreate \/ GetToken \/ NoM2mApp
  \/ EnsureResource \/ EnsureSpa
  \/ EnsureApiApp \/ SetSecrets \/ DeployApi \/ EnsureWebApp \/ DeployWeb

Next == (\E cmd \in Commands : Start(cmd)) \/ EditSettings \/ Recover \/ Step

Spec == Init /\ [][Next]_vars

-----------------------------------------------------------------------------
Did(step) == script.cmd # None /\ step \in ToSet(Plan(script.cmd, file.seeded))

ApiIsUp ==
  released /\ secrets = [db |-> script.db, settings |-> script.settings]

WebIsUp ==
  bundle # None /\ bundle.app = script.app /\ bundle.settings = script.settings

\* Whatever failed on the way and in earlier runs: fly that ends well has
\* deployed the API with the values of this run, and web has put a bundle up
\* that knows them and the API.  Command all answers for the bundle only, and
\* not for the API's URL in it.
OkIsDeployed ==
  script.result = "ok" =>
    /\ script.cmd = "fly" => ApiIsUp
    /\ Did("deployWeb") => WebIsUp
    /\ script.cmd = "web" => bundle.api

\* "Safe to re-run": once the cause is gone, whatever earlier runs have done by
\* half, a command that has what it needs succeeds, and everything it is
\* responsible for agrees with this run's values.
RerunRepairs ==
  script.clean =>
    /\ script.result # "failed"
    /\ script.result = "ok" =>
         /\ Did("deployApi") => ApiIsUp
         /\ Did("spa") => /\ script.settings \in resources
                          /\ script.app \in DOMAIN spas
                          /\ spas[script.app] = script.settings
         /\ Did("deployWeb") => WebIsUp

\* Lost replies and interruptions make no second SPA application; only a
\* lookup that fails does.
OneSpaApp == Len(spas) <= 1 \/ misread

\* DATABASE_URL is set, or a new one would be written back.
Remembers == IF file.there THEN file.db # Blank ELSE Value(file.db) # Absent

\* An API that is deployed is not moved to another database, such as a new and
\* empty project.  Excepted are runs without an .env and without DATABASE_URL in
\* the environment, and those with its line left blank, as docs/DEPLOYMENT.md
\* recommends for the script to create a project: each of them creates one.
DatabaseIsKept == [][secrets # None /\ Remembers => secrets'.db = secrets.db]_secrets
=============================================================================
