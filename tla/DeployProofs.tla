---------------------------- MODULE DeployProofs ----------------------------
(***************************************************************************)
(* What holds of scripts/deploy.sh for any .env to begin with, any faults  *)
(* and interruptions, and any order of commands.  A run is a sequence of   *)
(* steps; the invariant says what the steps a run has behind it have left, *)
(* and the order of the steps that a step still finds it.                  *)
(***************************************************************************)
EXTENDS Deploy, CallProofs, SequenceTheorems

-----------------------------------------------------------------------------
(* Plans.                                                                  *)

\* The order in which every command takes its steps.
Rank(step) ==
  CASE step \in {"neon", "database"} -> 0
    [] step = "flyToken"  -> 1
    [] step = "m2mToken"  -> 2
    [] step = "resource"  -> 3
    [] step = "spa"       -> 4
    [] step = "apiApp"    -> 5
    [] step = "secrets"   -> 6
    [] step = "deployApi" -> 7
    [] step = "webApp"    -> 8
    [] step = "deployWeb" -> 9

Sorted(todo) == \A i, j \in DOMAIN todo : i < j => Rank(todo[i]) < Rank(todo[j])

\* A sorted sequence of the steps in set.
Arranges(todo, set) ==
  todo \in Seq(Steps) /\ todo # <<>> /\ Sorted(todo) /\ ToSet(todo) = set

PreflightSteps == {"database", "flyToken"}
LogtoSteps == {"m2mToken", "resource", "spa"}
ApiSteps == {"apiApp", "secrets", "deployApi"}
WebSteps == {"webApp", "deployWeb"}

LEMMA PartSets ==
  /\ ToSet(Preflight) = PreflightSteps
  /\ ToSet(Logto) = LogtoSteps
  /\ ToSet(Api) = ApiSteps
  /\ ToSet(Web) = WebSteps
  /\ ToSet(<<"neon">>) = {"neon"}
<1>1. ToSet(Preflight) = PreflightSteps
  BY DEF ToSet, Preflight, PreflightSteps
<1>2. ToSet(Logto) = LogtoSteps
  BY DEF ToSet, Logto, LogtoSteps
<1>3. ToSet(Api) = ApiSteps
  BY DEF ToSet, Api, ApiSteps
<1>4. ToSet(Web) = WebSteps
  BY DEF ToSet, Web, WebSteps
<1>5. ToSet(<<"neon">>) = {"neon"}
  BY DEF ToSet
<1> QED
  BY <1>1, <1>2, <1>3, <1>4, <1>5

LEMMA AllSteps ==
  Steps = PreflightSteps \cup LogtoSteps \cup ApiSteps \cup WebSteps \cup {"neon"}
BY PartSets DEF Steps

LEMMA RankType == \A step \in Steps : Rank(step) \in 0 .. 9
BY AllSteps DEF Rank, PreflightSteps, LogtoSteps, ApiSteps, WebSteps

LEMMA Parts ==
  /\ Arranges(Preflight, PreflightSteps)
  /\ Arranges(Logto, LogtoSteps)
  /\ Arranges(Api, ApiSteps)
  /\ Arranges(Web, WebSteps)
  /\ Arranges(<<"neon">>, {"neon"})
<1> USE AllSteps, PartSets DEF Arranges, Sorted, Rank
<1>1. Arranges(Preflight, PreflightSteps)
  BY DEF Preflight, PreflightSteps
<1>2. Arranges(Logto, LogtoSteps)
  BY DEF Logto, LogtoSteps
<1>3. Arranges(Api, ApiSteps)
  BY DEF Api, ApiSteps
<1>4. Arranges(Web, WebSteps)
  BY DEF Web, WebSteps
<1>5. Arranges(<<"neon">>, {"neon"})
  OBVIOUS
<1> QED
  BY <1>1, <1>2, <1>3, <1>4, <1>5

LEMMA Joined ==
  ASSUME NEW s, NEW t, NEW A, NEW B, Arranges(s, A), Arranges(t, B),
         \A a \in A, b \in B : Rank(a) < Rank(b)
  PROVE  Arranges(s \o t, A \cup B)
<1>1. s \in Seq(Steps) /\ t \in Seq(Steps)
  BY DEF Arranges
<1> DEFINE st == s \o t
<1>2. /\ st \in Seq(Steps) /\ Len(st) = Len(s) + Len(t)
      /\ \A i \in 1 .. Len(st) : st[i] = IF i <= Len(s) THEN s[i] ELSE t[i - Len(s)]
  BY <1>1, ConcatProperties
<1> HIDE DEF st
<1>3. /\ \A i \in 1 .. Len(s) : s[i] \in A
      /\ \A i \in 1 .. Len(t) : t[i] \in B
      /\ Len(s) \in Nat \ {0} /\ Len(t) \in Nat
  BY <1>1 DEF Arranges, ToSet
<1>4. st # <<>>
  BY <1>2, <1>3
<1>5. Sorted(st)
  <2>1. SUFFICES ASSUME NEW i \in 1 .. Len(st), NEW j \in 1 .. Len(st), i < j
                 PROVE  Rank(st[i]) < Rank(st[j])
    BY <1>2 DEF Sorted
  <2>2. CASE j <= Len(s)
    <3>1. Rank(s[i]) < Rank(s[j])
      BY <1>1, <2>1, <2>2 DEF Arranges, Sorted
    <3> QED
      BY <1>2, <2>1, <2>2, <3>1
  <2>3. CASE i > Len(s)
    <3>1. i - Len(s) \in 1 .. Len(t) /\ j - Len(s) \in 1 .. Len(t)
      BY <1>2, <1>3, <2>1, <2>3
    <3>2. Rank(t[i - Len(s)]) < Rank(t[j - Len(s)])
      BY <1>1, <1>3, <2>1, <3>1 DEF Arranges, Sorted
    <3> QED
      BY <1>2, <1>3, <2>1, <2>3, <3>2
  <2>4. CASE i <= Len(s) /\ j > Len(s)
    <3>1. i \in 1 .. Len(s) /\ j - Len(s) \in 1 .. Len(t)
      BY <1>2, <1>3, <2>1, <2>4
    <3>2. st[i] \in A /\ st[j] \in B
      BY <1>2, <1>3, <2>1, <2>4, <3>1
    <3> QED
      BY <3>2
  <2> QED
    BY <1>3, <2>1, <2>2, <2>3, <2>4
<1>6. ToSet(st) = A \cup B
  <2>1. ASSUME NEW i \in 1 .. Len(st) PROVE st[i] \in A \cup B
    <3>1. CASE i <= Len(s)
      BY <1>2, <1>3, <2>1, <3>1
    <3>2. CASE i > Len(s)
      <4>1. i - Len(s) \in 1 .. Len(t)
        BY <1>2, <1>3, <2>1, <3>2
      <4> QED
        BY <1>2, <1>3, <2>1, <3>2, <4>1
    <3> QED
      BY <1>3, <2>1, <3>1, <3>2
  <2>2. ASSUME NEW a \in A PROVE \E i \in 1 .. Len(st) : st[i] = a
    <3>1. PICK i \in 1 .. Len(s) : s[i] = a
      BY <1>1, <2>2 DEF Arranges, ToSet
    <3> QED
      BY <1>2, <1>3, <3>1
  <2>3. ASSUME NEW b \in B PROVE \E i \in 1 .. Len(st) : st[i] = b
    <3>1. PICK i \in 1 .. Len(t) : t[i] = b
      BY <1>1, <2>3 DEF Arranges, ToSet
    <3>2. Len(s) + i \in 1 .. Len(st) /\ st[Len(s) + i] = t[i]
      BY SMTT(30), <1>2, <1>3, <3>1
    <3> QED
      BY <3>1, <3>2
  <2> QED
    BY SMTT(30), <1>2, <2>1, <2>2, <2>3 DEF ToSet
<1> QED
  BY <1>2, <1>4, <1>5, <1>6 DEF Arranges, st

\* What each command has to do.
PlannedSteps(cmd, seeded) ==
  CASE cmd = "all" -> PreflightSteps \cup (IF seeded THEN LogtoSteps ELSE {})
                        \cup ApiSteps \cup WebSteps
    [] cmd = "preflight"   -> PreflightSteps
    [] cmd = "neon-create" -> {"neon"}
    [] cmd = "logto-setup" -> LogtoSteps
    [] cmd = "fly"         -> PreflightSteps \cup ApiSteps
    [] cmd = "web"         -> PreflightSteps \cup WebSteps

LEMMA Plans ==
  ASSUME NEW cmd \in Commands, NEW seeded \in BOOLEAN
  PROVE  Arranges(Plan(cmd, seeded), PlannedSteps(cmd, seeded))
<1> USE DEF PreflightSteps, LogtoSteps, ApiSteps, WebSteps, Rank
<1>1. cmd \in {"all", "preflight", "neon-create", "logto-setup", "fly", "web"}
  BY DeployEnvironment DEF CommandNames
<1>2. Arranges(Preflight \o Api, PreflightSteps \cup ApiSteps)
  BY Parts, Joined
<1>3. Arranges(Preflight \o Web, PreflightSteps \cup WebSteps)
  BY Parts, Joined
<1>4. Arranges((Preflight \o Logto) \o Api, (PreflightSteps \cup LogtoSteps) \cup ApiSteps)
  <2>1. Arranges(Preflight \o Logto, PreflightSteps \cup LogtoSteps)
    BY Parts, Joined
  <2> QED
    BY <2>1, Parts, Joined
<1>5. Arranges(((Preflight \o Logto) \o Api) \o Web,
               ((PreflightSteps \cup LogtoSteps) \cup ApiSteps) \cup WebSteps)
  BY <1>4, Parts, Joined
<1>6. Arranges((Preflight \o <<>>) \o Api \o Web, (PreflightSteps \cup ApiSteps) \cup WebSteps)
  <2>1. Preflight \o <<>> = Preflight
    BY Parts, ConcatEmptySeq DEF Arranges
  <2> QED
    BY <1>2, <2>1, Parts, Joined
<1> HIDE DEF PreflightSteps, LogtoSteps, ApiSteps, WebSteps, Rank
<1>7. CASE cmd = "all"
  BY <1>5, <1>6, <1>7 DEF Plan, PlannedSteps
<1>8. CASE cmd # "all"
  BY <1>1, <1>2, <1>3, <1>8, Parts DEF Plan, PlannedSteps
<1> QED
  BY <1>7, <1>8

-----------------------------------------------------------------------------
(* The invariant.                                                          *)

Script == [cmd : Commands \cup {None}, todo : Seq(Steps), db : {Absent} \cup Databases,
           app : {Absent} \cup AppIds, settings : Settings,
           clean : BOOLEAN, result : {"running", "ok", "failed"}]

Planned == IF script.cmd = None THEN {} ELSE PlannedSteps(script.cmd, file.seeded)
Ahead == ToSet(script.todo)

\* The run has this step behind it.
Over(step) == script.result # "failed" /\ step \in Planned \ Ahead

\* A run takes the steps of its command in their order and stops when none is
\* left.
PlanFits ==
  /\ script.result = "running" <=> script.todo # <<>>
  /\ Ahead \subseteq Planned
  /\ Sorted(script.todo)
  /\ \A step \in Planned \ Ahead, later \in Ahead : Rank(step) < Rank(later)

\* A run that may create a project has room for it.
BoundFits ==
  "neon" \in Ahead \/ ("database" \in Ahead /\ script.db = Absent) => projects < MaxProjects

\* What a step leaves for those that follow.
ValuesFit ==
  /\ Over("database") => script.db # Absent
  /\ Over("spa") \/ Over("webApp") => script.app # Absent

\* Nothing that failed can have gone unnoticed.
Answerable == script.clean \/ script.cmd = "fly"

\* What it leaves outside.
Deployed ==
  /\ Over("secrets") /\ Answerable =>
       secrets = [db |-> script.db, settings |-> script.settings]
  /\ Over("deployApi") /\ Answerable => released
  /\ Over("deployWeb") => bundle = [app |-> script.app, settings |-> script.settings,
                                    api |-> script.cmd # "all"]

\* A clean run finds what it needs and does not fail.
CleanFits ==
  script.clean =>
    /\ calm
    /\ script.result # "failed"
    /\ Over("resource") => script.settings \in resources
    /\ Over("spa") => script.app \in DOMAIN spas /\ spas[script.app] = script.settings
    /\ Over("apiApp") => "api" \in apps
    /\ Over("webApp") => "web" \in apps
    /\ "database" \in Planned => script.db # Absent \/ Neonctl
    /\ "neon" \in Planned => Neonctl
    /\ "m2mToken" \in Planned => file.seeded
    /\ "webApp" \in Planned => "spa" \in Ahead \/ script.app # Absent

Fits == PlanFits /\ BoundFits /\ ValuesFit /\ Deployed /\ CleanFits

-----------------------------------------------------------------------------
(* How a run moves.                                                        *)

LEMMA ScriptType == TypeOK => script \in Script /\ file \in EnvFile
BY DEF TypeOK, Script

\* The plan of a command that runs is not empty.
LEMMA PlannedAre ==
  ASSUME TypeOK, script.cmd # None
  PROVE  /\ Arranges(Plan(script.cmd, file.seeded), Planned)
         /\ \A step : Did(step) <=> step \in Planned
<1>1. script.cmd \in Commands /\ file.seeded \in BOOLEAN
  BY ScriptType DEF Script, EnvFile
<1>2. Arranges(Plan(script.cmd, file.seeded), PlannedSteps(script.cmd, file.seeded))
  BY <1>1, Plans
<1> QED
  BY <1>2 DEF Planned, Did, Arranges

LEMMA AtStep ==
  ASSUME TypeOK, PlanFits, NEW step, At(step)
  PROVE  /\ step \in Steps /\ step \in Ahead /\ step \in Planned
         /\ script.todo # <<>> /\ Head(script.todo) = step
         /\ script.result = "running"
         /\ script.cmd \in Commands
         /\ \A x : Over(x) => Rank(x) < Rank(step)
<1>1. script.todo \in Seq(Steps) /\ script.todo # <<>> /\ Head(script.todo) = step
  BY ScriptType DEF Script, At, PlanFits
<1>2. step \in Steps /\ step \in Ahead
  BY <1>1, HeadTailProperties DEF Ahead, ToSet
<1>3. step \in Planned
  BY <1>2 DEF PlanFits
<1>4. script.cmd \in Commands
  BY <1>3, ScriptType DEF Planned, Script
<1> QED
  BY <1>1, <1>2, <1>3, <1>4 DEF At, PlanFits, Over

\* On to the next step, with the variables as in s.
SameRun(s) ==
  /\ s \in Script
  /\ s.cmd = script.cmd /\ s.todo = script.todo /\ s.settings = script.settings
  /\ s.clean = script.clean /\ s.result = script.result

LEMMA SameScript == TypeOK => SameRun(script)
BY ScriptType DEF SameRun

LEMMA Advanced ==
  ASSUME TypeOK, PlanFits, NEW step, At(step), NEW s, SameRun(s), Advance(s),
         file'.seeded = file.seeded
  PROVE  /\ script' \in Script
         /\ script'.cmd = script.cmd /\ script'.settings = script.settings
         /\ script'.clean = script.clean
         /\ script'.db = s.db /\ script'.app = s.app
         /\ script'.result # "failed"
         /\ PlanFits'
         /\ Planned' = Planned
         /\ Ahead' = Ahead \ {step}
         /\ \A x : Over(x)' <=> Over(x) \/ x = step
<1> DEFINE todo == script.todo
           rest == Tail(todo)
<1>1. script' = [s EXCEPT !.todo = Tail(s.todo),
                          !.result = IF Tail(s.todo) = <<>> THEN "ok" ELSE s.result]
  BY DEF Advance
<1>2. todo \in Seq(Steps) /\ todo # <<>> /\ Head(todo) = step /\ script.result = "running"
  BY AtStep, ScriptType DEF Script
<1>3. /\ rest \in Seq(Steps) /\ Len(rest) = Len(todo) - 1
      /\ \A i \in 1 .. Len(rest) : rest[i] = todo[i + 1]
  BY <1>2, HeadTailProperties
<1>4. /\ script' \in Script
      /\ script'.cmd = script.cmd /\ script'.settings = script.settings
      /\ script'.clean = script.clean
      /\ script'.db = s.db /\ script'.app = s.app
      /\ script'.todo = rest
      /\ script'.result = IF rest = <<>> THEN "ok" ELSE "running"
  BY <1>1, <1>2, <1>3 DEF SameRun, Script
<1> HIDE DEF rest
<1>5. Planned' = Planned
  BY <1>4 DEF Planned
<1>6. Sorted(todo) /\ \A i \in 1 .. Len(todo) : todo[i] \in Steps
  BY <1>2 DEF PlanFits
<1>7. Sorted(rest)
  <2>1. SUFFICES ASSUME NEW i \in 1 .. Len(rest), NEW j \in 1 .. Len(rest), i < j
                 PROVE  Rank(rest[i]) < Rank(rest[j])
    BY <1>3 DEF Sorted
  <2>2. i + 1 \in DOMAIN todo /\ j + 1 \in DOMAIN todo /\ i + 1 < j + 1
    BY <1>2, <1>3, <2>1
  <2>3. Rank(todo[i + 1]) < Rank(todo[j + 1])
    BY <1>6, <2>2 DEF Sorted
  <2> QED
    BY <1>3, <2>3
<1>8. \A x \in ToSet(rest) : Rank(step) < Rank(x) /\ x \in Ahead /\ x # step
  <2>1. ASSUME NEW i \in 1 .. Len(rest) PROVE Rank(step) < Rank(rest[i]) /\ rest[i] \in Ahead
    <3>1. 1 \in DOMAIN todo /\ i + 1 \in DOMAIN todo /\ 1 < i + 1
      BY <1>2, <1>3
    <3>2. Rank(todo[1]) < Rank(todo[i + 1])
      BY <1>6, <3>1 DEF Sorted
    <3>3. todo[1] = step
      BY <1>2
    <3> QED
      BY <1>3, <3>1, <3>2, <3>3 DEF Ahead, ToSet
  <2>2. Rank(step) \in 0 .. 9
    BY AtStep, RankType
  <2>3. \A x : Rank(step) < Rank(x) => x # step
    BY <2>2
  <2> QED
    BY <1>3, <2>1, <2>3 DEF ToSet
<1>9. ToSet(rest) = Ahead \ {step}
  <2>1. ASSUME NEW x \in Ahead \ {step} PROVE x \in ToSet(rest)
    <3>1. PICK i \in 1 .. Len(todo) : todo[i] = x
      BY <1>2, <2>1 DEF Ahead, ToSet
    <3>2. i # 1
      BY <1>2, <2>1, <3>1
    <3>3. i - 1 \in 1 .. Len(rest) /\ rest[i - 1] = x
      BY <1>2, <1>3, <3>1, <3>2
    <3> QED
      BY <1>3, <3>3 DEF ToSet
  <2> QED
    BY <1>8, <2>1
<1>10. Ahead' = Ahead \ {step}
  BY <1>4, <1>9 DEF Ahead
<1>11. script'.result # "failed"
  BY <1>4
<1>12. \A x : Over(x)' <=> Over(x) \/ x = step
  BY <1>2, <1>5, <1>10, <1>11, AtStep DEF Over
<1>13. PlanFits'
  <2>1. script'.result = "running" <=> script'.todo # <<>>
    BY <1>4
  <2>2. Ahead' \subseteq Planned'
    BY <1>5, <1>10 DEF PlanFits
  <2>3. Sorted(script.todo)'
    BY <1>4, <1>7 DEF Sorted
  <2>4. \A x \in Planned' \ Ahead', later \in Ahead' : Rank(x) < Rank(later)
    <3>1. ASSUME NEW x \in Planned \ Ahead, NEW later \in Ahead PROVE Rank(x) < Rank(later)
      BY DEF PlanFits
    <3> QED
      BY <1>5, <1>8, <1>9, <1>10, <3>1
  <2> QED
    BY <2>1, <2>2, <2>3, <2>4 DEF PlanFits
<1> QED
  BY <1>4, <1>5, <1>10, <1>11, <1>12, <1>13

\* A run that fails owes nothing.
LEMMA Died ==
  ASSUME TypeOK, Fits, NEW step, At(step), Die, ~script.clean
  PROVE  script' \in Script /\ Fits'
<1>1. script' = [script EXCEPT !.todo = <<>>, !.result = "failed"]
  BY DEF Die
<1>2. script' \in Script /\ script'.todo = <<>> /\ script'.result = "failed" /\ ~script'.clean
  <2>1. script \in Script
    BY ScriptType
  <2>2. <<>> \in Seq(Steps)
    OBVIOUS
  <2>3. /\ script'.todo = <<>> /\ script'.result = "failed" /\ script'.clean = script.clean
        /\ script' \in Script
    BY <1>1, <2>1, <2>2 DEF Script
  <2> QED
    BY <2>3
<1>3. Ahead' = {}
  <2>1. DOMAIN <<>> = {}
    OBVIOUS
  <2> QED
    BY <1>2, <2>1 DEF Ahead, ToSet
<1>4. \A x : ~Over(x)'
  BY <1>2 DEF Over
<1>5. PlanFits'
  BY <1>2, <1>3 DEF PlanFits, Sorted
<1> QED
  BY <1>2, <1>3, <1>4, <1>5 DEF Fits, BoundFits, ValuesFit, Deployed, CleanFits

\* What a step that went through has just left.
Leaves(step) ==
  /\ step = "database" => script.db # Absent
  /\ step \in {"spa", "webApp"} => script.app # Absent
  /\ step = "secrets" /\ Answerable =>
       secrets = [db |-> script.db, settings |-> script.settings]
  /\ step = "deployApi" /\ Answerable => released
  /\ step = "deployWeb" => bundle = [app |-> script.app, settings |-> script.settings,
                                     api |-> script.cmd # "all"]
  /\ script.clean =>
       /\ step = "resource" => script.settings \in resources
       /\ step = "spa" => script.app \in DOMAIN spas /\ spas[script.app] = script.settings
       /\ step = "apiApp" => "api" \in apps
       /\ step = "webApp" => "web" \in apps

\* Each thing is touched by its own step only, and nothing is undone.
OnlyItsOwn(step) ==
  /\ script'.db = script.db \/ (step \in {"database", "neon"} /\ script'.db # Absent)
  /\ script'.app = script.app \/ step = "spa"
  /\ projects' = projects \/ step \in {"database", "neon"}
  /\ secrets' = secrets \/ step = "secrets"
  /\ bundle' = bundle \/ step = "deployWeb"
  /\ spas' = spas \/ step = "spa"
  /\ resources \subseteq resources' /\ apps \subseteq apps'
  /\ released => released'
  /\ calm => calm'

\* The steps behind find what they left.
LEMMA Passed ==
  ASSUME TypeOK, Fits, NEW step, At(step), NEW s, SameRun(s), Advance(s),
         file'.seeded = file.seeded, OnlyItsOwn(step), Leaves(step)'
  PROVE  Fits'
<1>1. /\ script'.cmd = script.cmd /\ script'.settings = script.settings
      /\ script'.clean = script.clean
      /\ script'.result # "failed"
      /\ PlanFits'
      /\ Planned' = Planned
      /\ Ahead' = Ahead \ {step}
      /\ \A x : Over(x)' <=> Over(x) \/ x = step
  BY Advanced DEF Fits
<1>2. step \in Steps /\ step \in Planned /\ \A x : Over(x) => Rank(x) < Rank(step)
  BY AtStep DEF Fits
<1>3. Rank(step) \in 0 .. 9
  BY <1>2, RankType
<1>4. Answerable' <=> Answerable
  BY <1>1 DEF Answerable
<1>5. BoundFits'
  <2>1. CASE step \in {"database", "neon"}
    <3>1. Rank(step) = 0
      BY <2>1 DEF Rank
    <3>2. \A x \in Ahead' : Rank(step) < Rank(x)
      BY <1>1, <1>2 DEF PlanFits
    <3>3. Rank("neon") = 0 /\ Rank("database") = 0
      BY DEF Rank
    <3>4. "neon" \notin Ahead' /\ "database" \notin Ahead'
      BY <3>1, <3>2, <3>3
    <3> QED
      BY <3>4 DEF BoundFits
  <2>2. CASE step \notin {"database", "neon"}
    BY <1>1, <2>2 DEF BoundFits, Fits, OnlyItsOwn
  <2> QED
    BY <2>1, <2>2
<1>6. ValuesFit'
  BY <1>1 DEF ValuesFit, Fits, OnlyItsOwn, Leaves
<1>7. ASSUME NEW x \in {"secrets", "deployApi", "deployWeb"}, Over(x)
      PROVE  step \notin {"database", "neon", "spa"} /\ x # step
  <2>1. Rank(x) < Rank(step)
    BY <1>2, <1>7
  <2> QED
    BY <1>3, <2>1 DEF Rank
<1>8. Deployed'
  <2>1. ASSUME Over("secrets")', Answerable
        PROVE  secrets' = [db |-> script'.db, settings |-> script'.settings]
    BY <1>1, <1>4, <1>7, <2>1 DEF Deployed, Fits, OnlyItsOwn, Leaves
  <2>2. ASSUME Over("deployApi")', Answerable PROVE released'
    BY <1>1, <1>4, <2>2 DEF Deployed, Fits, OnlyItsOwn, Leaves
  <2>3. ASSUME Over("deployWeb")'
        PROVE  bundle' = [app |-> script'.app, settings |-> script'.settings,
                          api |-> script'.cmd # "all"]
    BY <1>1, <1>7, <2>3 DEF Deployed, Fits, OnlyItsOwn, Leaves
  <2> QED
    BY <1>4, <2>1, <2>2, <2>3 DEF Deployed
<1>9. CleanFits'
  <2>1. SUFFICES ASSUME script'.clean PROVE CleanFits'
    BY DEF CleanFits
  <2>2. script.clean /\ Fits /\ CleanFits
    BY <1>1, <2>1 DEF Fits
  <2>3. Over("spa") => step # "spa"
    BY <1>2, <1>3
  <2>4. /\ calm'
        /\ Over("resource")' => script'.settings \in resources'
        /\ Over("apiApp")' => "api" \in apps'
        /\ Over("webApp")' => "web" \in apps'
    BY <1>1, <2>1, <2>2 DEF CleanFits, OnlyItsOwn, Leaves
  <2>5. Over("spa")' => script'.app \in DOMAIN spas' /\ spas'[script'.app] = script'.settings
    BY <1>1, <2>1, <2>2, <2>3 DEF CleanFits, OnlyItsOwn, Leaves
  <2>6. /\ "database" \in Planned' => script'.db # Absent \/ Neonctl
        /\ "neon" \in Planned' => Neonctl
        /\ "m2mToken" \in Planned' => file'.seeded
        /\ "webApp" \in Planned' => "spa" \in Ahead' \/ script'.app # Absent
    BY <1>1, <2>2 DEF CleanFits, OnlyItsOwn, Leaves
  <2> QED
    BY <1>1, <2>4, <2>5, <2>6 DEF CleanFits
<1> QED
  BY <1>1, <1>5, <1>6, <1>8, <1>9 DEF Fits

-----------------------------------------------------------------------------
(* Calls.                                                                  *)

\* A call that did not fail was carried out, and when all is calm none fails
\* that can be carried out.
LEMMA CallsOut ==
  ASSUME TypeOK, NEW possible, NEW x \in Called(possible)
  PROVE  /\ x \in Reply
         /\ ~x.failed => x.applied
         /\ x.applied => possible
         /\ calm /\ possible => x = Done /\ x.applied /\ ~x.failed /\ x.live
<1> DEFINE faults == IF calm THEN {} ELSE CallFaults
<1>1. x \in Replies(TRUE, faults, possible) /\ (calm => x.live)
  BY DEF Called
<1>2. x \in Reply /\ (~x.failed => x.applied)
  BY <1>1, ReplyType, CarriedOut
<1>3. x.applied => possible
  BY <1>1 DEF Replies
<1>4. ASSUME calm, possible PROVE x = Done
  <2>1. x # Refused /\ x # Lost
    BY <1>1, <1>4 DEF Replies
  <2>2. x # HungUp(TRUE) /\ x # HungUp(FALSE)
    BY <1>1, <1>4 DEF HungUp
  <2> QED
    BY <1>1, <2>1, <2>2 DEF Replies
<1>5. Done.applied /\ ~Done.failed /\ Done.live
  BY DEF Done
<1> QED
  BY <1>2, <1>3, <1>4, <1>5

\* A simple command.
LEMMA AfterCall ==
  ASSUME TypeOK, Fits, NEW possible, NEW x \in Called(possible), After(x),
         script.clean => possible
  PROVE  \/ Die /\ ~script.clean
         \/ Advance(script) /\ (Strict \/ script.clean => x.applied)
<1>1. script.clean => calm
  BY DEF Fits, CleanFits
<1>2. script.clean => ~x.failed /\ x.live
  BY <1>1, CallsOut
<1>3. ~x.failed => x.applied
  BY CallsOut
<1> QED
  BY <1>2, <1>3 DEF After

-----------------------------------------------------------------------------
(* One step at a time.                                                     *)

\* What comes before what.
LEMMA PlanOrder ==
  ASSUME TypeOK
  PROVE  /\ {"secrets", "deployApi"} \cap Planned # {} =>
              {"database", "apiApp", "secrets"} \subseteq Planned
         /\ "spa" \in Planned => "resource" \in Planned
         /\ "deployWeb" \in Planned => "webApp" \in Planned
         /\ "neon" \in Planned => script.cmd = "neon-create"
         /\ script.cmd = "neon-create" => Planned = {"neon"}
         /\ "database" \in Planned => script.cmd # "logto-setup"
<1>1. CASE script.cmd = None
  <2>1. script.cmd # "neon-create" /\ Planned = {}
    BY <1>1, ValuesAreDistinct DEF Planned, CommandNames
  <2> QED
    BY <2>1
<1>2. CASE script.cmd # None
  <2>1. script.cmd \in {"all", "preflight", "neon-create", "logto-setup", "fly", "web"}
    BY <1>2, ScriptType, DeployEnvironment DEF Script, CommandNames
  <2>2. Planned = PlannedSteps(script.cmd, file.seeded)
    BY <1>2 DEF Planned
  <2> QED
    BY <2>1, <2>2 DEF PlannedSteps, PreflightSteps, LogtoSteps, ApiSteps, WebSteps
<1> QED
  BY <1>1, <1>2

LEMMA EarlierIsOver ==
  ASSUME TypeOK, PlanFits, NEW step, At(step), NEW x \in Planned, Rank(x) < Rank(step)
  PROVE  Over(x)
<1>1. /\ script.todo \in Seq(Steps) /\ script.todo # <<>> /\ Head(script.todo) = step
      /\ script.result = "running" /\ step \in Steps
  BY AtStep, ScriptType DEF Script
<1>2. ASSUME NEW i \in DOMAIN script.todo, script.todo[i] = x PROVE FALSE
  <2>1. Rank(x) \in Int /\ Rank(step) \in Int
    BY <1>1, <1>2, RankType
  <2>2. CASE i = 1
    BY <1>1, <1>2, <2>1, <2>2
  <2>3. CASE i # 1
    <3>1. 1 \in DOMAIN script.todo /\ 1 < i /\ script.todo[1] = step
      BY <1>1, <2>3
    <3>2. Rank(step) < Rank(x)
      BY <1>2, <3>1 DEF PlanFits, Sorted
    <3> QED
      BY <2>1, <3>2
  <2> QED
    BY <2>2, <2>3
<1> QED
  BY <1>1, <1>2 DEF Over, Ahead, ToSet

\* All but the run itself stays as it is.
Elsewhere == <<file, projects, spas, resources, misread, apps, secrets, released, bundle, calm>>

LEMMA ElsewhereType == TypeOK /\ script' \in Script /\ UNCHANGED Elsewhere => TypeOK'
BY DEF TypeOK, Script, Elsewhere

LEMMA DiesFits ==
  ASSUME TypeOK, Fits, NEW step, At(step), Die, ~script.clean, UNCHANGED Elsewhere
  PROVE  TypeOK' /\ Fits'
BY Died, ElsewhereType

LEMMA GetTokenFits ==
  ASSUME TypeOK, Fits, GetToken
  PROVE  TypeOK' /\ Fits'
<1>1. PICK step \in {"flyToken", "m2mToken"} : At(step)
  BY DEF GetToken
<1>2. PICK x \in Called(TRUE) : After(x)
  BY DEF GetToken
<1>3. UNCHANGED Elsewhere
  BY DEF GetToken, neon, logto, fly, Elsewhere
<1>4. CASE Die /\ ~script.clean
  BY <1>1, <1>3, <1>4, DiesFits
<1>5. CASE Advance(script)
  <2>1. /\ script' \in Script
        /\ script'.db = script.db /\ script'.app = script.app
    BY <1>1, <1>3, <1>5, SameScript, Advanced DEF Fits, Elsewhere
  <2>2. OnlyItsOwn(step) /\ Leaves(step)'
    BY <1>1, <1>3, <2>1 DEF OnlyItsOwn, Leaves, Elsewhere
  <2> QED
    BY <1>1, <1>3, <1>5, <2>1, <2>2, SameScript, Passed, ElsewhereType DEF Elsewhere
<1> QED
  BY <1>2, <1>4, <1>5, AfterCall

LEMMA NoM2mAppFits ==
  ASSUME TypeOK, Fits, NoM2mApp
  PROVE  TypeOK' /\ Fits'
<1>1. At("m2mToken") /\ ~file.seeded /\ Die /\ UNCHANGED Elsewhere
  BY DEF NoM2mApp, neon, logto, fly, Elsewhere
<1>2. "m2mToken" \in Planned
  BY <1>1, AtStep DEF Fits
<1>3. ~script.clean
  BY <1>1, <1>2 DEF Fits, CleanFits
<1> QED
  BY <1>1, <1>3, DiesFits

\* A run's variables change alone.
LEMMA WithDb ==
  ASSUME NEW t \in Script, NEW n \in Databases
  PROVE  LET s == [t EXCEPT !.db = n] IN
         /\ s \in Script /\ s.db = n /\ s.app = t.app
         /\ s.cmd = t.cmd /\ s.todo = t.todo /\ s.settings = t.settings
         /\ s.clean = t.clean /\ s.result = t.result
BY DEF Script

LEMMA WithApp ==
  ASSUME NEW t \in Script, NEW id \in AppIds
  PROVE  LET s == [t EXCEPT !.app = id] IN
         /\ s \in Script /\ s.app = id /\ s.db = t.db
         /\ s.cmd = t.cmd /\ s.todo = t.todo /\ s.settings = t.settings
         /\ s.clean = t.clean /\ s.result = t.result
BY DEF Script

\* A project that was created is in .env and in the run's variable.
LEMMA CreateProjectFits ==
  ASSUME TypeOK, Fits, NEW step \in {"database", "neon"}, At(step), Neonctl = TRUE,
         step = "database" => script.db = Absent,
         CreateProject, UNCHANGED <<logto, fly, calm>>
  PROVE  TypeOK' /\ Fits'
<1>1. PICK x \in Called(TRUE) :
        /\ projects' = IF x.applied THEN projects + 1 ELSE projects
        /\ IF x.failed
           THEN Die /\ UNCHANGED file
           ELSE /\ file' = [file EXCEPT !.db = Written(@, projects')]
                /\ Advance([script EXCEPT !.db = projects'])
  BY DEF CreateProject
<1>2. UNCHANGED <<spas, resources, misread, apps, secrets, released, bundle, calm>>
  BY DEF logto, fly
<1>3. projects \in 0 .. MaxProjects /\ projects < MaxProjects /\ MaxProjects \in Nat
  <2>1. step \in Ahead
    BY AtStep DEF Fits
  <2> QED
    BY <2>1, DeployEnvironment DEF Fits, BoundFits, TypeOK
<1>4. projects' \in 0 .. MaxProjects
  BY <1>1, <1>3
<1>5. CASE x.failed
  <2>1. ~script.clean
    BY <1>5, CallsOut DEF Fits, CleanFits
  <2>2. Die /\ UNCHANGED file
    BY <1>1, <1>5
  <2>3. script' \in Script /\ Fits'
    BY <2>1, <2>2, Died
  <2> QED
    BY <1>2, <1>4, <2>2, <2>3 DEF TypeOK, Script
<1>6. CASE ~x.failed
  <2> DEFINE s == [script EXCEPT !.db = projects']
  <2>1. projects' \in 1 .. MaxProjects
    <3>1. x.applied
      BY <1>6, CallsOut
    <3>2. projects' = projects + 1
      BY <1>1, <3>1
    <3> QED
      BY <1>3, <3>2
  <2>2. SameRun(s) /\ s.db = projects' /\ s.app = script.app
    <3>1. projects' \in Databases /\ script \in Script
      BY <2>1, ScriptType DEF Databases
    <3> QED
      BY <3>1, WithDb, Zenon DEF SameRun
  <2>3. file' = [file EXCEPT !.db = Written(file.db, projects')]
    BY <1>1, <1>6
  <2>4. file' \in EnvFile /\ file'.seeded = file.seeded
    <3>1. Written(file.db, projects') \in {Absent, Blank} \cup Databases
      BY <2>1, ScriptType DEF Written, EnvFile, Databases
    <3> QED
      BY <2>3, <3>1, ScriptType DEF EnvFile
  <2>5. Advance(s)
    BY <1>1, <1>6
  <2> HIDE DEF s
  <2>6. script' \in Script /\ script'.db = projects' /\ script'.app = script.app
    BY <2>2, <2>4, <2>5, Advanced DEF Fits
  <2>7. projects' # Absent
    BY <2>1, ValuesAreDistinct DEF Databases
  <2>8. OnlyItsOwn(step)
    BY <1>2, <2>6, <2>7 DEF OnlyItsOwn
  <2>9. Leaves(step)'
    BY <2>6, <2>7 DEF Leaves
  <2>10. Fits'
    BY <2>2, <2>4, <2>5, <2>8, <2>9, Passed
  <2> QED
    BY <1>2, <1>4, <2>4, <2>6, <2>10 DEF TypeOK, Script
<1> QED
  BY <1>5, <1>6

LEMMA DatabaseStepFits ==
  ASSUME TypeOK, Fits, EnsureDatabase \/ NeonCreate
  PROVE  TypeOK' /\ Fits'
<1> DEFINE step == IF EnsureDatabase THEN "database" ELSE "neon"
<1>1. At(step) /\ step \in {"database", "neon"} /\ UNCHANGED <<logto, fly, calm>>
  BY DEF EnsureDatabase, NeonCreate
<1>2. step \in Planned
  BY <1>1, AtStep DEF Fits
<1>3. Neonctl \in BOOLEAN
  BY DeployEnvironment
<1>4. CASE Advance(script) /\ EnsureDatabase /\ script.db # Absent /\ UNCHANGED <<file, neon>>
  <2>1. UNCHANGED Elsewhere
    BY <1>1, <1>4 DEF neon, logto, fly, Elsewhere
  <2>2. At("database")
    BY <1>4 DEF EnsureDatabase
  <2>3. /\ script' \in Script
        /\ script'.db = script.db /\ script'.app = script.app
    BY <1>4, <2>1, <2>2, SameScript, Advanced DEF Fits, Elsewhere
  <2>4. OnlyItsOwn("database") /\ Leaves("database")'
    BY <1>4, <2>1, <2>3 DEF OnlyItsOwn, Leaves, Elsewhere
  <2> QED
    BY <1>4, <2>1, <2>2, <2>3, <2>4, SameScript, Passed, ElsewhereType DEF Elsewhere
<1>5. CASE Neonctl /\ CreateProject /\ (step = "database" => script.db = Absent)
  BY <1>1, <1>3, <1>5, CreateProjectFits
<1>6. CASE Die /\ ~Neonctl /\ (step = "database" => script.db = Absent) /\ UNCHANGED <<file, neon>>
  <2>1. UNCHANGED Elsewhere
    BY <1>1, <1>6 DEF neon, logto, fly, Elsewhere
  <2>2. ~script.clean
    BY <1>1, <1>2, <1>6 DEF Fits, CleanFits
  <2> QED
    BY <1>1, <1>6, <2>1, <2>2, DiesFits
<1> QED
  BY <1>4, <1>5, <1>6 DEF EnsureDatabase, NeonCreate

LEMMA EnsureResourceFits ==
  ASSUME TypeOK, Fits, EnsureResource
  PROVE  TypeOK' /\ Fits'
<1>1. At("resource") /\ UNCHANGED <<file, neon, spas, misread, fly, calm>>
  BY DEF EnsureResource
<1>2. UNCHANGED <<file, projects, spas, misread, apps, secrets, released, bundle, calm>>
  BY <1>1 DEF neon, fly
<1>3. script.settings \in Settings
  BY ScriptType DEF Script
<1> DEFINE there == script.settings \in resources
<1>4. PICK found \in Found(there) :
        IF found THEN Advance(script) /\ UNCHANGED resources
        ELSE \E x \in Called(~there) : \E printed \in Printed(x) :
               /\ resources' = IF x.applied THEN resources \cup {script.settings} ELSE resources
               /\ IF printed THEN Advance(script) ELSE Die
  BY DEF EnsureResource
<1>5. found = there \/ (found = FALSE /\ ~calm)
  BY <1>4 DEF Found
<1>6. resources \subseteq resources' /\ resources' \subseteq Settings
  BY <1>3, <1>4 DEF TypeOK
<1>7. \/ Die /\ ~script.clean
      \/ Advance(script) /\ (script.clean => script.settings \in resources')
  <2>1. CASE found
    BY <1>4, <1>5, <2>1
  <2>2. CASE ~found
    <3>1. PICK x \in Called(~there) : \E printed \in Printed(x) :
            /\ resources' = IF x.applied THEN resources \cup {script.settings} ELSE resources
            /\ IF printed THEN Advance(script) ELSE Die
      BY <1>4, <2>2
    <3>2. PICK printed \in Printed(x) : IF printed THEN Advance(script) ELSE Die
      BY <3>1
    <3>3. Advance(script) \/ Die
      BY <3>2
    <3>4. ASSUME script.clean PROVE Advance(script) /\ script.settings \in resources'
      <4>1. calm
        BY <3>4 DEF Fits, CleanFits
      <4>2. ~there
        BY <1>5, <2>2, <4>1
      <4>3. x = Done /\ x.applied /\ ~x.failed
        BY <4>1, <4>2, CallsOut
      <4>4. printed = TRUE
        BY <3>2, <4>3 DEF Printed, Done, Refused
      <4> QED
        BY <3>1, <3>2, <4>3, <4>4
    <3> QED
      BY <3>3, <3>4
  <2> QED
    BY <2>1, <2>2
<1>8. CASE Die /\ ~script.clean
  BY <1>1, <1>2, <1>6, <1>8, Died DEF TypeOK, Script
<1>9. CASE Advance(script) /\ (script.clean => script.settings \in resources')
  <2>1. /\ script' \in Script /\ script'.settings = script.settings
        /\ script'.clean = script.clean
        /\ script'.db = script.db /\ script'.app = script.app
    BY <1>1, <1>2, <1>9, SameScript, Advanced DEF Fits
  <2>2. OnlyItsOwn("resource") /\ Leaves("resource")'
    BY <1>2, <1>6, <1>9, <2>1 DEF OnlyItsOwn, Leaves
  <2>3. Fits'
    BY <1>1, <1>2, <1>9, <2>2, SameScript, Passed
  <2> QED
    BY <1>2, <1>6, <2>1, <2>3 DEF TypeOK, Script
<1> QED
  BY <1>7, <1>8, <1>9

\* The application that is used is in the run's variable, and if the run is
\* clean it is there and synced.
LEMMA UseSpaFits ==
  ASSUME TypeOK, Fits, At("spa"), NEW id \in AppIds, UseSpa(id),
         UNCHANGED <<projects, resources, apps, secrets, released, bundle, calm>>,
         misread' \in BOOLEAN, spas' \in Seq(Settings), Len(spas') <= MaxSpas,
         script.clean => id \in DOMAIN spas' /\ spas'[id] = script.settings
  PROVE  TypeOK' /\ Fits'
<1> DEFINE s == [script EXCEPT !.app = id]
<1>1. file' = [file EXCEPT !.app = Written(file.app, id)] /\ Advance(s)
  BY DEF UseSpa
<1>2. SameRun(s) /\ s.db = script.db /\ s.app = id
  <2>1. script \in Script
    BY ScriptType
  <2> QED
    BY <2>1, WithApp, Zenon DEF SameRun
<1> HIDE DEF s
<1>3. file' \in EnvFile /\ file'.seeded = file.seeded
  <2>1. file \in EnvFile
    BY ScriptType
  <2>2. Written(file.app, id) \in {Absent, Blank} \cup AppIds
    BY <2>1 DEF Written, EnvFile
  <2> QED
    BY <1>1, <2>1, <2>2 DEF EnvFile
<1>4. /\ script' \in Script /\ script'.settings = script.settings
      /\ script'.clean = script.clean
      /\ script'.db = script.db /\ script'.app = id
  BY <1>1, <1>2, <1>3, Advanced DEF Fits
<1>5. id # Absent
  BY ValuesAreDistinct
<1>6. OnlyItsOwn("spa")
  BY <1>4 DEF OnlyItsOwn
<1>7. Leaves("spa")'
  BY <1>4, <1>5 DEF Leaves
<1>8. Fits'
  BY <1>1, <1>2, <1>3, <1>6, <1>7, Passed
<1> QED
  BY <1>3, <1>4, <1>8 DEF TypeOK, Script

LEMMA CreateSpaFits ==
  ASSUME TypeOK, Fits, At("spa"), CreateSpa, Len(spas) < MaxSpas,
         UNCHANGED <<projects, resources, apps, secrets, released, bundle, calm>>,
         misread' \in BOOLEAN
  PROVE  TypeOK' /\ Fits'
<1>1. PICK x \in Called(TRUE) : \E printed \in Printed(x) :
        /\ spas' = IF x.applied THEN Append(spas, script.settings) ELSE spas
        /\ IF ~printed THEN Die /\ UNCHANGED file
           ELSE UseSpa(IF x.failed THEN Null ELSE Len(spas'))
  BY DEF CreateSpa
<1>2. PICK printed \in Printed(x) :
        IF ~printed THEN Die /\ UNCHANGED file
        ELSE UseSpa(IF x.failed THEN Null ELSE Len(spas'))
  BY <1>1
<1>3. spas \in Seq(Settings) /\ Len(spas) \in Nat /\ script.settings \in Settings
  BY ScriptType DEF TypeOK, Script
<1>4. MaxSpas \in Nat
  BY DeployEnvironment
<1> DEFINE longer == Append(spas, script.settings)
<1>5. /\ longer \in Seq(Settings) /\ Len(longer) = Len(spas) + 1
      /\ longer[Len(longer)] = script.settings /\ DOMAIN longer = 1 .. Len(longer)
  BY <1>3, AppendProperties
<1> HIDE DEF longer
<1>6. spas' = longer \/ spas' = spas
  BY <1>1 DEF longer
<1>7. spas' \in Seq(Settings) /\ Len(spas') <= MaxSpas
  BY <1>3, <1>4, <1>5, <1>6
<1>8. x.applied => spas' = longer
  BY <1>1 DEF longer
<1>9. script.clean => ~x.failed /\ printed = TRUE
  <2>1. SUFFICES ASSUME script.clean PROVE ~x.failed /\ printed = TRUE
    OBVIOUS
  <2>2. calm
    BY <2>1 DEF Fits, CleanFits
  <2>3. x = Done /\ ~x.failed
    BY <2>2, CallsOut
  <2> QED
    BY <1>2, <2>3 DEF Printed, Done, Refused
<1>10. CASE ~printed
  <2>1. ~script.clean /\ Die /\ UNCHANGED file
    BY <1>2, <1>9, <1>10
  <2>2. script' \in Script /\ Fits'
    BY <2>1, Died
  <2> QED
    BY <1>7, <2>1, <2>2 DEF TypeOK, Script
<1>11. CASE printed /\ x.failed
  <2>1. UseSpa(Null) /\ ~script.clean
    BY <1>2, <1>9, <1>11
  <2>2. Null \in AppIds
    BY DEF AppIds
  <2> QED
    BY <1>7, <2>1, <2>2, UseSpaFits
<1>12. CASE printed /\ ~x.failed
  <2>1. spas' = longer
    BY <1>8, <1>12, CallsOut
  <2> DEFINE id == Len(longer)
  <2>2. UseSpa(id)
    BY <1>2, <1>12, <2>1
  <2>3. id \in 1 .. MaxSpas
    BY <1>3, <1>4, <1>5
  <2>4. id \in AppIds /\ id \in DOMAIN spas' /\ spas'[id] = script.settings
    BY <1>3, <1>5, <2>1, <2>3 DEF AppIds
  <2> HIDE DEF id
  <2> QED
    BY <1>7, <2>2, <2>4, UseSpaFits
<1> QED
  BY <1>10, <1>11, <1>12

LEMMA SyncSpaFits ==
  ASSUME TypeOK, Fits, At("spa"), SyncSpa,
         UNCHANGED <<projects, resources, apps, secrets, released, bundle, calm>>,
         misread' \in BOOLEAN
  PROVE  TypeOK' /\ Fits'
<1>1. PICK id \in DOMAIN spas : \E x \in Called(TRUE) :
        /\ spas' = IF x.applied THEN [spas EXCEPT ![id] = script.settings] ELSE spas
        /\ \E unanswered \in IF x = Refused THEN BOOLEAN ELSE {x.failed} :
             IF x.live /\ x.failed = unanswered THEN UseSpa(id) ELSE Die /\ UNCHANGED file
  BY DEF SyncSpa
<1>2. PICK x \in Called(TRUE) :
        /\ spas' = IF x.applied THEN [spas EXCEPT ![id] = script.settings] ELSE spas
        /\ \E unanswered \in IF x = Refused THEN BOOLEAN ELSE {x.failed} :
             IF x.live /\ x.failed = unanswered THEN UseSpa(id) ELSE Die /\ UNCHANGED file
  BY <1>1
<1>3. PICK unanswered \in IF x = Refused THEN BOOLEAN ELSE {x.failed} :
        IF x.live /\ x.failed = unanswered THEN UseSpa(id) ELSE Die /\ UNCHANGED file
  BY <1>2
<1>4. /\ spas \in Seq(Settings) /\ Len(spas) <= MaxSpas /\ script.settings \in Settings
      /\ id \in 1 .. Len(spas)
  BY ScriptType DEF TypeOK, Script
<1> DEFINE synced == [spas EXCEPT ![id] = script.settings]
<1>5. synced \in Seq(Settings) /\ Len(synced) = Len(spas) /\ synced[id] = script.settings
  BY <1>4, ExceptSeq
<1> HIDE DEF synced
<1>6. spas' = synced \/ spas' = spas
  BY <1>2 DEF synced
<1>7. spas' \in Seq(Settings) /\ Len(spas') <= MaxSpas
  BY <1>4, <1>5, <1>6
<1>8. MaxSpas \in Nat /\ Len(spas) \in Nat
  BY <1>4, DeployEnvironment
<1>9. id \in AppIds
  BY <1>4, <1>8 DEF AppIds
<1>10. script.clean => /\ x.live /\ x.failed = unanswered
                       /\ id \in DOMAIN spas' /\ spas'[id] = script.settings
  <2>1. SUFFICES ASSUME script.clean
                 PROVE  /\ x.live /\ x.failed = unanswered
                        /\ id \in DOMAIN spas' /\ spas'[id] = script.settings
    OBVIOUS
  <2>2. calm
    BY <2>1 DEF Fits, CleanFits
  <2>3. x = Done /\ x.applied /\ ~x.failed /\ x.live
    BY <2>2, CallsOut
  <2>4. x # Refused
    BY <2>3 DEF Done, Refused
  <2>5. unanswered = x.failed
    BY <1>3, <2>4
  <2>6. spas' = synced
    BY <1>2, <2>3 DEF synced
  <2> QED
    BY <1>4, <1>5, <2>3, <2>5, <2>6
<1>11. CASE x.live /\ x.failed = unanswered
  <2>1. UseSpa(id)
    BY <1>3, <1>11
  <2> QED
    BY <1>7, <1>9, <1>10, <2>1, UseSpaFits
<1>12. CASE ~(x.live /\ x.failed = unanswered)
  <2>1. Die /\ UNCHANGED file /\ ~script.clean
    BY <1>3, <1>10, <1>12
  <2>2. script' \in Script /\ Fits'
    BY <2>1, Died
  <2> QED
    BY <1>7, <2>1, <2>2 DEF TypeOK, Script
<1> QED
  BY <1>11, <1>12

LEMMA EnsureSpaFits ==
  ASSUME TypeOK, Fits, EnsureSpa
  PROVE  TypeOK' /\ Fits'
<1>1. At("spa") /\ UNCHANGED <<projects, resources, apps, secrets, released, bundle, calm>>
  BY DEF EnsureSpa, neon, fly
<1>2. PICK found \in Found(spas # <<>>) :
        /\ found \/ Len(spas) < MaxSpas
        /\ IF found THEN SyncSpa ELSE CreateSpa
        /\ misread' = (misread \/ found # (spas # <<>>))
  BY DEF EnsureSpa
<1>3. misread' \in BOOLEAN
  BY <1>2
<1>4. CASE found
  BY <1>1, <1>2, <1>3, <1>4, SyncSpaFits
<1>5. CASE ~found
  BY <1>1, <1>2, <1>3, <1>5, CreateSpaFits
<1> QED
  BY <1>4, <1>5

LEMMA EnsureAppFits ==
  ASSUME TypeOK, Fits, NEW step, NEW app,
         <<step, app>> \in {<<"apiApp", "api">>, <<"webApp", "web">>}, At(step), EnsureApp(app),
         step = "webApp" => script.app # Absent,
         UNCHANGED <<file, projects, spas, resources, misread, secrets, released, bundle, calm>>
  PROVE  TypeOK' /\ Fits'
<1> DEFINE there == app \in apps
<1>1. PICK found \in Found(there) :
        IF found THEN Advance(script) /\ UNCHANGED apps
        ELSE \E x \in Called(app \notin apps) :
               /\ apps' = IF x.applied THEN apps \cup {app} ELSE apps
               /\ After(x)
  BY DEF EnsureApp
<1>2. found = there \/ (found = FALSE /\ ~calm)
  BY <1>1 DEF Found
<1>3. /\ step \in {"apiApp", "webApp"} /\ app \in {"api", "web"}
      /\ step = "apiApp" => app = "api"
      /\ step = "webApp" => app = "web"
  OBVIOUS
<1>4. apps \subseteq apps' /\ apps' \subseteq {"api", "web"}
  BY <1>1, <1>3 DEF TypeOK
<1>5. \/ Die /\ ~script.clean
      \/ Advance(script) /\ (script.clean => app \in apps')
  <2>1. CASE found
    BY <1>1, <1>2, <2>1
  <2>2. CASE ~found
    <3>1. PICK x \in Called(app \notin apps) :
            /\ apps' = IF x.applied THEN apps \cup {app} ELSE apps
            /\ After(x)
      BY <1>1, <2>2
    <3>2. script.clean => app \notin apps
      BY <1>2, <2>2 DEF Fits, CleanFits
    <3>3. \/ Die /\ ~script.clean
          \/ Advance(script) /\ (Strict \/ script.clean => x.applied)
      BY <3>1, <3>2, AfterCall
    <3> QED
      BY <3>1, <3>3
  <2> QED
    BY <2>1, <2>2
<1>6. CASE Die /\ ~script.clean
  BY <1>4, <1>6, Died DEF TypeOK, Script
<1>7. CASE Advance(script) /\ (script.clean => app \in apps')
  <2>1. /\ script' \in Script /\ script'.settings = script.settings
        /\ script'.clean = script.clean
        /\ script'.db = script.db /\ script'.app = script.app
    BY <1>7, SameScript, Advanced DEF Fits
  <2>2. OnlyItsOwn(step)
    BY <1>4, <2>1 DEF OnlyItsOwn
  <2>3. Leaves(step)'
    BY <1>3, <1>7, <2>1 DEF Leaves
  <2>4. Fits'
    BY <1>7, <2>2, <2>3, SameScript, Passed
  <2> QED
    BY <1>4, <2>1, <2>4 DEF TypeOK, Script
<1> QED
  BY <1>5, <1>6, <1>7

LEMMA AppStepFits ==
  ASSUME TypeOK, Fits, EnsureApiApp \/ EnsureWebApp
  PROVE  TypeOK' /\ Fits'
<1>1. CASE EnsureApiApp
  <2>1. /\ At("apiApp") /\ EnsureApp("api")
        /\ UNCHANGED <<file, projects, spas, resources, misread, secrets, released, bundle, calm>>
    BY <1>1 DEF EnsureApiApp, neon, logto
  <2> QED
    BY <2>1, EnsureAppFits
<1>2. CASE EnsureWebApp
  <2>1. /\ At("webApp")
        /\ UNCHANGED <<file, projects, spas, resources, misread, secrets, released, bundle, calm>>
        /\ IF script.app = Absent THEN Die /\ UNCHANGED apps ELSE EnsureApp("web")
    BY <1>2 DEF EnsureWebApp, neon, logto
  <2>2. CASE script.app # Absent
    BY <2>1, <2>2, EnsureAppFits
  <2>3. CASE script.app = Absent
    <3>1. ~script.clean
      <4>1. "webApp" \in Planned /\ (script.clean => CleanFits)
        BY <2>1, AtStep DEF Fits
      <4>2. "spa" \in Planned => Over("spa")
        BY <2>1, EarlierIsOver DEF Fits, Rank
      <4>3. "spa" \notin Ahead
        BY <4>2 DEF Over, Fits, PlanFits
      <4> QED
        BY <2>3, <4>1, <4>3 DEF CleanFits
    <3> QED
      BY <2>1, <2>3, <3>1, DiesFits DEF Elsewhere
  <2> QED
    BY <2>2, <2>3
<1> QED
  BY <1>1, <1>2

\* The API's steps follow the database and its app.
LEMMA ApiFinds ==
  ASSUME TypeOK, Fits, NEW step \in {"secrets", "deployApi"}, At(step)
  PROVE  /\ script.db \in Databases
         /\ script.clean => "api" \in apps
         /\ Answerable => Strict \/ script.clean
<1>1. step \in Planned /\ PlanFits
  BY AtStep DEF Fits
<1>2. {"database", "apiApp"} \subseteq Planned
  BY <1>1, PlanOrder
<1>3. Over("database") /\ Over("apiApp")
  BY <1>1, <1>2, EarlierIsOver DEF Rank
<1>4. script.db \in Databases
  BY <1>3, ScriptType DEF Fits, ValuesFit, Script
<1>5. script.clean => "api" \in apps
  BY <1>3 DEF Fits, CleanFits
<1>6. Answerable => Strict \/ script.clean
  BY DEF Answerable, Strict
<1> QED
  BY <1>4, <1>5, <1>6

LEMMA SetSecretsFits ==
  ASSUME TypeOK, Fits, SetSecrets
  PROVE  TypeOK' /\ Fits'
<1>1. /\ At("secrets")
      /\ UNCHANGED <<file, projects, spas, resources, misread, apps, released, bundle, calm>>
  BY DEF SetSecrets, neon, logto
<1> DEFINE given == [db |-> script.db, settings |-> script.settings]
<1>2. PICK x \in Called("api" \in apps) :
        secrets' = (IF x.applied THEN given ELSE secrets) /\ After(x)
  BY DEF SetSecrets
<1>3. /\ script.db \in Databases
      /\ script.clean => "api" \in apps
      /\ Answerable => Strict \/ script.clean
  BY <1>1, ApiFinds
<1>4. secrets' \in {None} \cup Secret
  BY <1>2, <1>3, ScriptType DEF TypeOK, Script, Secret
<1>5. \/ Die /\ ~script.clean
      \/ Advance(script) /\ (Strict \/ script.clean => x.applied)
  BY <1>2, <1>3, AfterCall
<1>6. CASE Die /\ ~script.clean
  BY <1>1, <1>4, <1>6, Died DEF TypeOK, Script
<1>7. CASE Advance(script) /\ (Strict \/ script.clean => x.applied)
  <2>1. /\ script' \in Script /\ script'.settings = script.settings
        /\ script'.cmd = script.cmd /\ script'.clean = script.clean
        /\ script'.db = script.db /\ script'.app = script.app
    BY <1>1, <1>7, SameScript, Advanced DEF Fits
  <2>2. OnlyItsOwn("secrets")
    BY <1>1, <2>1 DEF OnlyItsOwn
  <2>3. Leaves("secrets")'
    BY <1>2, <1>3, <1>7, <2>1 DEF Leaves, Answerable
  <2>4. Fits'
    BY <1>1, <1>7, <2>2, <2>3, SameScript, Passed
  <2> QED
    BY <1>1, <1>4, <2>1, <2>4 DEF TypeOK, Script
<1> QED
  BY <1>5, <1>6, <1>7

LEMMA DeployApiFits ==
  ASSUME TypeOK, Fits, DeployApi
  PROVE  TypeOK' /\ Fits'
<1>1. /\ At("deployApi")
      /\ UNCHANGED <<file, projects, spas, resources, misread, apps, secrets, bundle, calm>>
  BY DEF DeployApi, neon, logto
<1>2. PICK x \in Called("api" \in apps) : released' = (released \/ x.applied) /\ After(x)
  BY DEF DeployApi
<1>3. /\ script.clean => "api" \in apps
      /\ Answerable => Strict \/ script.clean
  BY <1>1, ApiFinds
<1>4. released' \in BOOLEAN
  BY <1>2
<1>5. \/ Die /\ ~script.clean
      \/ Advance(script) /\ (Strict \/ script.clean => x.applied)
  BY <1>2, <1>3, AfterCall
<1>6. CASE Die /\ ~script.clean
  BY <1>1, <1>4, <1>6, Died DEF TypeOK, Script
<1>7. CASE Advance(script) /\ (Strict \/ script.clean => x.applied)
  <2>1. /\ script' \in Script /\ script'.settings = script.settings
        /\ script'.cmd = script.cmd /\ script'.clean = script.clean
        /\ script'.db = script.db /\ script'.app = script.app
    BY <1>1, <1>7, SameScript, Advanced DEF Fits
  <2>2. OnlyItsOwn("deployApi")
    BY <1>1, <1>2, <2>1 DEF OnlyItsOwn
  <2>3. Leaves("deployApi")'
    BY <1>2, <1>3, <1>7, <2>1 DEF Leaves, Answerable
  <2>4. Fits'
    BY <1>1, <1>7, <2>2, <2>3, SameScript, Passed
  <2> QED
    BY <1>1, <1>4, <2>1, <2>4 DEF TypeOK, Script
<1> QED
  BY <1>5, <1>6, <1>7

LEMMA DeployWebFits ==
  ASSUME TypeOK, Fits, DeployWeb
  PROVE  TypeOK' /\ Fits'
<1>1. /\ At("deployWeb")
      /\ UNCHANGED <<file, projects, spas, resources, misread, apps, secrets, released, calm>>
  BY DEF DeployWeb, neon, logto
<1> DEFINE built == [app |-> script.app, settings |-> script.settings,
                     api |-> script.cmd # "all"]
<1>2. PICK x \in Called("web" \in apps) :
        bundle' = (IF x.applied THEN built ELSE bundle) /\ After(x)
  BY DEF DeployWeb
<1>3. Over("webApp")
  <2>1. "deployWeb" \in Planned /\ PlanFits
    BY <1>1, AtStep DEF Fits
  <2> QED
    BY <1>1, <2>1, PlanOrder, EarlierIsOver DEF Rank
<1>4. script.app \in AppIds
  BY <1>3, ScriptType DEF Fits, ValuesFit, Script
<1>5. script.clean => "web" \in apps
  BY <1>3 DEF Fits, CleanFits
<1>6. Strict
  <2>1. Head(script.todo) = "deployWeb"
    BY <1>1, AtStep DEF Fits
  <2> QED
    BY <2>1, PartSets DEF Strict, ApiSteps
<1>7. bundle' \in {None} \cup Bundle
  <2>1. built \in Bundle
    BY <1>4, ScriptType DEF Script, Bundle
  <2> QED
    BY <1>2, <2>1 DEF TypeOK
<1>8. \/ Die /\ ~script.clean
      \/ Advance(script) /\ x.applied
  BY <1>2, <1>5, <1>6, AfterCall
<1>9. CASE Die /\ ~script.clean
  BY <1>1, <1>7, <1>9, Died DEF TypeOK, Script
<1>10. CASE Advance(script) /\ x.applied
  <2>1. /\ script' \in Script /\ script'.settings = script.settings
        /\ script'.cmd = script.cmd /\ script'.clean = script.clean
        /\ script'.db = script.db /\ script'.app = script.app
    BY <1>1, <1>10, SameScript, Advanced DEF Fits
  <2>2. OnlyItsOwn("deployWeb")
    BY <1>1, <2>1 DEF OnlyItsOwn
  <2>3. Leaves("deployWeb")'
    BY <1>2, <1>10, <2>1 DEF Leaves
  <2>4. Fits'
    BY <1>1, <1>10, <2>2, <2>3, SameScript, Passed
  <2> QED
    BY <1>1, <1>7, <2>1, <2>4 DEF TypeOK, Script
<1> QED
  BY <1>8, <1>9, <1>10

LEMMA StartFits ==
  ASSUME TypeOK, Fits, NEW cmd \in Commands, Start(cmd)
  PROVE  TypeOK' /\ Fits'
<1> DEFINE plan == Plan(cmd, file.seeded)
           run == [cmd |-> cmd, todo |-> plan, db |-> Value(file.db),
                   app |-> Value(file.app), settings |-> file.settings,
                   clean |-> calm /\ Prepared(cmd), result |-> "running"]
<1>1. /\ script' = run
      /\ UNCHANGED Elsewhere
      /\ \/ cmd = "neon-create"
         \/ Value(file.db) = Absent /\ cmd # "logto-setup"
         => projects < MaxProjects
  BY DEF Start, neon, logto, fly, Elsewhere
<1>2. file \in EnvFile /\ file.seeded \in BOOLEAN
  BY ScriptType DEF EnvFile
<1>3. /\ plan \in Seq(Steps) /\ plan # <<>> /\ Sorted(plan)
      /\ ToSet(plan) = PlannedSteps(cmd, file.seeded)
  BY <1>2, Plans DEF Arranges
<1> HIDE DEF plan
<1>4. script' \in Script
  <2>1. /\ Value(file.db) \in {Absent} \cup Databases
        /\ Value(file.app) \in {Absent} \cup AppIds
        /\ file.settings \in Settings
    BY <1>2 DEF Value, EnvFile
  <2>2. (calm /\ Prepared(cmd)) \in BOOLEAN
    OBVIOUS
  <2> QED
    BY <1>1, <1>3, <2>1, <2>2 DEF Script
<1>5. cmd # None
  BY DeployEnvironment, ValuesAreDistinct
<1>6. /\ script'.cmd = cmd /\ script'.todo = plan /\ script'.result = "running"
      /\ script'.db = Value(file.db) /\ script'.app = Value(file.app)
      /\ script'.clean = (calm /\ Prepared(cmd))
  BY <1>1
<1>7. Planned' = ToSet(plan) /\ Ahead' = ToSet(plan)
  BY <1>1, <1>3, <1>5, <1>6 DEF Planned, Ahead, Elsewhere
<1>8. \A x : ~Over(x)'
  BY <1>7 DEF Over
<1>9. PlanFits'
  BY <1>3, <1>6, <1>7 DEF PlanFits, Sorted
<1>10. BoundFits'
  <2>1. /\ "neon" \in Planned' => cmd = "neon-create"
        /\ "database" \in Planned' => cmd # "logto-setup"
    <3>1. cmd \in {"all", "preflight", "neon-create", "logto-setup", "fly", "web"}
      BY DeployEnvironment DEF CommandNames
    <3> QED
      BY <1>3, <1>7, <3>1 DEF PlannedSteps, PreflightSteps, LogtoSteps, ApiSteps, WebSteps
  <2> QED
    BY <1>1, <1>6, <1>7, <2>1 DEF BoundFits, Elsewhere
<1>11. ValuesFit' /\ Deployed'
  BY <1>8 DEF ValuesFit, Deployed
<1>12. CleanFits'
  <2>1. SUFFICES ASSUME script'.clean PROVE CleanFits'
    BY DEF CleanFits
  <2>2. calm /\ Prepared(cmd)
    BY <1>6, <2>1
  <2>3. /\ "database" \in ToSet(plan) => Value(file.db) # Absent \/ Neonctl
        /\ "neon" \in ToSet(plan) => Neonctl
        /\ "m2mToken" \in ToSet(plan) => file.seeded
        /\ "webApp" \in ToSet(plan) => "spa" \in ToSet(plan) \/ Value(file.app) # Absent
    BY <2>2 DEF Prepared, plan
  <2>4. calm' /\ script'.result # "failed" /\ file' = file
    BY <1>1, <1>6, <2>2 DEF Elsewhere
  <2> QED
    BY <1>6, <1>7, <1>8, <2>3, <2>4 DEF CleanFits
<1> QED
  BY <1>1, <1>4, <1>9, <1>10, <1>11, <1>12, ElsewhereType DEF Fits

\* Between two steps nothing changes but the settings in .env and the weather.
LEMMA IdleFits ==
  ASSUME TypeOK, Fits, file' \in EnvFile, file'.seeded = file.seeded,
         UNCHANGED <<script, projects, spas, resources, misread, apps, secrets, released, bundle>>,
         calm' \in BOOLEAN, calm => calm'
  PROVE  TypeOK' /\ Fits'
<1>1. TypeOK'
  BY DEF TypeOK
<1>2. Planned' = Planned /\ Ahead' = Ahead /\ (Answerable' <=> Answerable)
  BY DEF Planned, Ahead, Answerable
<1>3. \A x : Over(x)' <=> Over(x)
  BY <1>2 DEF Over
<1>4. PlanFits'
  BY <1>2 DEF Fits, PlanFits, Sorted
<1>5. BoundFits' /\ ValuesFit' /\ Deployed'
  BY <1>2, <1>3 DEF Fits, BoundFits, ValuesFit, Deployed
<1>6. CleanFits'
  BY <1>2, <1>3 DEF Fits, CleanFits
<1> QED
  BY <1>1, <1>4, <1>5, <1>6 DEF Fits

LEMMA InitFits == Init => TypeOK /\ Fits
<1>1. SUFFICES ASSUME Init PROVE TypeOK /\ Fits
  OBVIOUS
<1>2. script = [cmd |-> None, todo |-> <<>>, db |-> Absent, app |-> Absent,
                settings |-> 1, clean |-> FALSE, result |-> "ok"]
  BY <1>1 DEF Init
<1>3. 1 \in Settings /\ MaxProjects \in Nat /\ MaxSpas \in Nat
  BY DeployEnvironment DEF Settings
<1>4. <<>> \in Seq(Steps) /\ <<>> \in Seq(Settings) /\ Len(<<>>) = 0 /\ DOMAIN <<>> = {}
  OBVIOUS
<1>5. script \in Script
  BY <1>2, <1>3, <1>4 DEF Script
<1>6. TypeOK
  <2>1. file \in EnvFile
    BY <1>1, DeployEnvironment DEF Init
  <2>2. spas \in Seq(Settings) /\ Len(spas) <= MaxSpas
    BY <1>1, <1>3, <1>4 DEF Init
  <2>3. projects \in 0 .. MaxProjects /\ {released, calm, misread} \subseteq BOOLEAN
    <3>1. projects = 0 /\ 0 \in 0 .. MaxProjects
      BY <1>1, <1>3 DEF Init
    <3>2. released = FALSE /\ calm = FALSE /\ misread = FALSE
      BY <1>1 DEF Init
    <3> QED
      BY <3>1, <3>2
  <2>4. /\ resources \subseteq Settings /\ apps \subseteq {"api", "web"}
        /\ secrets \in {None} \cup Secret /\ bundle \in {None} \cup Bundle
    BY <1>1 DEF Init
  <2> QED
    BY <1>5, <2>1, <2>2, <2>3, <2>4 DEF TypeOK, Script
<1>7. Planned = {} /\ Ahead = {}
  BY <1>2, <1>4 DEF Planned, Ahead, ToSet
<1>8. \A x : ~Over(x)
  BY <1>7 DEF Over
<1>9. PlanFits
  BY <1>2, <1>4, <1>7 DEF PlanFits, Sorted
<1> QED
  BY <1>2, <1>6, <1>7, <1>8, <1>9 DEF Fits, BoundFits, ValuesFit, Deployed, CleanFits

LEMMA StepFits == TypeOK /\ Fits /\ [Next]_vars => TypeOK' /\ Fits'
<1>1. SUFFICES ASSUME TypeOK, Fits, [Next]_vars PROVE TypeOK' /\ Fits'
  OBVIOUS
<1>2. ASSUME NEW cmd \in Commands, Start(cmd) PROVE TypeOK' /\ Fits'
  BY <1>1, <1>2, StartFits
<1>3. ASSUME EditSettings PROVE TypeOK' /\ Fits'
  <2>1. file \in EnvFile /\ MaxSettings \in Nat
    BY <1>1, ScriptType, DeployEnvironment
  <2>2. file' \in EnvFile /\ file'.seeded = file.seeded
    BY <1>3, <2>1 DEF EditSettings, EnvFile, Settings
  <2>3. calm' = calm /\ calm \in BOOLEAN
    BY <1>1, <1>3 DEF EditSettings, TypeOK
  <2> QED
    BY <1>1, <1>3, <2>2, <2>3, IdleFits DEF EditSettings, neon, logto, fly
<1>4. ASSUME Recover PROVE TypeOK' /\ Fits'
  BY <1>1, <1>4, ScriptType, IdleFits DEF Recover, neon, logto, fly
<1>5. ASSUME Step PROVE TypeOK' /\ Fits'
  BY <1>1, <1>5, DatabaseStepFits, GetTokenFits, NoM2mAppFits, EnsureResourceFits,
     EnsureSpaFits, AppStepFits, SetSecretsFits, DeployApiFits, DeployWebFits DEF Step
<1>6. ASSUME UNCHANGED vars PROVE TypeOK' /\ Fits'
  <2>1. calm' = calm /\ calm \in BOOLEAN
    BY <1>1, <1>6 DEF vars, TypeOK
  <2> QED
    BY <1>1, <1>6, <2>1, ScriptType, IdleFits DEF vars, neon, logto, fly
<1> QED
  BY <1>1, <1>2, <1>3, <1>4, <1>5, <1>6 DEF Next

-----------------------------------------------------------------------------
(* What the script promises.                                               *)

\* Whatever fails, what the script keeps and what it leaves at Neon, Logto and
\* Fly are what they should be.
THEOREM DeployTyped == Spec => []TypeOK
<1>1. Init => TypeOK /\ Fits
  BY InitFits
<1>2. (TypeOK /\ Fits) /\ [Next]_vars => (TypeOK /\ Fits)'
  BY StepFits
<1> QED
  BY <1>1, <1>2, PTL DEF Spec

LEMMA RunsFit == Spec => [](TypeOK /\ Fits)
<1>1. Init => TypeOK /\ Fits
  BY InitFits
<1>2. (TypeOK /\ Fits) /\ [Next]_vars => (TypeOK /\ Fits)'
  BY StepFits
<1> QED
  BY <1>1, <1>2, PTL DEF Spec

\* A run that has ended well has all its steps behind it.
LEMMA Ended ==
  ASSUME TypeOK, Fits, script.result = "ok"
  PROVE  /\ \A step : Did(step) => Over(step)
         /\ script.cmd = "fly" => Over("secrets") /\ Over("deployApi")
         /\ script.cmd = "web" => Over("deployWeb")
<1>1. Ahead = {}
  <2>1. script.todo = <<>>
    BY DEF Fits, PlanFits
  <2>2. DOMAIN <<>> = {}
    OBVIOUS
  <2> QED
    BY <2>1, <2>2 DEF Ahead, ToSet
<1>2. \A step : Did(step) => Over(step)
  BY <1>1, PlannedAre DEF Did, Over
<1>3. script.cmd \in {"fly", "web"} => Planned = PlannedSteps(script.cmd, file.seeded)
  BY ValuesAreDistinct, Zenon DEF Planned, CommandNames
<1>4. script.cmd = "fly" => {"secrets", "deployApi"} \subseteq Planned
  BY <1>3 DEF PlannedSteps, ApiSteps
<1>5. script.cmd = "web" => "deployWeb" \in Planned
  BY <1>3 DEF PlannedSteps, WebSteps
<1> QED
  BY <1>1, <1>2, <1>4, <1>5 DEF Over

\* A bundle that was deployed at the end of a run is there.
LEMMA BundleIsThere ==
  ASSUME TypeOK, Fits, Over("deployWeb"), script.result = "ok"
  PROVE  WebIsUp /\ bundle.api = (script.cmd # "all")
<1>1. bundle = [app |-> script.app, settings |-> script.settings, api |-> script.cmd # "all"]
  BY DEF Fits, Deployed
<1>2. Over("webApp")
  <2>1. "deployWeb" \in Planned
    BY DEF Over
  <2>2. "webApp" \in Planned
    BY <2>1, PlanOrder
  <2>3. script.cmd # None
    BY <2>1 DEF Planned
  <2> QED
    BY <2>2, <2>3, Ended, PlannedAre
<1>3. bundle \in Bundle
  BY <1>1, <1>2, ScriptType DEF Fits, ValuesFit, Script, Bundle
<1> QED
  BY <1>1, <1>3, ValuesAreDistinct DEF WebIsUp

\* Commands fly and web that end well have deployed what they say (fly_deploy,
\* web_deploy): no failed call on the way and no earlier run can make them
\* report a success that is none.
THEOREM SuccessMeansDeployed == Spec => []OkIsDeployed
<1>1. TypeOK /\ Fits => OkIsDeployed
  <2>1. SUFFICES ASSUME TypeOK, Fits, script.result = "ok"
                 PROVE  /\ script.cmd = "fly" => ApiIsUp
                        /\ Did("deployWeb") => WebIsUp
                        /\ script.cmd = "web" => bundle.api
    BY DEF OkIsDeployed
  <2>2. script.cmd = "fly" => ApiIsUp
    BY <2>1, Ended DEF Fits, Deployed, Answerable, ApiIsUp
  <2>3. Did("deployWeb") => WebIsUp
    BY <2>1, Ended, BundleIsThere
  <2>4. script.cmd = "web" => bundle.api
    BY <2>1, Ended, BundleIsThere
  <2> QED
    BY <2>2, <2>3, <2>4
<1> QED
  BY <1>1, RunsFit, PTL

\* "Safe to re-run": a command that has what it needs, run when nothing fails
\* any more, does not fail, whatever earlier runs of any command left behind,
\* and in the end all it is responsible for agrees with its values.
THEOREM RerunsRepair == Spec => []RerunRepairs
<1>1. TypeOK /\ Fits => RerunRepairs
  <2>1. SUFFICES ASSUME TypeOK, Fits, script.clean PROVE RerunRepairs
    BY DEF RerunRepairs
  <2>2. script.result # "failed" /\ CleanFits /\ Answerable
    BY <2>1 DEF Fits, CleanFits, Answerable
  <2>3. ASSUME script.result = "ok", Did("deployApi") PROVE ApiIsUp
    <3>1. Over("deployApi")
      BY <2>1, <2>3, Ended
    <3>2. script.cmd # None /\ "deployApi" \in Planned
      BY <3>1, <2>3 DEF Over, Did
    <3>3. Over("secrets")
      <4>1. "secrets" \in Planned
        BY <2>1, <3>2, PlanOrder
      <4> QED
        BY <2>1, <2>3, <3>2, <4>1, Ended, PlannedAre
    <3> QED
      BY <2>1, <2>2, <3>1, <3>3 DEF Fits, Deployed, ApiIsUp
  <2>4. ASSUME script.result = "ok", Did("spa")
        PROVE  /\ script.settings \in resources
               /\ script.app \in DOMAIN spas
               /\ spas[script.app] = script.settings
    <3>1. Over("spa")
      BY <2>1, <2>4, Ended
    <3>2. script.cmd # None /\ "spa" \in Planned
      BY <3>1, <2>4 DEF Over, Did
    <3>3. Over("resource")
      <4>1. "resource" \in Planned
        BY <2>1, <3>2, PlanOrder
      <4> QED
        BY <2>1, <2>4, <3>2, <4>1, Ended, PlannedAre
    <3> QED
      BY <2>1, <2>2, <3>1, <3>3 DEF CleanFits
  <2>5. ASSUME script.result = "ok", Did("deployWeb") PROVE WebIsUp
    BY <2>1, <2>5, Ended, BundleIsThere
  <2> QED
    BY <2>2, <2>3, <2>4, <2>5 DEF RerunRepairs
<1> QED
  BY <1>1, RunsFit, PTL

\* The SPA application is looked up by its name and made when it is not there:
\* replies that get lost, interruptions and runs again do not make a second
\* one.  Only a lookup that fails can.
THEOREM SpaAppIsOne == Spec => []OneSpaApp
<1>1. Init => OneSpaApp
  <2>1. Len(<<>>) = 0
    OBVIOUS
  <2> QED
    BY <2>1 DEF Init, OneSpaApp
<1>2. ASSUME TypeOK, OneSpaApp, [Next]_vars PROVE OneSpaApp'
  <2>1. CASE EnsureSpa
    <3>1. PICK found \in Found(spas # <<>>) :
            /\ IF found THEN SyncSpa ELSE CreateSpa
            /\ misread' = (misread \/ found # (spas # <<>>))
      BY <2>1 DEF EnsureSpa
    <3>2. spas \in Seq(Settings) /\ script.settings \in Settings
      BY <1>2, ScriptType DEF TypeOK, Script
    <3>3. CASE found
      <4>1. PICK id \in DOMAIN spas :
              spas' = spas \/ spas' = [spas EXCEPT ![id] = script.settings]
        BY <3>1, <3>3 DEF SyncSpa
      <4>2. Len([spas EXCEPT ![id] = script.settings]) = Len(spas)
        BY <3>2, <4>1, ExceptSeq
      <4> QED
        BY <1>2, <3>1, <4>1, <4>2 DEF OneSpaApp
    <3>4. CASE ~found
      <4>1. spas' = spas \/ spas' = Append(spas, script.settings)
        BY <3>1, <3>4 DEF CreateSpa
      <4>2. CASE spas = <<>>
        <5>1. Len(Append(spas, script.settings)) = 1 /\ Len(spas) = 0
          BY <3>2, <4>2, AppendProperties
        <5>2. Len(spas') = 1 \/ Len(spas') = 0
          BY <4>1, <5>1
        <5> QED
          <6>1. Len(spas') <= 1
            BY <5>2
          <6> QED
            BY <6>1, Zenon DEF OneSpaApp
      <4>3. CASE spas # <<>>
        BY <3>1, <3>4, <4>3 DEF OneSpaApp
      <4> QED
        BY <4>2, <4>3
    <3> QED
      BY <3>3, <3>4
  <2>2. CASE ~EnsureSpa
    <3>1. UNCHANGED <<spas, misread>>
      BY <1>2, <2>2 DEF Next, Start, EditSettings, Recover, Step, EnsureDatabase, NeonCreate,
         GetToken, NoM2mApp, EnsureResource, EnsureApiApp, SetSecrets, DeployApi,
         EnsureWebApp, DeployWeb, vars, logto
    <3> QED
      BY <1>2, <3>1 DEF OneSpaApp
  <2> QED
    BY <2>1, <2>2
<1> QED
  BY <1>1, <1>2, DeployTyped, PTL DEF Spec

-----------------------------------------------------------------------------
(* The database.                                                           *)

\* The API's database is the one in .env, or in the environment, and so is that
\* of every run that could hand it another.
KeptFits ==
  /\ file.db # Blank
  /\ secrets # None => secrets \in Secret /\ file.db = secrets.db
  /\ script.result = "running" /\ script.cmd # "neon-create" => script.db = file.db

\* No run sets a DATABASE_URL that is blank, or in no file.
LEMMA ForgottenStays ==
  ASSUME TypeOK, [Next]_vars, ~Remembers
  PROVE  ~Remembers'
<1>1. \/ \E n : file' = [file EXCEPT !.db = Written(@, n)]
      \/ \E id : file' = [file EXCEPT !.app = Written(@, id)]
      \/ file' = [file EXCEPT !.settings = @ + 1]
      \/ file' = file
  <2>1. CASE Step
    <3>1. CASE EnsureDatabase \/ NeonCreate
      BY <3>1 DEF EnsureDatabase, NeonCreate, CreateProject
    <3>2. CASE EnsureSpa
      BY <3>2 DEF EnsureSpa, SyncSpa, CreateSpa, UseSpa
    <3>3. CASE ~(EnsureDatabase \/ NeonCreate \/ EnsureSpa)
      BY <2>1, <3>3 DEF Step, GetToken, NoM2mApp, EnsureResource, EnsureApiApp, SetSecrets,
         DeployApi, EnsureWebApp, DeployWeb
    <3> QED
      BY <3>1, <3>2, <3>3
  <2>2. CASE ~Step
    BY <2>2 DEF Next, Start, EditSettings, Recover, vars
  <2> QED
    BY <2>1, <2>2
<1>2. file \in EnvFile
  BY ScriptType
<1>3. file'.there = file.there
  BY <1>1, <1>2 DEF EnvFile
<1>4. CASE \E n : file' = [file EXCEPT !.db = Written(@, n)]
  <2>1. PICK n : file' = [file EXCEPT !.db = Written(@, n)]
    BY <1>4
  <2>2. file'.db = Written(file.db, n)
    BY <1>2, <2>1 DEF EnvFile
  <2>3. file.there => file.db = Blank
    BY DEF Remembers
  <2> QED
    BY <1>3, <2>2, <2>3, ValuesAreDistinct DEF Remembers, Written
<1>5. CASE file'.db = file.db
  BY <1>3, <1>5 DEF Remembers, Value
<1> QED
  BY <1>1, <1>2, <1>4, <1>5 DEF EnvFile

LEMMA WrittenDb ==
  ASSUME Remembers, file \in EnvFile, NEW n \in Databases
  PROVE  [file EXCEPT !.db = Written(file.db, n)].db = (IF file.db = Absent THEN n ELSE file.db)
BY ValuesAreDistinct DEF EnvFile, Written, Remembers, Value

\* What creates a project writes it to a .env that has no database yet.
LEMMA CreateProjectKeeps ==
  ASSUME TypeOK, Fits, Remembers, KeptFits, NEW step \in {"database", "neon"}, At(step), Neonctl = TRUE,
         step = "database" => script.db = Absent,
         CreateProject, UNCHANGED <<logto, fly, calm>>
  PROVE  KeptFits' /\ UNCHANGED secrets
<1>1. PICK x \in Called(TRUE) :
        /\ projects' = IF x.applied THEN projects + 1 ELSE projects
        /\ IF x.failed
           THEN Die /\ UNCHANGED file
           ELSE /\ file' = [file EXCEPT !.db = Written(@, projects')]
                /\ Advance([script EXCEPT !.db = projects'])
  BY DEF CreateProject
<1>2. UNCHANGED secrets
  BY DEF fly
<1>3. CASE x.failed
  <2>1. script' = [script EXCEPT !.todo = <<>>, !.result = "failed"] /\ file' = file
    BY <1>1, <1>3 DEF Die
  <2>2. script'.result # "running"
    BY <2>1, ScriptType DEF Script
  <2> QED
    BY <1>2, <2>1, <2>2 DEF KeptFits
<1>4. CASE ~x.failed
  <2>1. projects' \in Databases
    <3>1. x.applied
      BY <1>4, CallsOut
    <3>2. projects' = projects + 1
      BY <1>1, <3>1
    <3>3. step \in Ahead
      BY AtStep DEF Fits
    <3>4. projects \in 0 .. MaxProjects /\ projects < MaxProjects /\ MaxProjects \in Nat
      BY <3>3, DeployEnvironment DEF Fits, BoundFits, TypeOK
    <3> QED
      BY <3>2, <3>4 DEF Databases
  <2>2. projects' \notin {Absent, Blank}
    BY <2>1, ValuesAreDistinct
  <2> DEFINE s == [script EXCEPT !.db = projects']
  <2>3. Advance(s) /\ file' = [file EXCEPT !.db = Written(file.db, projects')]
    BY <1>1, <1>4
  <2>4. SameRun(s) /\ s.db = projects'
    <3>1. script \in Script
      BY ScriptType
    <3> QED
      BY <2>1, <3>1, WithDb, Zenon DEF SameRun
  <2> HIDE DEF s
  <2>5. file'.db = (IF file.db = Absent THEN projects' ELSE file.db) /\ file'.seeded = file.seeded
    <3>1. file \in EnvFile
      BY ScriptType
    <3>2. file'.db = (IF file.db = Absent THEN projects' ELSE file.db)
      BY <2>1, <2>3, <3>1, WrittenDb
    <3> QED
      BY <2>3, <3>1, <3>2 DEF EnvFile
  <2>6. script'.cmd = script.cmd /\ script'.db = projects'
    BY <2>3, <2>4, <2>5, Advanced DEF Fits
  <2>7. secrets # None => file.db # Absent
    BY ValuesAreDistinct DEF KeptFits, Secret
  <2>8. script'.cmd # "neon-create" => file.db = Absent
    <3>1. step = "neon" => script.cmd = "neon-create"
      BY AtStep, PlanOrder DEF Fits
    <3>2. script.result = "running"
      BY DEF At
    <3> QED
      BY <2>6, <3>1, <3>2 DEF KeptFits
  <2> QED
    BY <1>2, <2>2, <2>5, <2>6, <2>7, <2>8 DEF KeptFits
<1> QED
  BY <1>3, <1>4

\* A step that changes neither .env's database nor the run's.
LEMMA OtherStepKeeps ==
  ASSUME TypeOK, KeptFits, script.result = "running",
         NEW s, SameRun(s), s.db = script.db, Die \/ Advance(s),
         file'.db = file.db
  PROVE  /\ UNCHANGED secrets => KeptFits'
         /\ secrets' \in Secret /\ secrets'.db = file.db => KeptFits'
<1>1. script'.cmd = script.cmd /\ script'.db = script.db
  <2>1. CASE Die
    BY <2>1, ScriptType DEF Die, Script
  <2>2. CASE Advance(s)
    BY <2>2 DEF Advance, SameRun, Script
  <2> QED
    BY <2>1, <2>2
<1> QED
  BY <1>1 DEF KeptFits

LEMMA StepKeeps ==
  ASSUME TypeOK, Fits, Remembers, KeptFits, Step
  PROVE  KeptFits' /\ (secrets # None => secrets' # None /\ secrets'.db = secrets.db)
<1>1. script.result = "running"
  BY DEF Step, EnsureDatabase, NeonCreate, GetToken, NoM2mApp, EnsureResource, EnsureSpa,
     EnsureApiApp, SetSecrets, DeployApi, EnsureWebApp, DeployWeb, At
<1>2. CASE EnsureDatabase \/ NeonCreate
  <2>1. UNCHANGED <<logto, fly, calm>> /\ UNCHANGED secrets
    BY <1>2 DEF EnsureDatabase, NeonCreate, fly
  <2>2. \/ CreateProject /\ Neonctl = TRUE
           /\ \/ At("database") /\ script.db = Absent
              \/ At("neon")
        \/ (Die \/ Advance(script)) /\ UNCHANGED file
    BY <1>2, DeployEnvironment DEF EnsureDatabase, NeonCreate
  <2>3. CASE CreateProject /\ Neonctl = TRUE /\ At("database") /\ script.db = Absent
    BY <2>1, <2>3, CreateProjectKeeps
  <2>4. CASE CreateProject /\ Neonctl = TRUE /\ At("neon")
    BY <2>1, <2>4, CreateProjectKeeps
  <2>5. CASE (Die \/ Advance(script)) /\ UNCHANGED file
    BY <1>1, <2>1, <2>5, SameScript, OtherStepKeeps
  <2> QED
    BY <2>1, <2>2, <2>3, <2>4, <2>5
<1>3. CASE GetToken \/ NoM2mApp \/ EnsureResource \/ EnsureApiApp \/ DeployApi
           \/ EnsureWebApp \/ DeployWeb
  <2>1. (Die \/ Advance(script)) /\ UNCHANGED <<file, secrets>>
    BY <1>3 DEF GetToken, NoM2mApp, EnsureResource, EnsureApiApp, DeployApi, EnsureWebApp,
       DeployWeb, EnsureApp, After, fly
  <2> QED
    BY <1>1, <2>1, SameScript, OtherStepKeeps
<1>4. CASE EnsureSpa
  <2>1. UNCHANGED secrets /\ (SyncSpa \/ (CreateSpa /\ Len(spas) < MaxSpas))
    BY <1>4 DEF EnsureSpa, fly
  <2>2. \/ Die /\ UNCHANGED file
        \/ \E id \in AppIds : UseSpa(id)
    <3>1. spas \in Seq(Settings) /\ Len(spas) \in Nat /\ MaxSpas \in Nat /\ Len(spas) <= MaxSpas
      BY DeployEnvironment DEF TypeOK
    <3>2. DOMAIN spas \subseteq AppIds
      BY <3>1 DEF AppIds
    <3>3. CASE SyncSpa
      BY <3>2, <3>3 DEF SyncSpa
    <3>4. CASE CreateSpa /\ Len(spas) < MaxSpas
      <4>1. PICK x \in Called(TRUE) : \E printed \in Printed(x) :
              /\ spas' = IF x.applied THEN Append(spas, script.settings) ELSE spas
              /\ IF ~printed THEN Die /\ UNCHANGED file
                 ELSE UseSpa(IF x.failed THEN Null ELSE Len(spas'))
        BY <3>4 DEF CreateSpa
      <4>2. CASE x.failed
        BY <4>1, <4>2 DEF AppIds
      <4>3. CASE ~x.failed
        <5>1. spas' \in Seq(Settings) /\ Len(spas') = Len(spas) + 1
          <6>1. x.applied
            BY <4>3, CallsOut
          <6>2. spas' = Append(spas, script.settings)
            BY <4>1, <6>1
          <6> QED
            BY <3>1, <6>2, ScriptType, AppendProperties DEF Script
        <5>2. Len(spas') \in AppIds
          BY <3>1, <3>4, <5>1 DEF AppIds
        <5> QED
          BY <4>1, <4>3, <5>2
      <4> QED
        BY <4>2, <4>3
    <3> QED
      BY <2>1, <3>3, <3>4
  <2>3. CASE Die /\ UNCHANGED file
    BY <1>1, <2>1, <2>3, SameScript, OtherStepKeeps
  <2>4. CASE \E id \in AppIds : UseSpa(id)
    <3>1. PICK id \in AppIds : UseSpa(id)
      BY <2>4
    <3> DEFINE s == [script EXCEPT !.app = id]
    <3>2. file'.db = file.db /\ Advance(s)
      BY <3>1, ScriptType DEF UseSpa, EnvFile
    <3>3. SameRun(s) /\ s.db = script.db
      <4>1. script \in Script
        BY ScriptType
      <4> QED
        BY <4>1, WithApp, Zenon DEF SameRun
    <3> HIDE DEF s
    <3> QED
      BY <1>1, <2>1, <3>2, <3>3, OtherStepKeeps
  <2> QED
    BY <2>2, <2>3, <2>4
<1>5. CASE SetSecrets
  <2>1. /\ At("secrets") /\ UNCHANGED file /\ (Die \/ Advance(script))
        /\ \/ UNCHANGED secrets
           \/ secrets' = [db |-> script.db, settings |-> script.settings]
    BY <1>5 DEF SetSecrets, After
  <2>2. script.cmd # "neon-create"
    <3>1. "secrets" \in Planned
      BY <2>1, AtStep DEF Fits
    <3> QED
      BY <3>1, PlanOrder
  <2>3. script.db = file.db /\ script.db \in Databases
    BY <1>1, <2>1, <2>2, ApiFinds DEF KeptFits
  <2>4. CASE UNCHANGED secrets
    BY <1>1, <2>1, <2>4, SameScript, OtherStepKeeps
  <2>5. CASE secrets' = [db |-> script.db, settings |-> script.settings]
    <3>1. secrets' \in Secret /\ secrets'.db = file.db
      BY <2>3, <2>5, ScriptType DEF Script, Secret
    <3>2. KeptFits'
      BY <1>1, <2>1, <3>1, SameScript, OtherStepKeeps
    <3> QED
      BY <3>1, <3>2, ValuesAreDistinct DEF KeptFits
  <2> QED
    BY <2>1, <2>4, <2>5
<1> QED
  BY <1>2, <1>3, <1>4, <1>5 DEF Step

\* The API stays with its database, also when the operator has neon-create make
\* projects, whose URL then is only printed, and when runs break off between a new
\* project and its line in .env; but for runs that find no DATABASE_URL and have
\* nowhere to write it, there being no .env or a blank line in it (the run
\* deploy_rerun shows what becomes of the latter).
THEOREM DatabaseStays == Spec => DatabaseIsKept
<1>1. Init => TypeOK /\ Fits /\ (Remembers => KeptFits)
  <2>1. Init => (Remembers => KeptFits)
    BY ValuesAreDistinct DEF Init, KeptFits, Remembers, Value
  <2> QED
    BY <2>1, InitFits
<1>2. ASSUME TypeOK, Fits, Remembers, KeptFits, [Next]_vars
      PROVE  /\ KeptFits'
             /\ secrets # None => secrets'.db = secrets.db
  <2>1. CASE \E cmd \in Commands : Start(cmd)
    <3>1. PICK cmd \in Commands : Start(cmd)
      BY <2>1
    <3>2. UNCHANGED <<file, secrets>> /\ script'.db = file.db
      BY <1>2, <3>1 DEF Start, fly, KeptFits, Value
    <3> QED
      BY <1>2, <3>2 DEF KeptFits
  <2>2. CASE EditSettings
    <3>1. UNCHANGED <<script, secrets>> /\ file'.db = file.db
      BY <1>2, <2>2, ScriptType DEF EditSettings, EnvFile, fly
    <3> QED
      BY <1>2, <3>1 DEF KeptFits
  <2>3. CASE Recover
    BY <1>2, <2>3 DEF Recover, fly, KeptFits
  <2>4. CASE Step
    BY <1>2, <2>4, StepKeeps
  <2>5. CASE UNCHANGED vars
    BY <1>2, <2>5 DEF vars, fly, KeptFits
  <2> QED
    BY <1>2, <2>1, <2>2, <2>3, <2>4, <2>5 DEF Next
<1>3. TypeOK /\ Fits /\ [Next]_vars => (TypeOK /\ Fits)'
  BY StepFits
<1>4. TypeOK /\ Fits /\ (Remembers => KeptFits) /\ [Next]_vars =>
        /\ (TypeOK /\ Fits /\ (Remembers => KeptFits))'
        /\ [secrets # None /\ Remembers => secrets'.db = secrets.db]_secrets
  BY <1>2, <1>3, ForgottenStays
<1> QED
  BY <1>1, <1>4, PTL DEF Spec, DatabaseIsKept
=============================================================================
