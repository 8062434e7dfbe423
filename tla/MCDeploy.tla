------------------------------ MODULE MCDeploy ------------------------------
(***************************************************************************)
(* Values for the constants of Deploy in the TLC runs, and a claim of the  *)
(* script's comments that it does not keep.                                *)
(***************************************************************************)
EXTENDS Deploy

\* Commands that look for a database before they create one.
Cautious == CommandNames \ {"neon-create"}

AnyFault == Faults
NoFault == {}

\* No .env, or one with lines left out or blank, as in .env.example.
Started ==
  {f \in [there : BOOLEAN, db : {Absent, Blank, Own}, app : {Absent, Blank},
          seeded : BOOLEAN, settings : {1}] : f.there \/ Blank \notin {f.db, f.app}}

\* DATABASE_URL= left blank, for the script to create a project.
BlankDatabase == [there : {TRUE}, db : {Blank}, app : {Absent}, seeded : {TRUE}, settings : {1}]

\* "Persist it back to .env so subsequent steps + future runs don't need to
\* recreate" (neon_create): when nothing fails, commands that create a project
\* only where there is no DATABASE_URL create one project.
OneProject == projects <= 1
=============================================================================
