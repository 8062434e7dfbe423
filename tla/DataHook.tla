------------------------------ MODULE DataHook ------------------------------
(***************************************************************************)
(* A page of the frontend, Dashboard or Templates, and the hook            *)
(* useApiData that fetches the list it shows: when it mounts, and after    *)
(* each of the user's actions that was answered.  Buttons stay enabled     *)
(* while a list is being fetched, so that fetches and actions overlap.     *)
(*                                                                         *)
(* Abstractions.  The list is the number of changes it reflects; actions   *)
(* differ in nothing the hook can see.  Logto keeps the user signed in,    *)
(* since RequireAuth unmounts the page otherwise: the fetcher is never     *)
(* null.  Calls that refresh() and a new refreshKey make are the same.     *)
(***************************************************************************)
EXTENDS Naturals, FiniteSetsExt

CONSTANTS
  Fetches,     \* bound: fetches of one page under way at once
  Actions,     \* bound: actions under way at once
  Nothing,     \* data is null: no list yet
  MaxVersion   \* bound: changes of the list

Versions == 0 .. MaxVersion

\* sent: on the way to the server.  answered: it has read the list, or changed
\* it, and the reply is on its way back.
CallState == {"idle", "sent", "answered"}

ASSUME PageEnvironment == MaxVersion \in Nat /\ Nothing \notin Versions

VARIABLES
  server,      \* the list the API would answer now
  fetch,       \* calls of the fetcher, with the list they have read
  action,      \* calls of the user's actions; here: of the page as mounted now
  page,        \* the state of the hook
  acked,       \* history: the newest list that an answer to this page speaks for
  overlapped   \* history: since the page was last quiet, two fetches overlapped

vars == <<server, fetch, action, page, acked, overlapped>>

TypeOK ==
  /\ server \in Versions
  /\ fetch \in [Fetches -> [state : CallState, version : Versions]]
  /\ action \in [Actions -> [state : CallState, version : Versions, here : BOOLEAN]]
  /\ page \in [data : {Nothing} \cup Versions, loading : BOOLEAN, error : BOOLEAN]
  /\ acked \in Versions
  /\ overlapped \in BOOLEAN

-----------------------------------------------------------------------------
NoFetch == [f \in Fetches |-> [state |-> "idle", version |-> 0]]
Sent(calls, c) == [calls EXCEPT ![c].state = "sent"]
Over(calls, c) == [calls EXCEPT ![c].state = "idle"]

\* Mutant: loading starts as null.
FreshUnset == [data |-> Nothing, loading |-> Nothing, error |-> FALSE]
\* What useState starts with.
Fresh == [data |-> Nothing, loading |-> TRUE, error |-> FALSE]

InFlight(calls) == {c \in DOMAIN calls : calls[c].state # "idle"}
Quiet == InFlight(fetch) = {} /\ \A a \in InFlight(action) : ~action[a].here

Init ==
  /\ server = 0
  /\ \E f \in Fetches : fetch = Sent(NoFetch, f)
  /\ action = [a \in Actions |-> [state |-> "idle", version |-> 0, here |-> TRUE]]
  /\ page = Fresh
  /\ acked = 0
  /\ overlapped = FALSE

\* Mutant: the state is kept outside of the component.
RemountShared ==
  /\ \E f \in Fetches \ InFlight(fetch) : fetch' = Sent(fetch, f)
  /\ action' = [a \in Actions |-> [action[a] EXCEPT !.here = FALSE]]
  /\ page' = [page EXCEPT !.loading = TRUE, !.error = FALSE]
  /\ acked' = 0
  /\ overlapped' = FALSE
  /\ UNCHANGED server

\* The user leaves the page and comes back.  Answers to what the old one asked
\* set a state nobody renders.
Remount ==
  /\ \E f \in Fetches : fetch' = Sent(NoFetch, f)
  /\ action' = [a \in Actions |-> [action[a] EXCEPT !.here = FALSE]]
  /\ page' = Fresh
  /\ acked' = 0
  /\ overlapped' = FALSE
  /\ UNCHANGED server

\* refresh() up to its await.
Refresh ==
  \E f \in Fetches \ InFlight(fetch) :
    /\ fetch' = Sent(fetch, f)
    /\ page' = [page EXCEPT !.loading = TRUE, !.error = FALSE]
    /\ overlapped' = (InFlight(fetch) # {})

ServeFetch(f) ==
  /\ fetch[f].state = "sent"
  /\ fetch' = [fetch EXCEPT ![f] = [state |-> "answered", version |-> server]]
  /\ UNCHANGED <<server, action, page, acked, overlapped>>

FetchArrives(f) ==
  /\ fetch[f].state = "answered"
  /\ fetch' = Over(fetch, f)
  /\ page' = [page EXCEPT !.data = fetch[f].version, !.loading = FALSE]
  /\ UNCHANGED <<server, action, acked, overlapped>>

\* Mutant: loading ends with success only.
FetchFailsLoading(f) ==
  /\ fetch[f].state # "idle"
  /\ fetch' = Over(fetch, f)
  /\ page' = [page EXCEPT !.error = TRUE]
  /\ UNCHANGED <<server, action, acked, overlapped>>

\* No token, no connection, no reply, or an error status.
FetchFails(f) ==
  /\ fetch[f].state # "idle"
  /\ fetch' = Over(fetch, f)
  /\ page' = [page EXCEPT !.loading = FALSE, !.error = TRUE]
  /\ UNCHANGED <<server, action, acked, overlapped>>

-----------------------------------------------------------------------------
\* A button or a form.
Act(a) ==
  /\ action[a].state = "idle"
  /\ action' = [action EXCEPT ![a] = [state |-> "sent", version |-> 0, here |-> TRUE]]
  /\ UNCHANGED <<server, fetch, page, acked, overlapped>>

ServeAction(a) ==
  /\ action[a].state = "sent"
  /\ server < MaxVersion
  /\ server' = server + 1
  /\ action' = [action EXCEPT ![a].state = "answered", ![a].version = server']
  /\ UNCHANGED <<fetch, page, acked, overlapped>>

\* Mutant: the refresh does not wait for the answer.
ActionAnsweredOrSent(a) ==
  /\ action[a].state # "idle"
  /\ IF action[a].state = "sent"
     THEN Refresh /\ UNCHANGED <<action, acked>>
     ELSE /\ action' = Over(action, a)
          /\ acked' = IF action[a].here THEN Max({acked, action[a].version}) ELSE acked
          /\ UNCHANGED <<fetch, page, overlapped>>
  /\ UNCHANGED server

\* The answer, and the refresh awaited behind it, of a page that is still there.
ActionAnswered(a) ==
  /\ action[a].state = "answered"
  /\ action' = Over(action, a)
  /\ IF action[a].here
     THEN Refresh /\ acked' = Max({acked, action[a].version})
     ELSE UNCHANGED <<fetch, page, acked, overlapped>>
  /\ UNCHANGED server

\* An error, or no reply to what may have been done: nothing is fetched.
ActionFails(a) ==
  /\ action[a].state # "idle"
  /\ action' = Over(action, a)
  /\ UNCHANGED <<server, fetch, page, acked, overlapped>>

\* Another client, or the API itself.
OthersChange ==
  /\ server < MaxVersion
  /\ server' = server + 1
  /\ UNCHANGED <<fetch, action, page, acked, overlapped>>

Settle(f) == ServeFetch(f) \/ FetchArrives(f) \/ FetchFails(f)

Next ==
  \/ \E f \in Fetches : Settle(f)
  \/ \E a \in Actions : Act(a) \/ ServeAction(a) \/ ActionAnswered(a) \/ ActionFails(a)
  \/ Remount
  \/ OthersChange

Spec == Init /\ [][Next]_vars

\* A browser's request ends: with a reply, or with an error at its time-out.
FairSpec == Spec /\ \A f \in Fetches : WF_vars(Settle(f))

-----------------------------------------------------------------------------
\* A page at rest, whose last fetches did not overlap and did not fail, shows a
\* list with everything the user was told was done on it.
OwnWritesShown ==
  Quiet /\ ~page.error /\ ~overlapped => page.data # Nothing /\ page.data >= acked

\* No list is replaced by an older one, unless it was fetched at the same time
\* as another, or the page mounted anew.
ListNeverGoesBack ==
  [][page.data # Nothing /\ page'.data # Nothing /\ ~overlapped
     => page'.data >= page.data]_page

\* Whatever fails, the page does not load for ever, unless the user never stays.
LoadingEnds == []<><<Remount>>_vars \/ (page.loading ~> ~page.loading)
=============================================================================
