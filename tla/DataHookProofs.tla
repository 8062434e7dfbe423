--------------------------- MODULE DataHookProofs ---------------------------
(***************************************************************************)
(* What a page shows, for any number of fetches and actions at once and    *)
(* any number of changes of the list.  Both properties are about a time at *)
(* which no two fetches overlapped; the invariant says what such a time    *)
(* means for the one fetch that may be under way: it was sent after the    *)
(* last answer the page got, so that what it brings is new enough.         *)
(***************************************************************************)
EXTENDS DataHook, TLAPS

\* Nothing known to the page is newer than the list.
NothingFromTheFuture ==
  /\ acked <= server
  /\ \A f \in Fetches : fetch[f].version <= server
  /\ \A a \in Actions : action[a].version <= server
  /\ page.data # Nothing => page.data <= server

\* The one fetch under way.
OneFetch ==
  ~overlapped => \A f, g \in Fetches :
    fetch[f].state # "idle" /\ fetch[g].state # "idle" => f = g

\* What it brings is no older than what was answered to the page, and than what
\* the page shows.
FreshEnough ==
  ~overlapped => \A f \in Fetches : fetch[f].state = "answered" =>
    /\ fetch[f].version >= acked
    /\ page.data # Nothing => fetch[f].version >= page.data

\* What the page was left with by its last fetch.
AtRest ==
  ~overlapped /\ ~page.error /\ (\A f \in Fetches : fetch[f].state = "idle")
    => page.data # Nothing /\ page.data >= acked

IInv == TypeOK /\ NothingFromTheFuture /\ OneFetch /\ FreshEnough /\ AtRest

-----------------------------------------------------------------------------
(* Operators.                                                              *)

LEMMA VersionsAreNumbers ==
  /\ Versions \subseteq Nat
  /\ 0 \in Versions
  /\ Nothing \notin Versions
BY PageEnvironment DEF Versions

LEMMA VersionsAreOrdered ==
  /\ \A v \in Versions : v >= v /\ 0 <= v
  /\ \A u, v, w \in Versions : u <= v /\ w >= v => u <= w
<1> SUFFICES ASSUME NEW u \in Nat, NEW v \in Nat, NEW w \in Nat
             PROVE  v >= v /\ 0 <= v /\ (u <= v /\ w >= v => u <= w)
  BY VersionsAreNumbers
<1> QED
  OBVIOUS

\* The later of two versions.
LEMMA LaterVersion ==
  ASSUME NEW v \in Versions, NEW w \in Versions
  PROVE  /\ Max({v, w}) \in {v, w}
         /\ Max({v, w}) >= v /\ Max({v, w}) >= w
<1> DEFINE Greatest(x) == x \in {v, w} /\ \A y \in {v, w} : x >= y
<1>1. \E x : Greatest(x)
  <2>1. CASE v >= w
    BY <2>1, VersionsAreNumbers
  <2>2. CASE ~(v >= w)
    BY <2>2, VersionsAreNumbers
  <2> QED
    BY <2>1, <2>2
<1>2. Greatest(CHOOSE x : Greatest(x))
  BY <1>1
<1>3. Max({v, w}) = CHOOSE x \in {v, w} : \A y \in {v, w} : x >= y
  BY DEF Max
<1>4. \E x \in {v, w} : \A y \in {v, w} : x >= y
  BY <1>1
<1> QED
  BY <1>3, <1>4

LEMMA CallsTyped ==
  ASSUME NEW calls \in [Fetches -> [state : CallState, version : Versions]], NEW f \in Fetches
  PROVE  /\ Sent(calls, f) \in [Fetches -> [state : CallState, version : Versions]]
         /\ Over(calls, f) \in [Fetches -> [state : CallState, version : Versions]]
         /\ Sent(calls, f)[f].state = "sent" /\ Sent(calls, f)[f].version = calls[f].version
         /\ Over(calls, f)[f].state = "idle" /\ Over(calls, f)[f].version = calls[f].version
         /\ \A g \in Fetches \ {f} : Sent(calls, f)[g] = calls[g] /\ Over(calls, f)[g] = calls[g]
BY DEF Sent, Over, CallState

\* An action that is over, or served.
LEMMA ActionsTyped ==
  ASSUME TypeOK, NEW a \in Actions
  PROVE  /\ Over(action, a) \in [Actions -> [state : CallState, version : Versions, here : BOOLEAN]]
         /\ \A b \in Actions : Over(action, a)[b].version = action[b].version
BY DEF Over, CallState, TypeOK

-----------------------------------------------------------------------------
(* Fetches.                                                                *)

\* refresh() sends a fetch, and knows whether it is the only one.
LEMMA RefreshKeeps ==
  ASSUME IInv, Refresh, UNCHANGED server,
         acked' \in Versions /\ acked' <= server,
         action' \in [Actions -> [state : CallState, version : Versions, here : BOOLEAN]],
         \A a \in Actions : action'[a].version <= server
  PROVE  IInv'
<1>1. PICK f \in Fetches \ InFlight(fetch) :
        /\ fetch' = Sent(fetch, f)
        /\ page' = [page EXCEPT !.loading = TRUE, !.error = FALSE]
        /\ overlapped' = (InFlight(fetch) # {})
  BY DEF Refresh
<1>2. /\ fetch' \in [Fetches -> [state : CallState, version : Versions]]
      /\ fetch'[f].state = "sent" /\ fetch'[f].version = fetch[f].version
      /\ \A g \in Fetches \ {f} : fetch'[g] = fetch[g]
  BY <1>1, CallsTyped DEF IInv, TypeOK
<1>3. page'.data = page.data /\ page' \in [data : {Nothing} \cup Versions, loading : BOOLEAN,
                                            error : BOOLEAN]
  BY <1>1 DEF IInv, TypeOK
<1>4. TypeOK'
  BY <1>1, <1>2, <1>3 DEF IInv, TypeOK
<1>5. NothingFromTheFuture'
  BY <1>2, <1>3 DEF IInv, NothingFromTheFuture
<1>6. ~overlapped' => \A g \in Fetches \ {f} : fetch'[g].state = "idle"
  <2>1. \A g \in Fetches : fetch[g].state # "idle" => g \in InFlight(fetch)
    BY DEF InFlight, IInv, TypeOK
  <2> QED
    BY <1>1, <1>2, <2>1
<1>7. OneFetch' /\ FreshEnough' /\ AtRest'
  BY <1>2, <1>6 DEF OneFetch, FreshEnough, AtRest
<1> QED
  BY <1>4, <1>5, <1>7 DEF IInv

\* The server answers with the list as it is.
LEMMA ServeFetchKeeps ==
  ASSUME IInv, NEW f \in Fetches, ServeFetch(f)
  PROVE  IInv'
<1>1. /\ fetch[f].state = "sent"
      /\ fetch' = [fetch EXCEPT ![f] = [state |-> "answered", version |-> server]]
      /\ UNCHANGED <<server, action, page, acked, overlapped>>
  BY DEF ServeFetch
<1>2. /\ fetch' \in [Fetches -> [state : CallState, version : Versions]]
      /\ fetch'[f].state = "answered" /\ fetch'[f].version = server
      /\ \A g \in Fetches \ {f} : fetch'[g] = fetch[g]
  BY <1>1 DEF IInv, TypeOK, CallState
<1>3. TypeOK'
  BY <1>1, <1>2 DEF IInv, TypeOK
<1>4. NothingFromTheFuture'
  BY <1>1, <1>2, VersionsAreNumbers DEF IInv, NothingFromTheFuture, TypeOK
<1>5. OneFetch' /\ AtRest'
  BY <1>1, <1>2 DEF IInv, OneFetch, AtRest
<1>6. FreshEnough'
  BY <1>1, <1>2 DEF IInv, NothingFromTheFuture, FreshEnough
<1> QED
  BY <1>3, <1>4, <1>5, <1>6 DEF IInv

\* A list that arrives outside of any overlap is the newest the page was told of.
LEMMA FetchArrivesKeeps ==
  ASSUME IInv, NEW f \in Fetches, FetchArrives(f)
  PROVE  IInv'
<1>1. /\ fetch[f].state = "answered"
      /\ fetch' = Over(fetch, f)
      /\ page' = [page EXCEPT !.data = fetch[f].version, !.loading = FALSE]
      /\ UNCHANGED <<server, action, acked, overlapped>>
  BY DEF FetchArrives
<1>2. /\ fetch' \in [Fetches -> [state : CallState, version : Versions]]
      /\ fetch'[f].state = "idle" /\ fetch'[f].version = fetch[f].version
      /\ \A g \in Fetches \ {f} : fetch'[g] = fetch[g]
  BY <1>1, CallsTyped DEF IInv, TypeOK
<1>3. /\ page'.data = fetch[f].version /\ page'.data \in Versions
      /\ page' \in [data : {Nothing} \cup Versions, loading : BOOLEAN, error : BOOLEAN]
  BY <1>1 DEF IInv, TypeOK
<1>4. TypeOK'
  BY <1>1, <1>2, <1>3 DEF IInv, TypeOK
<1>5. NothingFromTheFuture'
  BY <1>1, <1>2, <1>3 DEF IInv, NothingFromTheFuture
<1>6. ~overlapped' => \A g \in Fetches : fetch'[g].state = "idle"
  BY <1>1, <1>2 DEF IInv, OneFetch
<1>7. OneFetch' /\ FreshEnough'
  BY <1>6 DEF OneFetch, FreshEnough
<1>8. AtRest'
  BY <1>1, <1>3, VersionsAreNumbers DEF IInv, FreshEnough, AtRest
<1> QED
  BY <1>4, <1>5, <1>7, <1>8 DEF IInv

LEMMA FetchFailsKeeps ==
  ASSUME IInv, NEW f \in Fetches, FetchFails(f)
  PROVE  IInv'
<1>1. /\ fetch' = Over(fetch, f)
      /\ page' = [page EXCEPT !.loading = FALSE, !.error = TRUE]
      /\ UNCHANGED <<server, action, acked, overlapped>>
  BY DEF FetchFails
<1>2. /\ fetch' \in [Fetches -> [state : CallState, version : Versions]]
      /\ fetch'[f].state = "idle" /\ fetch'[f].version = fetch[f].version
      /\ \A g \in Fetches \ {f} : fetch'[g] = fetch[g]
  BY <1>1, CallsTyped DEF IInv, TypeOK
<1>3. /\ page'.data = page.data /\ page'.error = TRUE
      /\ page' \in [data : {Nothing} \cup Versions, loading : BOOLEAN, error : BOOLEAN]
  BY <1>1 DEF IInv, TypeOK
<1>4. TypeOK'
  BY <1>1, <1>2, <1>3 DEF IInv, TypeOK
<1>5. NothingFromTheFuture'
  BY <1>1, <1>2, <1>3 DEF IInv, NothingFromTheFuture
<1>6. OneFetch' /\ FreshEnough' /\ AtRest'
  BY <1>1, <1>2, <1>3 DEF IInv, OneFetch, FreshEnough, AtRest
<1> QED
  BY <1>4, <1>5, <1>6 DEF IInv

\* A page that mounts anew knows nothing and waits for one fetch.
LEMMA RemountKeeps ==
  ASSUME IInv, Remount
  PROVE  IInv'
<1>1. PICK f \in Fetches : fetch' = Sent(NoFetch, f)
  BY DEF Remount
<1>2. /\ action' = [a \in Actions |-> [action[a] EXCEPT !.here = FALSE]]
      /\ page' = Fresh /\ acked' = 0 /\ overlapped' = FALSE
      /\ UNCHANGED server
  BY DEF Remount
<1>3. /\ NoFetch \in [Fetches -> [state : CallState, version : Versions]]
      /\ \A g \in Fetches : NoFetch[g].state = "idle" /\ NoFetch[g].version = 0
  BY VersionsAreNumbers DEF NoFetch, CallState
<1>4. /\ fetch' \in [Fetches -> [state : CallState, version : Versions]]
      /\ fetch'[f].state = "sent" /\ fetch'[f].version = 0
      /\ \A g \in Fetches \ {f} : fetch'[g].state = "idle" /\ fetch'[g].version = 0
  BY <1>1, <1>3, CallsTyped
<1>5. /\ action' \in [Actions -> [state : CallState, version : Versions, here : BOOLEAN]]
      /\ \A a \in Actions : action'[a].version = action[a].version
  BY <1>2 DEF IInv, TypeOK
<1>6. page'.data = Nothing /\ page' \in [data : {Nothing} \cup Versions, loading : BOOLEAN,
                                          error : BOOLEAN]
  BY <1>2 DEF Fresh
<1>7. TypeOK'
  BY <1>2, <1>4, <1>5, <1>6, VersionsAreNumbers DEF IInv, TypeOK
<1>8. NothingFromTheFuture'
  <2>1. 0 <= server' /\ \A a \in Actions : action'[a].version <= server'
    BY <1>2, <1>5, VersionsAreOrdered DEF IInv, TypeOK, NothingFromTheFuture
  <2> QED
    BY <1>2, <1>4, <1>6, <2>1 DEF NothingFromTheFuture
<1>9. OneFetch' /\ FreshEnough' /\ AtRest'
  BY <1>4 DEF OneFetch, FreshEnough, AtRest
<1> QED
  BY <1>7, <1>8, <1>9 DEF IInv

-----------------------------------------------------------------------------
(* Actions, and others.                                                    *)

\* A step of which the page sees nothing, after which the list may be newer.
LEMMA UnseenKeeps ==
  ASSUME IInv, UNCHANGED <<fetch, page, acked, overlapped>>,
         server' \in Versions, server' >= server,
         action' \in [Actions -> [state : CallState, version : Versions, here : BOOLEAN]],
         \A a \in Actions : action'[a].version <= server'
  PROVE  IInv'
<1>1. TypeOK'
  BY DEF IInv, TypeOK
<1>2. NothingFromTheFuture'
  <2>1. /\ acked' <= server'
        /\ \A f \in Fetches : fetch[f].version <= server'
        /\ page.data # Nothing => page.data <= server'
    BY VersionsAreOrdered DEF IInv, TypeOK, NothingFromTheFuture
  <2> QED
    BY <2>1 DEF NothingFromTheFuture
<1>3. OneFetch' /\ FreshEnough' /\ AtRest'
  BY DEF IInv, OneFetch, FreshEnough, AtRest
<1> QED
  BY <1>1, <1>2, <1>3 DEF IInv

LEMMA ActKeeps ==
  ASSUME IInv, NEW a \in Actions, Act(a)
  PROVE  IInv'
<1>1. /\ action' = [action EXCEPT ![a] = [state |-> "sent", version |-> 0, here |-> TRUE]]
      /\ UNCHANGED <<server, fetch, page, acked, overlapped>>
  BY DEF Act
<1>2. action' \in [Actions -> [state : CallState, version : Versions, here : BOOLEAN]]
  BY <1>1, VersionsAreNumbers DEF IInv, TypeOK, CallState
<1>3. action'[a].version = 0 /\ \A b \in Actions \ {a} : action'[b] = action[b]
  BY <1>1 DEF IInv, TypeOK
<1>4. server' \in Versions /\ server' >= server /\ server' >= 0
  BY <1>1, VersionsAreNumbers DEF IInv, TypeOK
<1>5. \A b \in Actions : action'[b].version <= server'
  BY <1>1, <1>3, <1>4 DEF IInv, NothingFromTheFuture
<1> QED
  BY <1>1, <1>2, <1>4, <1>5, UnseenKeeps

LEMMA NewVersion ==
  ASSUME TypeOK, server < MaxVersion, server' = server + 1
  PROVE  server' \in Versions /\ server' >= server
BY PageEnvironment DEF TypeOK, Versions

LEMMA ServeActionKeeps ==
  ASSUME IInv, NEW a \in Actions, ServeAction(a)
  PROVE  IInv'
<1>1. /\ server < MaxVersion /\ server' = server + 1
      /\ action' = [action EXCEPT ![a].state = "answered", ![a].version = server']
      /\ UNCHANGED <<fetch, page, acked, overlapped>>
  BY DEF ServeAction
<1>2. server' \in Versions /\ server' >= server
  BY <1>1, NewVersion DEF IInv
<1>3. action' \in [Actions -> [state : CallState, version : Versions, here : BOOLEAN]]
  BY ZenonT(60), <1>1, <1>2 DEF IInv, TypeOK, CallState
<1>4. action'[a].version = server' /\ \A b \in Actions \ {a} : action'[b] = action[b]
  BY <1>1 DEF IInv, TypeOK
<1>5. \A b \in Actions : action'[b].version <= server'
  BY <1>2, <1>4, VersionsAreNumbers DEF IInv, TypeOK, NothingFromTheFuture
<1> QED
  BY <1>1, <1>2, <1>3, <1>5, UnseenKeeps

LEMMA ActionFailsKeeps ==
  ASSUME IInv, NEW a \in Actions, ActionFails(a)
  PROVE  IInv'
<1>1. action' = Over(action, a) /\ UNCHANGED <<server, fetch, page, acked, overlapped>>
  BY DEF ActionFails
<1>2. /\ action' \in [Actions -> [state : CallState, version : Versions, here : BOOLEAN]]
      /\ \A b \in Actions : action'[b].version = action[b].version
  BY <1>1, ActionsTyped DEF IInv
<1>3. server' \in Versions /\ server' >= server
  BY <1>1, VersionsAreNumbers DEF IInv, TypeOK
<1> QED
  BY <1>1, <1>2, <1>3, UnseenKeeps DEF IInv, NothingFromTheFuture

\* The page learns of the change and refreshes in one step.
LEMMA ActionAnsweredKeeps ==
  ASSUME IInv, NEW a \in Actions, ActionAnswered(a)
  PROVE  IInv'
<1>1. action' = Over(action, a) /\ UNCHANGED server
  BY DEF ActionAnswered
<1>2. /\ action' \in [Actions -> [state : CallState, version : Versions, here : BOOLEAN]]
      /\ \A b \in Actions : action'[b].version = action[b].version
  BY <1>1, ActionsTyped DEF IInv
<1>3. CASE action[a].here
  <2>1. Refresh /\ acked' = Max({acked, action[a].version})
    BY <1>3 DEF ActionAnswered
  <2>2. acked \in Versions /\ action[a].version \in Versions
    BY DEF IInv, TypeOK
  <2>3. acked' \in Versions /\ acked' <= server
    <3>1. acked' \in {acked, action[a].version}
      BY <2>1, <2>2, LaterVersion
    <3> QED
      BY <2>2, <3>1 DEF IInv, NothingFromTheFuture
  <2> QED
    BY <1>1, <1>2, <2>1, <2>3, RefreshKeeps DEF IInv, NothingFromTheFuture
<1>4. CASE ~action[a].here
  <2>1. UNCHANGED <<fetch, page, acked, overlapped>>
    BY <1>4 DEF ActionAnswered
  <2>2. server' \in Versions /\ server' >= server
    BY <1>1, VersionsAreNumbers DEF IInv, TypeOK
  <2> QED
    BY <1>1, <1>2, <2>1, <2>2, UnseenKeeps DEF IInv, NothingFromTheFuture
<1> QED
  BY <1>3, <1>4

LEMMA OthersChangeKeeps ==
  ASSUME IInv, OthersChange
  PROVE  IInv'
<1>1. /\ server < MaxVersion /\ server' = server + 1
      /\ UNCHANGED <<fetch, action, page, acked, overlapped>>
  BY DEF OthersChange
<1>2. server' \in Versions /\ server' >= server
  BY <1>1, NewVersion DEF IInv
<1>3. \A b \in Actions : action'[b].version <= server'
  <2>1. \A b \in Actions : action[b].version \in Versions /\ action[b].version <= server
    BY DEF IInv, TypeOK, NothingFromTheFuture
  <2>2. server \in Versions
    BY DEF IInv, TypeOK
  <2> QED
    BY <1>1, <1>2, <2>1, <2>2, VersionsAreOrdered
<1> QED
  BY <1>1, <1>2, <1>3, UnseenKeeps DEF IInv, TypeOK

-----------------------------------------------------------------------------
LEMMA InitInv == Init => IInv
<1> SUFFICES ASSUME Init PROVE IInv
  OBVIOUS
<1>1. PICK f \in Fetches : fetch = Sent(NoFetch, f)
  BY DEF Init
<1>2. /\ server = 0 /\ page = Fresh /\ acked = 0 /\ overlapped = FALSE
      /\ action = [a \in Actions |-> [state |-> "idle", version |-> 0, here |-> TRUE]]
  BY DEF Init
<1>3. /\ NoFetch \in [Fetches -> [state : CallState, version : Versions]]
      /\ \A g \in Fetches : NoFetch[g].state = "idle" /\ NoFetch[g].version = 0
  BY VersionsAreNumbers DEF NoFetch, CallState
<1>4. /\ fetch \in [Fetches -> [state : CallState, version : Versions]]
      /\ fetch[f].state = "sent" /\ fetch[f].version = 0
      /\ \A g \in Fetches \ {f} : fetch[g].state = "idle" /\ fetch[g].version = 0
  BY <1>1, <1>3, CallsTyped
<1>5. TypeOK
  BY <1>2, <1>4, VersionsAreNumbers DEF TypeOK, Fresh, CallState
<1>6. NothingFromTheFuture
  BY <1>2, <1>4 DEF NothingFromTheFuture, Fresh
<1>7. OneFetch /\ FreshEnough /\ AtRest
  BY <1>4 DEF OneFetch, FreshEnough, AtRest
<1> QED
  BY <1>5, <1>6, <1>7 DEF IInv

LEMMA NextInv == IInv /\ [Next]_vars => IInv'
<1> SUFFICES ASSUME IInv, [Next]_vars PROVE IInv'
  OBVIOUS
<1>1. ASSUME NEW f \in Fetches, Settle(f) PROVE IInv'
  BY <1>1, ServeFetchKeeps, FetchArrivesKeeps, FetchFailsKeeps DEF Settle
<1>2. ASSUME NEW a \in Actions, Act(a) \/ ServeAction(a) \/ ActionAnswered(a) \/ ActionFails(a)
      PROVE  IInv'
  BY <1>2, ActKeeps, ServeActionKeeps, ActionAnsweredKeeps, ActionFailsKeeps
<1>3. CASE UNCHANGED vars
  BY <1>3 DEF vars, IInv, TypeOK, NothingFromTheFuture, OneFetch, FreshEnough, AtRest
<1> QED
  BY <1>1, <1>2, <1>3, RemountKeeps, OthersChangeKeeps DEF Next

LEMMA PageInvariant == Spec => []IInv
BY InitInv, NextInv, PTL DEF Spec

\* The state of the hook, of its fetches and of the page's actions has its type.
THEOREM PageTyped == Spec => []TypeOK
<1>1. IInv => TypeOK
  BY DEF IInv
<1> QED
  BY <1>1, PageInvariant, PTL

\* A page at rest, whose last fetches neither overlapped nor failed, shows what
\* its user was told was done: useApiData refreshes after each answer, and never
\* before it.
THEOREM PageShowsOwnWrites == Spec => []OwnWritesShown
<1>1. IInv => OwnWritesShown
  BY DEF IInv, AtRest, OwnWritesShown, Quiet, InFlight, TypeOK
<1> QED
  BY <1>1, PageInvariant, PTL

\* Whatever others do to the list, a page whose fetches do not overlap never goes
\* back to an older one.
THEOREM PageMovesOn == Spec => ListNeverGoesBack
<1> DEFINE Later == page.data # Nothing /\ page'.data # Nothing /\ ~overlapped
                    => page'.data >= page.data
<1>1. IInv /\ [Next]_vars => [Later]_page
  <2> SUFFICES ASSUME IInv, [Next]_vars, page' # page PROVE Later
    OBVIOUS
  <2>1. ASSUME NEW f \in Fetches, Settle(f) PROVE Later
    <3>1. CASE FetchArrives(f)
      <4>1. fetch[f].state = "answered" /\ page'.data = fetch[f].version
        BY <3>1 DEF FetchArrives, IInv, TypeOK
      <4> QED
        BY <4>1 DEF IInv, FreshEnough
    <3>2. CASE FetchFails(f)
      <4>1. page'.data = page.data
        BY <3>2 DEF FetchFails, IInv, TypeOK
      <4> QED
        BY <4>1, VersionsAreOrdered DEF IInv, TypeOK
    <3> QED
      BY <2>1, <3>1, <3>2 DEF Settle, ServeFetch
  <2>2. ASSUME Refresh PROVE Later
    <3>1. page'.data = page.data
      BY <2>2 DEF Refresh, IInv, TypeOK
    <3> QED
      BY <3>1, VersionsAreOrdered DEF IInv, TypeOK
  <2>3. CASE Remount
    BY <2>3 DEF Remount, Fresh
  <2> QED
    BY <2>1, <2>2, <2>3 DEF Next, vars, Act, ServeAction, ActionAnswered, ActionFails,
       OthersChange
<1> QED
  BY <1>1, PageInvariant, PTL DEF Spec, ListNeverGoesBack
=============================================================================
