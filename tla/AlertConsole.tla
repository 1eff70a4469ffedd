---------------------------- MODULE AlertConsole ----------------------------
(***************************************************************************)
(* The operator's alert queue of the dashboard (alerts-manager.tsx) over   *)
(* the paged query alerts.list and the mutations of routers/alerts.ts.     *)
(*                                                                         *)
(* The queue keeps one cached view for paused mode and one for live mode.  *)
(* A view is loaded page by page, each page by a request of its own that   *)
(* starts below the last alert of the page before; meanwhile alerts are    *)
(* raised, with a creation time that may be older than what was read, and  *)
(* handled by others.  Live mode reads the loaded pages again on a timer   *)
(* and after each mutation; paused mode patches its view instead.          *)
(*                                                                         *)
(* Abstractions.  Alerts stands for the alerts that match the filters and  *)
(* the subscription of the operator.  A stamp is a creation time as        *)
(* JavaScript keeps it, in milliseconds.  Sorting within the view, its     *)
(* removal after five minutes out of sight, and the view of another filter *)
(* are left out.  The engine behind the mutations is AlertLifecycle, which *)
(* one request at a time implements (AlertBoard).                          *)
(***************************************************************************)
EXTENDS Naturals, FiniteSetsExt, SequencesExt

CONSTANTS
    Alerts,
    PAGE,           \* alerts on a page (100)
    BATCH,          \* most alerts in one batch (50)
    MaxStamp,       \* bound: creation times
    MaxClicks       \* bound: what the operator does, and requests for a page that fail

ASSUME QueueAssumption ==
    /\ IsFiniteSet(Alerts) /\ Alerts # {}
    /\ MaxStamp \in Nat /\ MaxClicks \in Nat

VARIABLES
    status, stamp,  \* table alerts
    live,           \* the mode
    cache,          \* [Keys -> View]
    fetch,          \* [Keys -> the fetch under way]
    call,           \* the mutation under way (bound: one at a time)
    clicks          \* count for the bound

queueVars == <<status, stamp, live, cache, fetch, call, clicks>>

Lifecycle == INSTANCE AlertLifecycle

Keys == {"paused", "live"}
Key == IF live THEN "live" ELSE "paused"
Ops == {"acknowledge", "resolve", "batchResolve"}

NoCursor == 0
Stamps == 1..MaxStamp

\* A page holds the status of its alerts and the cursor of the page after it.
\* History: the alerts that were open when a view's first page was read, and those
\* a batch took out of the view although the engine had refused it.
Empty == [pages |-> <<>>, open |-> {}, hidden |-> {}]
NoFetch == [left |-> 0, more |-> FALSE, view |-> Empty]
NoCall == [op |-> "none", ids |-> {}, stage |-> "none"]

IsOpen(a) == status[a] \notin {"absent", "resolved"}

ShownBy(page) == DOMAIN page.rows
Shown(view) == UNION {ShownBy(view.pages[i]) : i \in 1..Len(view.pages)}
StatusShown(view, a) ==
    LET i == CHOOSE i \in 1..Len(view.pages) : a \in ShownBy(view.pages[i])
    IN  view.pages[i].rows[a]
HasNextPage(view) == view.pages # <<>> /\ Last(view.pages).next # NoCursor

Page == [rows : UNION {[S -> Lifecycle!Status] : S \in SUBSET Alerts}, next : {NoCursor} \cup Stamps]
View == [pages : Seq(Page), open : SUBSET Alerts, hidden : SUBSET Alerts]

\* All pages of a view are to be read again, one after the other.
Refetch_OneMore(k) == [left |-> Len(cache[k].pages) + 1, more |-> FALSE, view |-> Empty]
Refetch(k) == [left |-> Max({1, Len(cache[k].pages)}), more |-> FALSE, view |-> Empty]

QueueTypeOK ==
    /\ status \in [Alerts -> Lifecycle!Status]
    /\ stamp \in [Alerts -> {NoCursor} \cup Stamps]
    /\ live \in BOOLEAN
    /\ cache \in [Keys -> View]
    /\ fetch \in [Keys -> [left : 0..Cardinality(Alerts), more : BOOLEAN, view : View]]
    /\ call \in [op : Ops, ids : SUBSET Alerts, stage : {"sent", "ok", "refused"}] \cup {NoCall}
    /\ clicks \in 0..MaxClicks

QueueInit ==
    /\ Lifecycle!Init
    /\ stamp = [a \in Alerts |-> NoCursor]
    /\ live = FALSE
    /\ cache = [k \in Keys |-> Empty]
    /\ fetch = [k \in Keys |-> IF k = Key THEN Refetch(k) ELSE NoFetch]
    /\ call = NoCall
    /\ clicks = 0

-----------------------------------------------------------------------------
(* The engine: the evaluator stamps an alert some time before its row is there;
   other operators handle alerts. *)

Raise(a, t) ==
    /\ Lifecycle!Raise(a)
    /\ stamp' = [stamp EXCEPT ![a] = t]
    /\ UNCHANGED <<live, cache, fetch, call, clicks>>

HandleElsewhere(a, next) ==
    /\ Lifecycle!Transition({a}, next)
    /\ UNCHANGED <<stamp, live, cache, fetch, call, clicks>>

-----------------------------------------------------------------------------
(* alerts.list *)

Matching_UpTo(cursor) == {a \in Alerts : IsOpen(a) /\ (cursor # NoCursor => stamp[a] \leq cursor)}
Matching(cursor) == {a \in Alerts : IsOpen(a) /\ (cursor # NoCursor => stamp[a] < cursor)}

\* ORDER BY created_at DESC LIMIT, those of one stamp in any order.
IsNewest(S, T) ==
    /\ Cardinality(S) = Min({PAGE, Cardinality(T)})
    /\ \A a \in S, b \in T \ S : stamp[a] \geq stamp[b]

\* items[items.length - 1].createdAt, when there is more (a set of one element).
NextCursor_OfNextRow(S, T) ==
    IF S = T THEN {NoCursor}
    ELSE {stamp[a] : a \in {a \in T \ S : \A b \in T \ S : stamp[a] \geq stamp[b]}}
NextCursor(S, T) ==
    IF S = T THEN {NoCursor}
    ELSE {stamp[a] : a \in {a \in S : \A b \in S : stamp[a] \leq stamp[b]}}

PageOf(S, next) == [rows |-> [a \in S |-> status[a]], next |-> next]

Select(T) ==
    UNION {{PageOf(S, next) : next \in NextCursor(S, T)} : S \in {S \in SUBSET T : IsNewest(S, T)}}

-----------------------------------------------------------------------------
(* useInfiniteQuery *)

\* A fetch of the current view that is under way is given up.
Refetched == [fetch EXCEPT ![Key] = Refetch(Key)]

\* The timer of live mode does not disturb one.
Poll ==
    /\ live /\ fetch["live"] = NoFetch
    /\ fetch' = Refetched
    /\ UNCHANGED <<status, stamp, live, cache, call, clicks>>

\* The list is scrolled near its end: the next page is to be appended to the view as
\* it is now; a fetch of all pages is given up for it.
FetchNextPage ==
    /\ HasNextPage(cache[Key])
    /\ ~fetch[Key].more
    /\ fetch' = [fetch EXCEPT ![Key] = [left |-> 1, more |-> TRUE, view |-> cache[Key]]]
    /\ UNCHANGED <<status, stamp, live, cache, call, clicks>>

\* The last page of the fetch has been read.
Complete(f) == f.left = 0 \/ (f.view.pages # <<>> /\ ~HasNextPage(f.view))

ReadPage(k) ==
    LET f == fetch[k]
        first == f.view.pages = <<>>
    IN  /\ f # NoFetch /\ ~Complete(f)
        /\ \E page \in Select(Matching(IF first THEN NoCursor ELSE Last(f.view.pages).next)) :
             fetch' = [fetch EXCEPT ![k] =
                 [f EXCEPT !.left = @ - 1,
                           !.view.pages = Append(@, page),
                           !.view.open = IF first THEN {a \in Alerts : IsOpen(a)} ELSE @]]
        /\ UNCHANGED <<status, stamp, live, cache, call, clicks>>

\* The result replaces the view, with whatever was patched since the fetch began.
FinishFetch(k) ==
    /\ fetch[k] # NoFetch /\ Complete(fetch[k])
    /\ cache' = [cache EXCEPT ![k] = fetch[k].view]
    /\ fetch' = [fetch EXCEPT ![k] = NoFetch]
    /\ UNCHANGED <<status, stamp, live, call, clicks>>

Click == clicks < MaxClicks /\ clicks' = clicks + 1

FailFetch(k) ==
    /\ fetch[k] # NoFetch
    /\ Click
    /\ fetch' = [fetch EXCEPT ![k] = NoFetch]
    /\ UNCHANGED <<status, stamp, live, cache, call>>

-----------------------------------------------------------------------------
(* The operator *)

\* handleGoLive invalidates the view that is about to be left; the one that is
\* mounted is read by Poll.
GoLive ==
    /\ Click /\ ~live
    /\ live' = TRUE
    /\ fetch' = Refetched
    /\ UNCHANGED <<status, stamp, cache, call>>

\* The view of paused mode is mounted, and read again if it is ten seconds old.
Pause ==
    /\ Click /\ live
    /\ live' = FALSE
    /\ \/ fetch["paused"] = NoFetch /\ fetch' = [fetch EXCEPT !["paused"] = Refetch("paused")]
       \/ UNCHANGED fetch
    /\ UNCHANGED <<status, stamp, cache, call>>

\* handleRefresh, or the window gets the focus.
Refresh ==
    /\ Click
    /\ fetch' = Refetched
    /\ UNCHANGED <<status, stamp, live, cache, call>>

\* What the buttons of the view offer: one alert, or up to BATCH acknowledged ones.
AcknowledgedIds == {a \in Shown(cache[Key]) : StatusShown(cache[Key], a) = "acknowledged"}
Offered(op) ==
    CASE op = "acknowledge"  -> {{a} : a \in Shown(cache[Key]) \ AcknowledgedIds}
      [] op = "resolve"      -> {{a} : a \in Shown(cache[Key])}
      [] op = "batchResolve" ->
           kSubset(Min({BATCH, Cardinality(AcknowledgedIds)}), AcknowledgedIds) \ {{}}

Mutate(op, ids) ==
    /\ Click
    /\ call = NoCall
    /\ ids \in Offered(op)
    /\ call' = [op |-> op, ids |-> ids, stage |-> "sent"]
    /\ UNCHANGED <<status, stamp, live, cache, fetch>>

-----------------------------------------------------------------------------
(* A mutation: the dashboard's server calls the engine (callRustEndpoint).  *)

Target == IF call.op = "acknowledge" THEN "acknowledged" ELSE "resolved"
Eligible == {a \in call.ids : Lifecycle!CanTransition(status[a], Target)}

\* The engine moves what is eligible.  A single alert that is not is an error, of a
\* batch it only lowers the count.
Serve ==
    /\ call.stage = "sent"
    /\ Eligible # {} \/ call.op = "batchResolve"
    /\ Lifecycle!Transition(Eligible, Target)
    /\ \/ call' = [call EXCEPT !.stage = "ok"]
       \/ call' = NoCall                        \* the answer is lost
    /\ UNCHANGED <<stamp, live, cache, fetch, clicks>>

\* The engine refuses or does not answer, which changes nothing on the page.  But
\* for a batch that it refuses the server answers {resolved: 0, failed: n}, which
\* is a success.
Refuse_Unnoticed ==
    /\ call.stage = "sent"
    /\ call' = [call EXCEPT !.stage = IF call.op = "batchResolve" THEN "refused" ELSE "ok"]
    /\ UNCHANGED <<status, stamp, live, cache, fetch, clicks>>
Refuse ==
    /\ call.stage = "sent"
    /\ call' = IF call.op = "batchResolve" THEN [call EXCEPT !.stage = "refused"] ELSE NoCall
    /\ UNCHANGED <<status, stamp, live, cache, fetch, clicks>>

\* patchStatus, removeItem, removeItems: on every page of the view.
Patched(page) == [page EXCEPT !.rows =
    IF call.op = "acknowledge"
      THEN [a \in DOMAIN @ |-> IF a \in call.ids THEN "acknowledged" ELSE @[a]]
      ELSE [a \in DOMAIN @ \ call.ids |-> @[a]]]

Patch(view) ==
    [view EXCEPT
       !.pages = [i \in DOMAIN @ |-> Patched(@[i])],
       !.hidden = IF call.stage = "refused" THEN @ \cup call.ids ELSE @]

\* onSuccess, with the mode of the moment: live mode reads the pages again, paused
\* mode patches its view, never the result of a fetch that is under way.
Settle ==
    /\ call.stage \in {"ok", "refused"}
    /\ fetch' = IF live THEN Refetched ELSE fetch
    /\ cache' = IF live THEN cache ELSE [cache EXCEPT !["paused"] = Patch(@)]
    /\ call' = NoCall
    /\ UNCHANGED <<status, stamp, live, clicks>>

QueueNext ==
    \/ \E a \in Alerts, t \in Stamps : Raise(a, t)
    \/ \E a \in Alerts, next \in Lifecycle!Targets : HandleElsewhere(a, next)
    \/ Poll \/ FetchNextPage \/ GoLive \/ Pause \/ Refresh
    \/ \E k \in Keys : ReadPage(k) \/ FinishFetch(k) \/ FailFetch(k)
    \/ \E op \in Ops, ids \in SUBSET Alerts : Mutate(op, ids)
    \/ Serve \/ Refuse \/ Settle

QueueSpec == QueueInit /\ [][QueueNext]_queueVars

-----------------------------------------------------------------------------
(* Properties *)

\* No view lists an alert twice: pages that are read at different times, while
\* alerts are raised with older stamps and others leave the list, do not overlap.
PagesAreDisjoint ==
    \A k \in Keys :
        LET pages == cache[k].pages IN
        \A i, j \in 1..Len(pages) : i # j => ShownBy(pages[i]) \cap ShownBy(pages[j]) = {}

\* A view that has been loaded to the end misses no alert that was open when it was
\* begun and still is, but those that share their millisecond with the last alert
\* of a page, and those a refused batch took out of a paused view.
NothingElseIsMissed ==
    \A k \in Keys :
        LET view == cache[k]
            cursors == {view.pages[i].next : i \in 1..Len(view.pages)}
        IN  view.pages # <<>> /\ ~HasNextPage(view) =>
              \A a \in view.open : IsOpen(a) =>
                \/ a \in Shown(view) \/ a \in view.hidden
                \/ stamp[a] \in cursors /\ \E b \in Alerts \ {a} : stamp[b] = stamp[a]

\* A view may lag behind the table, with fetches and patches that overwrite each
\* other, but is never ahead of it: what it shows as handled was handled.
ViewIsNeverAhead ==
    \A k \in Keys : \A a \in Shown(cache[k]) :
        /\ StatusShown(cache[k], a) # "resolved"
        /\ StatusShown(cache[k], a) = "acknowledged" => status[a] \in Lifecycle!Targets

=============================================================================
