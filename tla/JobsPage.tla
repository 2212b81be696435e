------------------------------ MODULE JobsPage ------------------------------
(***************************************************************************)
(* The job list of the frontend: the jobs store (stores/jobs.ts) as        *)
(* JobsView and the dashboard use it.  Both views share one store; every   *)
(* load overwrites what the last one brought, in the order in which the    *)
(* answers arrive.  A load by the view comes back to correct the view's    *)
(* page; one by the interval timer or the dashboard does not.  A view that *)
(* is left keeps its page for the loads it still waits for.                *)
(***************************************************************************)
EXTENDS Naturals, FiniteSets

CONSTANTS
    Views,      \* instances of JobsView, used again once none of their loads waits
    Filters,    \* values of the filters
    All,        \* no filter
    MaxPages,   \* bound on the number of pages of the table
    Slots,      \* bound on the loads under way at a time
    Timers,     \* handles of setInterval
    Setups,     \* sets of what happens besides loads, each a subset of Events
    None        \* no view, no timer, nothing shown

Events == {"filter", "page", "dashboard", "flush", "rows", "fail"}

ASSUME PagesAssumption == MaxPages \in Nat \ {0}
ASSUME FiltersAssumption == All \in Filters
ASSUME SetupsAssumption == \A s \in Setups : s \subseteq Events
ASSUME NoneAssumption == None \notin Views \cup Timers

VARIABLES
    setup,      \* which of the Setups this behaviour has
    pages,      \* pages of the backup_jobs table, the same under every filter
    view,       \* the mounted JobsView
    page,       \* currentPage of each view
    filter,     \* filter fields of the mounted view
    search,     \* a filter was typed, its 250 ms have not passed
    dashboard,  \* the dashboard is about to load the jobs
    flush,      \* a flush was done, its answer is on the way
    loads,      \* requests: [phase, view, query, total]
    shown,      \* jobs and totals of the store
    lastQuery,
    loading,
    enabled,    \* autoRefreshEnabled, the state of the check box
    timer,      \* refreshTimer
    live        \* timers that were set and not cleared

store == <<shown, lastQuery, loading>>
refresh == <<enabled, timer, live>>
vars == <<setup, pages, view, page, filter, search, dashboard, flush, loads, store, refresh>>

Query == [filter : Filters, page : 1 .. MaxPages]
\* A load: not in use, on the way to the server, or its answer on the way back: the
\* jobs, or an empty list in the place of an error.
Phases == {"free", "sent", "served", "refused"}
Loads == [phase : Phases, view : Views \cup {None}, query : Query,
          total : 0 .. MaxPages]
Shown == [query : Query, total : 0 .. MaxPages]
FirstPage == [filter |-> All, page |-> 1]
FreeLoad == [phase |-> "free", view |-> None, query |-> FirstPage, total |-> 0]

TypeOK ==
    /\ setup \in Setups
    /\ pages \in 0 .. MaxPages
    /\ view \in Views \cup {None}
    /\ page \in [Views -> 1 .. MaxPages]
    /\ filter \in Filters
    /\ loads \in [Slots -> Loads]
    /\ shown \in Shown \cup {None}
    /\ lastQuery \in Query
    /\ search \in BOOLEAN /\ dashboard \in BOOLEAN /\ flush \in BOOLEAN
    /\ loading \in BOOLEAN /\ enabled \in BOOLEAN
    /\ timer \in Timers \cup {None}
    /\ live \subseteq Timers

Init ==
    /\ setup \in Setups
    /\ pages = MaxPages
    /\ view = None
    /\ page = [v \in Views |-> 1]
    /\ filter = All
    /\ search = FALSE /\ dashboard = FALSE /\ flush = FALSE
    /\ loads = [s \in Slots |-> FreeLoad]
    /\ shown = None
    /\ lastQuery = FirstPage
    /\ loading = FALSE /\ enabled = FALSE
    /\ timer = None
    /\ live = {}

-----------------------------------------------------------------------------
(***************************************************************************)
(* Loads.                                                                  *)
(***************************************************************************)
Free == {s \in Slots : loads[s].phase = "free"}
WaitsFor(v) == \E s \in Slots : loads[s].phase # "free" /\ loads[s].view = v

\* Mutation of Load: the query of the timer is not kept up to date.
LoadForgetsQuery(v, q) ==
    /\ \E s \in Free : loads' = [loads EXCEPT ![s] = [phase |-> "sent", view |-> v,
                                                      query |-> q, total |-> 0]]
    /\ loading' = TRUE
    /\ UNCHANGED <<shown, lastQuery>>

\* loadJobs: the query is kept for the timer and the request sent.
Sent(v, q) == [phase |-> "sent", view |-> v, query |-> q, total |-> 0]
Load(v, q) ==
    /\ \E s \in Free : loads' = [loads EXCEPT ![s] = Sent(v, q)]
    /\ lastQuery' = q
    /\ loading' = TRUE
    /\ UNCHANGED shown

\* The server reads the table.
Serve(s) ==
    /\ loads[s].phase = "sent"
    /\ loads' = [loads EXCEPT ![s].phase = "served", ![s].total = pages]
    /\ UNCHANGED <<setup, pages, view, page, filter, search, dashboard, flush, store, refresh>>

\* Reading the table fails: the answer is an empty list.
Refuse(s) ==
    /\ "fail" \in setup
    /\ loads[s].phase = "sent"
    /\ loads' = [loads EXCEPT ![s].phase = "refused"]
    /\ UNCHANGED <<setup, pages, view, page, filter, search, dashboard, flush, store, refresh>>

\* Mutation of LastPage: an empty table has no page.
LastPageOrNone(total) == total

\* The last page there is, by the store's total.
LastPage(total) == IF total = 0 THEN 1 ELSE total
Total(list) == IF list = None THEN 0 ELSE list.total

\* loadJobs returned, and the store's total is n: a view whose page is beyond the
\* last one goes to the last one and loads again, once.
Continue(s, n) ==
    LET v == loads[s].view
        q == [loads[s].query EXCEPT !.page = LastPage(n)]
    IN  IF v # None /\ page[v] > LastPage(n)
        THEN /\ page' = [page EXCEPT ![v] = LastPage(n)]
             /\ loads' = [loads EXCEPT ![s] = Sent(None, q)]
             /\ lastQuery' = q
             /\ loading' = TRUE
        ELSE /\ loads' = [loads EXCEPT ![s] = FreeLoad]
             /\ loading' = FALSE
             /\ UNCHANGED <<page, lastQuery>>

\* An answer arrives and is shown, whatever was asked for since.
Arrive(s) ==
    /\ loads[s].phase \in {"served", "refused"}
    /\ shown' = [query |-> loads[s].query, total |-> loads[s].total]
    /\ Continue(s, loads[s].total)
    /\ UNCHANGED <<setup, pages, view, filter, search, dashboard, flush, refresh>>

\* A request fails: the list stays, and the view corrects its page by it.
Fail(s) ==
    /\ "fail" \in setup
    /\ loads[s].phase # "free"
    /\ Continue(s, Total(shown))
    /\ UNCHANGED <<setup, pages, view, filter, search, dashboard, flush, shown, refresh>>

-----------------------------------------------------------------------------
(***************************************************************************)
(* The views.                                                              *)
(***************************************************************************)
\* JobsView is mounted: the route may name a device or a job.  The watchers of
\* the fields it sets start a search.
Mount(v) ==
    /\ view = None /\ ~WaitsFor(v)
    /\ view' = v
    /\ page' = [page EXCEPT ![v] = 1]
    /\ filter' \in IF "filter" \in setup THEN Filters ELSE {All}
    /\ search' = (filter' # All)
    /\ Load(v, [filter |-> filter', page |-> 1])
    /\ UNCHANGED <<setup, pages, dashboard, flush, refresh>>

\* Mutation of Unmount: the timer is left running.
UnmountKeepsTimer ==
    /\ view # None
    /\ view' = None
    /\ search' = FALSE
    /\ filter' = All
    /\ dashboard' \in {dashboard} \cup (IF "dashboard" \in setup THEN {TRUE} ELSE {})
    /\ UNCHANGED <<setup, pages, page, flush, loads, store, refresh>>

\* onBeforeUnmount: stopAutoRefresh clears the timer and leaves the box checked; a
\* search is dropped.  Another view, perhaps the dashboard, is opened.
Unmount ==
    /\ view # None
    /\ view' = None
    /\ search' = FALSE
    /\ filter' = All
    /\ dashboard' \in {dashboard} \cup (IF "dashboard" \in setup THEN {TRUE} ELSE {})
    /\ timer' = None
    /\ live' = live \ {timer}
    /\ UNCHANGED <<setup, pages, page, flush, loads, store, enabled>>

\* The dashboard's onMounted gets to its load, even if the dashboard was left.
DashboardLoad ==
    /\ dashboard
    /\ dashboard' = FALSE
    /\ Load(None, FirstPage)
    /\ UNCHANGED <<setup, pages, view, page, filter, search, flush, refresh>>

\* A filter is typed; after 250 ms the first page is loaded.
Type(f) ==
    /\ "filter" \in setup /\ view # None /\ f # filter
    /\ filter' = f
    /\ search' = TRUE
    /\ UNCHANGED <<setup, pages, view, page, dashboard, flush, loads, store, refresh>>

Search ==
    /\ search
    /\ search' = FALSE
    /\ page' = [page EXCEPT ![view] = 1]
    /\ Load(view, [filter |-> filter, page |-> 1])
    /\ UNCHANGED <<setup, pages, view, filter, dashboard, flush, refresh>>

\* A filter is chosen from a list, or the filters are cleared: the first page is
\* loaded at once.  What was typed before is still searched for, and so is a field
\* that was emptied by clearing.
Choose(f) ==
    /\ "filter" \in setup /\ view # None
    /\ filter' = f
    /\ page' = [page EXCEPT ![view] = 1]
    /\ search' \in {search} \cup (IF f = All /\ f # filter THEN {TRUE} ELSE {})
    /\ Load(view, [filter |-> f, page |-> 1])
    /\ UNCHANGED <<setup, pages, view, dashboard, flush, refresh>>

\* goToPreviousPage, goToNextPage: the last page is the store's.
Turn(n) ==
    /\ "page" \in setup /\ view # None
    /\ \/ n + 1 = page[view]
       \/ n = page[view] + 1 /\ n <= LastPage(Total(shown))
    /\ page' = [page EXCEPT ![view] = n]
    /\ Load(view, [filter |-> filter, page |-> n])
    /\ UNCHANGED <<setup, pages, view, filter, search, dashboard, flush, refresh>>

\* handleRefresh, by a button that is disabled while the store is loading.
Refresh ==
    /\ view # None /\ ~loading
    /\ Load(view, [filter |-> filter, page |-> page[view]])
    /\ UNCHANGED <<setup, pages, view, page, filter, search, dashboard, flush, refresh>>

-----------------------------------------------------------------------------
(***************************************************************************)
(* Auto-refresh.                                                           *)
(***************************************************************************)
\* setInterval returns a handle that is not in use.
Unused(handles) == CHOOSE h \in Timers \ handles : TRUE

\* setAutoRefresh, by the check box (on is the opposite of enabled) or by a new
\* interval (on is enabled): the timer is started afresh.
SetAutoRefresh(on) ==
    LET others == live \ {timer}
    IN  /\ view # None
        /\ enabled' = on
        /\ Timers \ others # {}
        /\ timer' = IF on THEN Unused(others) ELSE None
        /\ live' = others \cup ({timer'} \ {None})
        /\ UNCHANGED <<setup, pages, view, page, filter, search, dashboard, flush, loads, store>>

\* The interval passed: the last query is loaded again, even if a load is under way.
Tick(h) ==
    /\ h \in live
    /\ Load(None, lastQuery)
    /\ UNCHANGED <<setup, pages, view, page, filter, search, dashboard, flush, refresh>>

-----------------------------------------------------------------------------
(***************************************************************************)
(* The server.                                                             *)
(***************************************************************************)
\* Backups and retention change the table.
Rows ==
    /\ "rows" \in setup
    /\ pages' \in 0 .. MaxPages /\ pages' # pages
    /\ UNCHANGED <<setup, view, page, filter, search, dashboard, flush, loads, store, refresh>>

\* The table is flushed.
Flush ==
    /\ "flush" \in setup /\ view # None /\ ~flush
    /\ pages' = 0
    /\ flush' = TRUE
    /\ UNCHANGED <<setup, view, page, filter, search, dashboard, loads, store, refresh>>

\* clearAllJobs when the answer to the flush arrives.
FlushAnswered ==
    /\ flush
    /\ flush' = FALSE
    /\ shown' = None
    /\ UNCHANGED <<setup, pages, view, page, filter, search, dashboard, loads, lastQuery,
                   loading, refresh>>

Next ==
    \/ \E s \in Slots : Serve(s) \/ Refuse(s) \/ Arrive(s) \/ Fail(s)
    \/ (\E v \in Views : Mount(v)) \/ Unmount \/ DashboardLoad
    \/ \E f \in Filters : Type(f) \/ Choose(f)
    \/ \E n \in 1 .. MaxPages : Turn(n)
    \/ Search \/ Refresh
    \/ \E on \in BOOLEAN : SetAutoRefresh(on)
    \/ \E h \in Timers : Tick(h)
    \/ Rows \/ Flush \/ FlushAnswered

Spec == Init /\ [][Next]_vars

\* Requests are answered or fail, and not for ever fail; an interval timer fires;
\* a flush is answered.
Fairness ==
    /\ \A s \in Slots : WF_vars(Serve(s) \/ Refuse(s) \/ Arrive(s) \/ Fail(s))
    /\ SF_vars(\E s \in Slots : Serve(s))
    /\ SF_vars(\E s \in Slots : loads[s].phase = "served" /\ Arrive(s))
    /\ WF_vars(\E h \in Timers : Tick(h))
    /\ WF_vars(FlushAnswered)

FairSpec == Spec /\ Fairness

-----------------------------------------------------------------------------
(***************************************************************************)
(* Properties.                                                             *)
(***************************************************************************)
\* No timer outlives the view or its successor: at most the one the store knows
\* refreshes the list, and only while JobsView is open (onBeforeUnmount,
\* setAutoRefresh).
NoStrayTimer ==
    /\ live = {timer} \ {None}
    /\ live # {} => view # None

\* The timer runs, and neither the last query nor the table changes any more.
Resting == /\ <>[](timer # None /\ ~flush)
           /\ <>[][UNCHANGED <<lastQuery, pages>>]_vars
UpToDate == shown = [query |-> lastQuery, total |-> pages]

\* However old answers, corrected pages, the dashboard and a flush mix with it, the
\* list comes to show what the last query asks for, and keeps it.  Requests and
\* reads of the table that fail do not keep it from showing that again and again.
RefreshSettles ==
    Resting => /\ []<>UpToDate
               /\ "fail" \in setup \/ <>[]UpToDate
=============================================================================
