-------------------------- MODULE JobsPage_proofs --------------------------
(***************************************************************************)
(* Proofs about JobsPage for any views, filters, pages, loads and timers.  *)
(***************************************************************************)
EXTENDS JobsPage, TLAPS

\* What is searched for is typed into a view.
SearchInView == search => view # None

IInv == TypeOK /\ NoStrayTimer /\ SearchInView

-----------------------------------------------------------------------------
\* A load keeps the types of the requests and of the store.
LEMMA LoadTypes ==
    ASSUME TypeOK, NEW v \in Views \cup {None}, NEW q \in Query, Load(v, q)
    PROVE  /\ loads' \in [Slots -> Loads] /\ shown' \in Shown \cup {None}
           /\ lastQuery' \in Query /\ loading' \in BOOLEAN
<1>1. Sent(v, q) \in Loads
  BY PagesAssumption DEF Sent, Loads, Phases
<1> QED BY <1>1 DEF Load, TypeOK, Free

\* So does what follows an answer or a failure.
LEMMA ContinueTypes ==
    ASSUME TypeOK, NEW s \in Slots, NEW n \in 0 .. MaxPages, Continue(s, n)
    PROVE  /\ loads' \in [Slots -> Loads] /\ page' \in [Views -> 1 .. MaxPages]
           /\ lastQuery' \in Query /\ loading' \in BOOLEAN
<1>1. loads[s] \in Loads
  BY DEF TypeOK
<1>2. LastPage(n) \in 1 .. MaxPages
  BY PagesAssumption DEF LastPage
<1> DEFINE q == [loads[s].query EXCEPT !.page = LastPage(n)]
<1>3. q \in Query
  BY <1>1, <1>2 DEF Loads, Query
<1>4. Sent(None, q) \in Loads
  BY <1>3, PagesAssumption DEF Sent, Loads, Phases
<1>5. FreeLoad \in Loads
  BY PagesAssumption, FiltersAssumption DEF FreeLoad, FirstPage, Loads, Phases, Query
<1> QED BY <1>2, <1>3, <1>4, <1>5 DEF Continue, TypeOK

\* The initial state.
LEMMA InitIInv == Init => IInv
<1> SUFFICES ASSUME Init PROVE IInv
  OBVIOUS
<1>1. FirstPage \in Query /\ FreeLoad \in Loads
  BY PagesAssumption, FiltersAssumption DEF FreeLoad, FirstPage, Loads, Phases, Query
<1>2. TypeOK
  <2>1. pages \in 0 .. MaxPages /\ page \in [Views -> 1 .. MaxPages] /\ filter \in Filters
    BY PagesAssumption, FiltersAssumption DEF Init
  <2>2. loads \in [Slots -> Loads] /\ lastQuery \in Query
    BY <1>1 DEF Init
  <2> QED BY <2>1, <2>2 DEF Init, TypeOK
<1> QED BY <1>2 DEF Init, IInv, NoStrayTimer, SearchInView

\* Every step keeps the types.
LEMMA NextTypes == IInv /\ [Next]_vars => TypeOK'
<1> SUFFICES ASSUME IInv, [Next]_vars PROVE TypeOK'
  OBVIOUS
<1>1. TypeOK /\ SearchInView
  BY DEF IInv
<1>2. FirstPage \in Query
  BY PagesAssumption, FiltersAssumption DEF FirstPage, Query
<1>3. \A f \in Filters, n \in 1 .. MaxPages : [filter |-> f, page |-> n] \in Query
  BY DEF Query
<1>4. 1 \in 1 .. MaxPages /\ All \in Filters
  BY PagesAssumption, FiltersAssumption
<1>5. ASSUME NEW s \in Slots, Serve(s) PROVE TypeOK'
  <2>1. loads[s] \in Loads
    BY <1>1 DEF TypeOK
  <2>2. [loads[s] EXCEPT !.phase = "served"] \in Loads
    BY <2>1 DEF Loads, Phases
  <2>3. [[loads[s] EXCEPT !.phase = "served"] EXCEPT !.total = pages] \in Loads
    BY <1>1, <2>2 DEF Loads, Phases, TypeOK
  <2>4. [loads[s] EXCEPT !.phase = "served", !.total = pages]
          = [[loads[s] EXCEPT !.phase = "served"] EXCEPT !.total = pages]
    BY <2>1 DEF Loads
  <2>5. loads' = [loads EXCEPT ![s] = [loads[s] EXCEPT !.phase = "served", !.total = pages]]
    BY <1>5 DEF Serve
  <2>6. loads' \in [Slots -> Loads]
    BY <1>1, <2>3, <2>4, <2>5 DEF TypeOK
  <2> QED BY <1>1, <1>5, <2>6 DEF Serve, TypeOK, store, refresh
<1>20. ASSUME NEW s \in Slots, Refuse(s) PROVE TypeOK'
  <2>1. loads[s] \in Loads
    BY <1>1 DEF TypeOK
  <2>2. [loads[s] EXCEPT !.phase = "refused"] \in Loads
    BY <2>1 DEF Loads, Phases
  <2>3. loads' = [loads EXCEPT ![s] = [loads[s] EXCEPT !.phase = "refused"]]
    BY <1>20 DEF Refuse
  <2> QED BY <1>1, <1>20, <2>2, <2>3 DEF Refuse, TypeOK, store, refresh
<1>6. ASSUME NEW s \in Slots, Arrive(s) PROVE TypeOK'
  <2>1. loads[s] \in Loads
    BY <1>1 DEF TypeOK
  <2>2. shown' \in Shown
    BY <1>6, <2>1 DEF Arrive, Shown, Loads
  <2> QED BY <1>1, <1>6, <2>1, <2>2, ContinueTypes DEF Arrive, TypeOK, refresh, Loads
<1>7. ASSUME NEW s \in Slots, Fail(s) PROVE TypeOK'
  <2>1. Total(shown) \in 0 .. MaxPages
    BY <1>1, PagesAssumption DEF TypeOK, Total, Shown
  <2> QED BY <1>1, <1>7, <2>1, ContinueTypes DEF Fail, TypeOK, refresh
<1>8. ASSUME NEW v \in Views, Mount(v) PROVE TypeOK'
  <2>1. filter' \in Filters
    BY <1>4, <1>8 DEF Mount
  <2> QED BY <1>1, <1>3, <1>4, <1>8, <2>1, LoadTypes DEF Mount, TypeOK, refresh
<1>9. CASE Unmount
  BY <1>1, <1>4, <1>9 DEF Unmount, TypeOK, store
<1>10. CASE DashboardLoad
  BY <1>1, <1>2, <1>10, LoadTypes DEF DashboardLoad, TypeOK, refresh
<1>11. ASSUME NEW f \in Filters, Type(f) PROVE TypeOK'
  BY <1>1, <1>11 DEF Type, TypeOK, store, refresh
<1>12. ASSUME NEW f \in Filters, Choose(f) PROVE TypeOK'
  BY <1>1, <1>3, <1>4, <1>12, LoadTypes DEF Choose, TypeOK, refresh
<1>13. ASSUME NEW n \in 1 .. MaxPages, Turn(n) PROVE TypeOK'
  BY <1>1, <1>3, <1>13, LoadTypes DEF Turn, TypeOK, refresh
<1>14. CASE Search
  BY <1>1, <1>3, <1>4, <1>14, LoadTypes DEF Search, TypeOK, SearchInView, refresh
<1>15. CASE Refresh
  BY <1>1, <1>3, <1>15, LoadTypes DEF Refresh, TypeOK, refresh
<1>16. ASSUME NEW on \in BOOLEAN, SetAutoRefresh(on) PROVE TypeOK'
  <2>1. Unused(live \ {timer}) \in Timers
    BY <1>16 DEF SetAutoRefresh, Unused
  <2> QED BY <1>1, <1>16, <2>1 DEF SetAutoRefresh, TypeOK, store
<1>17. ASSUME NEW h \in Timers, Tick(h) PROVE TypeOK'
  <2>1. lastQuery \in Query
    BY <1>1 DEF TypeOK
  <2> QED BY <1>1, <1>17, <2>1, LoadTypes DEF Tick, TypeOK, refresh
<1>18. CASE Rows \/ Flush \/ FlushAnswered
  <2>1. pages' \in 0 .. MaxPages
    BY <1>1, <1>18, PagesAssumption DEF Rows, Flush, FlushAnswered, TypeOK
  <2>2. CASE Rows
    BY <1>1, <2>1, <2>2 DEF Rows, TypeOK, store, refresh
  <2>3. CASE Flush
    BY <1>1, <2>1, <2>3 DEF Flush, TypeOK, store, refresh
  <2>4. CASE FlushAnswered
    BY <1>1, <2>1, <2>4 DEF FlushAnswered, TypeOK, refresh
  <2> QED BY <1>18, <2>2, <2>3, <2>4
<1>19. CASE UNCHANGED vars
  BY <1>1, <1>19 DEF vars, store, refresh, TypeOK
<1> QED BY <1>5, <1>6, <1>7, <1>8, <1>9, <1>10, <1>11, <1>12, <1>13, <1>14, <1>15, <1>16,
           <1>17, <1>18, <1>19, <1>20 DEF Next

\* Timers start only by the check box or the interval, which clear the one before,
\* and end with the view.
LEMMA NextTimer == IInv /\ [Next]_vars => NoStrayTimer' /\ SearchInView'
<1> SUFFICES ASSUME IInv, [Next]_vars PROVE NoStrayTimer' /\ SearchInView'
  OBVIOUS
<1>1. TypeOK /\ NoStrayTimer /\ SearchInView
  BY DEF IInv
<1>2. ASSUME NEW on \in BOOLEAN, SetAutoRefresh(on) PROVE NoStrayTimer' /\ SearchInView'
  <2>1. live \ {timer} = {}
    BY <1>1 DEF NoStrayTimer
  <2>2. live' = {timer'} \ {None} /\ view' = view /\ view # None
    BY <1>2, <2>1 DEF SetAutoRefresh
  <2> QED BY <2>2 DEF NoStrayTimer, SearchInView
<1>3. CASE Unmount
  BY <1>1, <1>3 DEF Unmount, NoStrayTimer, SearchInView
<1>4. ASSUME NEW v \in Views, Mount(v) PROVE NoStrayTimer' /\ SearchInView'
  BY <1>1, <1>4, NoneAssumption DEF Mount, NoStrayTimer, SearchInView, refresh
<1>5. CASE UNCHANGED <<view, timer, live>> /\ (search' => search \/ view # None)
  BY <1>1, <1>5 DEF NoStrayTimer, SearchInView
<1>6. ASSUME NEW f \in Filters, Type(f) \/ Choose(f)
      PROVE  UNCHANGED <<view, timer, live>> /\ (search' => search \/ view # None)
  BY <1>6 DEF Type, Choose, refresh
<1>7. ASSUME NEW s \in Slots, Serve(s) \/ Refuse(s) \/ Arrive(s) \/ Fail(s)
      PROVE  UNCHANGED <<view, timer, live, search>>
  BY <1>7 DEF Serve, Refuse, Arrive, Fail, refresh
<1>8. ASSUME NEW n \in 1 .. MaxPages, Turn(n) PROVE UNCHANGED <<view, timer, live, search>>
  BY <1>8 DEF Turn, refresh
<1>9. ASSUME NEW h \in Timers, Tick(h) PROVE UNCHANGED <<view, timer, live, search>>
  BY <1>9 DEF Tick, refresh
<1>10. CASE DashboardLoad \/ Refresh \/ Rows \/ Flush \/ FlushAnswered \/ UNCHANGED vars
  BY <1>5, <1>10 DEF DashboardLoad, Refresh, Rows, Flush, FlushAnswered, vars, refresh
<1>11. CASE Search
  BY <1>5, <1>11 DEF Search, refresh
<1> QED BY <1>2, <1>3, <1>4, <1>5, <1>6, <1>7, <1>8, <1>9, <1>10, <1>11 DEF Next

-----------------------------------------------------------------------------
\* The invariant holds in every reachable state of the page.
THEOREM Inductive == Spec => []IInv
<1>1. IInv /\ [Next]_vars => IInv'
  BY NextTypes, NextTimer DEF IInv
<1> QED BY InitIInv, <1>1, PTL DEF Spec

\* Every variable keeps its type; a view's page stays between the first and the last
\* one, whatever the table's size was when an old answer was given.
THEOREM TypeCorrect == Spec => []TypeOK
<1>1. IInv => TypeOK
  BY DEF IInv
<1> QED BY Inductive, <1>1, PTL

\* Only the timer that the store knows runs, and only while JobsView is open.
THEOREM NoTimerStrays == Spec => []NoStrayTimer
<1>1. IInv => NoStrayTimer
  BY DEF IInv
<1> QED BY Inductive, <1>1, PTL
=============================================================================
