------------------------------ MODULE Waypoints ------------------------------
(* ch_wp of ch_wp.hpp: a route.  Its methods do not lock; a caller holds the  *)
(* channel's lock for one of the actions here.  The autopilot goes for the    *)
(* next waypoint, a manipulator edits at the focus, both as an index and as   *)
(* an iterator into the list.  An iterator is the waypoint it points to, End  *)
(* past the last.                                                             *)
EXTENDS Integers, Sequences, SequencesExt

CONSTANTS Points,   \* the waypoints that can be inserted
          MaxWps    \* bound on the length of the list
VARIABLES wps,      \* the list
          arrived,  \* the waypoints in it with an arrival time
          itr, focus, itr_focus, inext, itr_next

\* Past the last waypoint there is none.
End == "end"
RouteSizes == End \notin Points /\ MaxWps \in Nat

ASSUME RouteAssumption == RouteSizes

routeVars == <<wps, arrived, itr, focus, itr_focus, inext, itr_next>>

\* iterator of index i, index of an iterator, and one further
At(s, i) == IF i < Len(s) THEN s[i + 1] ELSE End
Idx(s, x) == IF x = End THEN Len(s) ELSE (CHOOSE i \in DOMAIN s : s[i] = x) - 1
Inc(s, x) == At(s, Idx(s, x) + 1)

\* inext is not initialised.
RouteInit ==
  /\ wps = <<>> /\ arrived = {}
  /\ itr = End /\ itr_focus = End /\ itr_next = End
  /\ focus = 0 /\ inext \in 0..MaxWps

(* find_next: the first waypoint without an arrival time; itr stays at it.    *)
\* A bug: the next waypoint stays as it is.
NextStays(s, a) == UNCHANGED <<inext, itr_next, itr>>
find_next(s, a) ==
  LET open == {i \in 0..(Len(s) - 1) : s[i + 1] \notin a} \union {Len(s)}
      first == CHOOSE i \in open : \A j \in open : i <= j
  IN  inext' = first /\ itr_next' = At(s, first) /\ itr' = At(s, first)

clear ==
  /\ wps' = <<>> /\ arrived' = {} /\ focus' = 0
  /\ itr' = End /\ itr_focus' = End /\ itr_next' = End
  /\ UNCHANGED inext

\* The focus stays on the waypoint it was on, behind the new one.
ins ==
  /\ Len(wps) < MaxWps
  /\ \E p \in Points \ Range(wps) :
       /\ wps' = InsertAt(wps, Idx(wps, itr_focus) + 1, p)
       /\ find_next(wps', arrived)
  /\ focus' = focus + 1
  /\ UNCHANGED <<arrived, itr_focus>>

ers ==
  /\ wps' = IF itr_focus = End THEN wps ELSE RemoveAt(wps, Idx(wps, itr_focus) + 1)
  /\ itr_focus' = Inc(wps, itr_focus)
  /\ focus' = IF itr_focus' = End THEN Len(wps') ELSE focus
  /\ arrived' = arrived \ {itr_focus}
  /\ find_next(wps', arrived')

set_focus(s, i) ==
  LET j == IF i < Len(s) THEN i ELSE Len(s)
  IN  focus' = j /\ itr_focus' = At(s, j)

\* A bug: the focus' iterator stays with its waypoint, wherever that went.
FocusUnmoved == focus' = focus /\ itr_focus' = itr_focus
Refocus == set_focus(Reverse(wps), focus)

rev ==
  /\ wps' = Reverse(wps) /\ Refocus /\ find_next(wps', arrived)
  /\ UNCHANGED arrived

\* ref: the arrival times are cleared.
ref ==
  /\ arrived' = {} /\ find_next(wps, arrived')
  /\ UNCHANGED <<wps, focus, itr_focus>>

SetFocus ==
  /\ \E i \in 0..MaxWps : set_focus(wps, i)
  /\ UNCHANGED <<wps, arrived, itr, inext, itr_next>>

next_focus ==
  /\ itr_focus' = Inc(wps, itr_focus)
  /\ focus' = IF itr_focus' = End THEN Len(wps) ELSE focus + 1
  /\ UNCHANGED <<wps, arrived, itr, inext, itr_next>>

prev_focus ==
  /\ itr_focus' = IF itr_focus = At(wps, 0) THEN itr_focus ELSE wps[Idx(wps, itr_focus)]
  /\ focus' = IF itr_focus' = At(wps, 0) THEN 0 ELSE focus - 1
  /\ UNCHANGED <<wps, arrived, itr, inext, itr_next>>

set_next_wp ==
  IF itr_next = End THEN UNCHANGED <<inext, itr_next>>
  ELSE inext' = inext + 1 /\ itr_next' = Inc(wps, itr_next)

(* The autopilot at its goal: get_next_wp, set_arrival_time and set_next_wp   *)
(* under one lock.                                                            *)
Arrive ==
  /\ itr_next # End                       \* is_finished
  /\ arrived' = arrived \union {itr_next}
  /\ set_next_wp
  /\ UNCHANGED <<wps, itr, focus, itr_focus>>

(* begin, end, seek, next and prev move the cursor.                           *)
MoveCursor ==
  /\ \/ itr' = At(wps, 0)
     \/ itr' = End
     \/ \E i \in 0..(Len(wps) - 1) : itr' = At(wps, i)
     \/ itr' = Inc(wps, itr)
     \/ itr' = IF itr = At(wps, 0) THEN itr ELSE wps[Idx(wps, itr)]
  /\ UNCHANGED <<wps, arrived, focus, itr_focus, inext, itr_next>>

RouteNext ==
  \/ clear \/ ins \/ ers \/ rev \/ ref
  \/ SetFocus \/ next_focus \/ prev_focus \/ Arrive \/ MoveCursor

RouteSpec == RouteInit /\ [][RouteNext]_routeVars

(* The iterators point into the list: no edit leaves one at a deleted         *)
(* waypoint.                                                                  *)
IteratorsValid == {itr, itr_focus, itr_next} \subseteq Range(wps) \union {End}

(* However the route is edited, the index and the iterator of the focus, and  *)
(* of the next waypoint, mean the same waypoint.  (inext means nothing before *)
(* the first insertion, and clear does not reset it.)                         *)
IndexesAgree ==
  /\ focus = Idx(wps, itr_focus)
  /\ wps # <<>> => inext = Idx(wps, itr_next)

(* The ship never passes over a waypoint: all before the next one have been   *)
(* reached, also when waypoints are inserted, removed or reversed on the way. *)
NothingSkipped == \A i \in 1..Idx(wps, itr_next) : wps[i] \in arrived

(* No edit of the route loses its place on it.                                *)
RouteIsKept == IteratorsValid /\ IndexesAgree /\ NothingSkipped
=============================================================================
