------------------------------- MODULE Registry -------------------------------
(* The objects of c_aws (aws.cpp, aws.hpp, filter_base.hpp): channels made by *)
(* ch_base's factory, filters made by the factory of a library, the libraries *)
(* and their reference counts, and the filters' pointers to channels.  Each   *)
(* action is a handler, under c_aws::m_mtx from its first to its last step.   *)
EXTENDS FiniteSets, Integers, Sequences, SequencesExt

CONSTANTS ChNames, ChTypes,     \* ChTypes: those register_factory knows
          FltrNames, FltrTypes,
          ParType,              \* the type a filter's channel parameter asks for
          MaxChs, MaxConns      \* bounds: channels ever made, entries of all lists
VARIABLES m_channels,  \* the registered channels, in order
          made,        \* all channels ever made: [name, type] by number
          freedChs,    \* the numbers of those deleted
          filters,     \* by name: [lib, active, chin, chout, par]
          libs,        \* filter_libs: m_ref by type
          stage        \* how far the process has come

regVars == <<m_channels, made, freedChs, filters, libs, stage>>

NoCh == 0
Unknown == "unknown"

RegInit ==
  /\ m_channels = <<>> /\ made = <<>> /\ freedChs = {}
  /\ filters = <<>> /\ libs = <<>> /\ stage = "serving"

\* get_channel: the first of that name.
Position(n) == SelectInSeq(m_channels, LAMBDA c : made[c].name = n)
get_channel(n) == IF Position(n) = 0 THEN NoCh ELSE m_channels[Position(n)]

\* A map with one entry new or changed.
With(f, k, v) == [x \in DOMAIN f \union {k} |-> IF x = k THEN v ELSE f[x]]
-------------------------------------------------------------------------------
add_channel ==
  /\ Len(made) < MaxChs
  /\ \E n \in ChNames, ty \in ChTypes \union {Unknown} :
       /\ get_channel(n) = NoCh /\ ty \in ChTypes
       /\ made' = Append(made, [name |-> n, type |-> ty])
       /\ m_channels' = Append(m_channels, Len(made'))
  /\ UNCHANGED <<freedChs, filters, libs, stage>>

(* del_channel takes the channel off the list but never deletes it, and says  *)
(* that it succeeded whether or not there is one.                             *)
\* A bug: the channel is deleted, as its name and type are in add_channel.
Freed_Deleted(c) == freedChs \union {c}
Freed(c) == freedChs
del_channel ==
  /\ \E n \in ChNames :
       IF Position(n) = 0 THEN UNCHANGED <<m_channels, freedChs>>
       ELSE m_channels' = RemoveAt(m_channels, Position(n)) /\ freedChs' = Freed(get_channel(n))
  /\ UNCHANGED <<made, filters, libs, stage>>

(* add_filter loads the library of a type on its first filter.  If there is   *)
(* no such library nothing is kept; if the library makes no filter, the       *)
(* library stays.                                                             *)
\* A bug: only the filter that loads a library counts.
RefUp_First(ty) == IF ty \in DOMAIN libs THEN libs ELSE With(libs, ty, 1)
RefUp(ty) == With(libs, ty, IF ty \in DOMAIN libs THEN libs[ty] + 1 ELSE 1)
add_filter ==
  /\ \E n \in FltrNames \ DOMAIN filters, ty \in FltrTypes :
       \/ /\ filters' = With(filters, n, [lib |-> ty, active |-> FALSE, chin |-> <<>>, chout |-> <<>>,
                                          par |-> NoCh])
          /\ libs' = RefUp(ty)
       \/ /\ ty \notin DOMAIN libs
          /\ libs' = With(libs, ty, 0) /\ UNCHANGED filters
  /\ UNCHANGED <<m_channels, made, freedChs, stage>>

\* The destructor takes the filter off its library's count.
del_filter ==
  /\ \E n \in DOMAIN filters :
       LET ty == filters[n].lib
       IN  /\ ~filters[n].active
           /\ filters' = [k \in DOMAIN filters \ {n} |-> filters[k]]
           /\ libs' = IF libs[ty] = 1 THEN [k \in DOMAIN libs \ {ty} |-> libs[k]]
                      ELSE [libs EXCEPT ![ty] = @ - 1]
  /\ UNCHANGED <<m_channels, made, freedChs, stage>>

run_filter ==
  /\ \E n \in DOMAIN filters : filters' = [filters EXCEPT ![n].active = TRUE]
  /\ UNCHANGED <<m_channels, made, freedChs, libs, stage>>
stop_filter ==
  /\ \E n \in DOMAIN filters : filters' = [filters EXCEPT ![n].active = FALSE]
  /\ UNCHANGED <<m_channels, made, freedChs, libs, stage>>

(* set_fltr_io_chs appends to the filter's channels, here one or two of them. *)
(* Names it cannot find are passed over, and those behind them move up.       *)
Connections == MapThenSumSet(LAMBDA n : Len(filters[n].chin) + Len(filters[n].chout), DOMAIN filters)
Existing(n) == IF get_channel(n) = NoCh THEN <<>> ELSE <<get_channel(n)>>
\* A bug: the channels take the place of those of an earlier call.
Connected_Anew(old, new) == new
Connected(old, new) == old \o new
set_fltr_io_chs ==
  /\ \E n \in DOMAIN filters, a \in ChNames, more \in {<<>>} \union {Existing(b) : b \in ChNames} :
       LET found == Existing(a) \o more
       IN  /\ Connections + Len(found) <= MaxConns
           /\ \/ filters' = [filters EXCEPT ![n].chin = Connected(@, found)]
              \/ filters' = [filters EXCEPT ![n].chout = Connected(@, found)]
  /\ UNCHANGED <<m_channels, made, freedChs, libs, stage>>

(* set_fltr_par of a channel parameter (s_fpar::set): a name without a channel*)
(* changes nothing, a channel of another type clears the pointer.             *)
SetParCh ==
  /\ \E n \in DOMAIN filters, name \in ChNames :
       LET c == get_channel(name)
       IN  /\ c # NoCh
           /\ filters' = [filters EXCEPT ![n].par = IF made[c].type = ParType THEN c ELSE NoCh]
  /\ UNCHANGED <<m_channels, made, freedChs, libs, stage>>

(* Once the main loop has left and the server is shut down, c_aws::clear:     *)
(* filters, libraries, then channels.                                         *)
Exit ==
  /\ \A n \in DOMAIN filters : ~filters[n].active
  /\ stage' = "filters"
  /\ UNCHANGED <<m_channels, made, freedChs, filters, libs>>

clear_aws ==
  \/ /\ stage = "filters" /\ stage' = "libs" /\ filters' = <<>>
     /\ libs' = [ty \in DOMAIN libs |-> libs[ty] - Cardinality({n \in DOMAIN filters : filters[n].lib = ty})]
     /\ UNCHANGED <<m_channels, made, freedChs>>
  \/ /\ stage = "libs" /\ stage' = "channels" /\ libs' = <<>>
     /\ UNCHANGED <<m_channels, made, freedChs, filters>>
  \/ /\ stage = "channels" /\ stage' = "over"
     /\ freedChs' = freedChs \union {m_channels[i] : i \in DOMAIN m_channels} /\ m_channels' = <<>>
     /\ UNCHANGED <<made, filters, libs>>

RegNext ==
  \/ /\ stage = "serving"
     /\ \/ add_channel \/ del_channel \/ add_filter \/ del_filter
        \/ run_filter \/ stop_filter \/ set_fltr_io_chs \/ SetParCh \/ Exit
  \/ clear_aws
  \/ stage = "over" /\ UNCHANGED regVars

RegSpec == RegInit /\ [][RegNext]_regVars
-------------------------------------------------------------------------------
(* The code of every filter stays loaded as long as the filter exists, through*)
(* failed creations and reloads, and a library counts its filters.            *)
LibraryStays ==
  /\ \A n \in DOMAIN filters : filters[n].lib \in DOMAIN libs
  /\ \A ty \in DOMAIN libs : libs[ty] = Cardinality({n \in DOMAIN filters : filters[n].lib = ty})

(* No pointer of a filter or of the list leads to a deleted channel, although *)
(* del_channel does not look whether filters use it.                          *)
NoChannelDangles ==
  \A n \in DOMAIN filters :
    (Range(filters[n].chin) \union Range(filters[n].chout) \union {filters[n].par}) \cap freedChs = {}

(* A filter knows its channels by their position: what a call has connected   *)
(* keeps its position through later calls, deletions and registrations.       *)
PositionsKept ==
  [][\A n \in DOMAIN filters \cap DOMAIN filters' :
       filters'[n].lib = filters[n].lib =>
         IsPrefix(filters[n].chin, filters'[n].chin) /\ IsPrefix(filters[n].chout, filters'[n].chout)]_regVars

(* What a filter is connected to stays there: its code, channels and places.  *)
ConnectionsStay == [](LibraryStays /\ NoChannelDangles) /\ PositionsKept
=============================================================================
