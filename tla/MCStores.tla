------------------------------- MODULE MCStores -------------------------------
(* The channels that keep objects and waypoints, for TLC: one kind each.      *)
EXTENDS MCDecoders, Waypoints, Registry, EngineState, AisObjects, StateSampler, LogFiles, RadarImage, MapLayers

VARIABLES asked, before

objectVars == target
calendarVars == <<asked, before>>

Cal == INSTANCE Calendar
         WITH Years <- {1970, 1972, 2000, 2023, 2100}, Clocks <- {<<0, 0, 0, 0>>, <<23, 59, 59, 999>>}
BelowOf == <<"left", "right">>
PlaceOf == [a |-> "left", b |-> "left", c |-> "right"]

\* str2t's times differ as the calendar's days do, and the text t2str prints reads
\* back as the same time (Calendar).
TimeIsOfItsText == Cal!TimeIsOfItsText

SensorSetsOf ==
  {{"gll", "hpr"}, {"hev", "rud"}, {"vtg"}, {"rev", "eng"}, {"engd"}, {"mda"}, {"dbt"}}

EchoesOf == {<<0, 0>>, <<255, 0>>, <<0, 255>>}

GroupSetsOf == {{"pos", "att"}, {"vel", "alt"}, {"dp", "wx"}, {"att", "vel"}}

storeVars == <<objectVars, objsVars, routeVars, samplerVars, logVars, regVars, calendarVars,
               stateVars, engineVars, radarVars, mapVars>>
StoreKinds == {"object", "objects", "route", "sampler", "log", "registry", "calendar",
               "state", "engine", "radar", "map"}
StoresInit ==
  /\ ObjectInit /\ ObjsInit /\ RouteInit /\ LogInit /\ RegInit /\ Cal!CalendarInit /\ RadarInit /\ MapInit
  /\ kind # "radar" => bearing = Spokes - 1
  /\ kind # "calendar" => before = 0
  /\ kind # "route" => inext = 0
  /\ IF kind = "state" THEN StateInit
     ELSE /\ groups = {} /\ cur = <<>> /\ ecef = None /\ fed = <<>> /\ f = <<>> /\ st_tfile = 0
          /\ st_pf = <<>> /\ st_rd = 0 /\ st_eof = FALSE /\ buffer = NoBuffer /\ logging = 0
          /\ now = 1 /\ st_given = <<>> /\ st_replay = FALSE
  /\ EngineInit
  /\ kind # "engine" => eng_cur = EngineUnset(0) /\ eng_t = 0 /\ eng_f = EngineUnset(0)
  /\ IF kind = "sampler" THEN SamplerInit /\ ("hpr" \in sensors \/ tatt_delay = 1)
     ELSE sensors = {} /\ tatt_delay = 0 /\ ring = <<>> /\ sampling = "none" /\ twice = {} /\ smp = [r \in Rates |-> EmptySampler(-1)]
\* A kind's module steps and the variables of the others stand.
StoresNext ==
  \/ kind = "object" /\ ObjectNext
     /\ UNCHANGED <<objsVars, routeVars, samplerVars, logVars, regVars, calendarVars,
                   stateVars, engineVars, radarVars, mapVars>>
  \/ kind = "objects" /\ ObjsNext
     /\ UNCHANGED <<objectVars, routeVars, samplerVars, logVars, regVars, calendarVars,
                   stateVars, engineVars, radarVars, mapVars>>
  \/ kind = "route" /\ RouteNext
     /\ UNCHANGED <<objectVars, objsVars, samplerVars, logVars, regVars, calendarVars,
                   stateVars, engineVars, radarVars, mapVars>>
  \/ kind = "sampler" /\ SamplerNext
     /\ UNCHANGED <<objectVars, objsVars, routeVars, logVars, regVars, calendarVars,
                   stateVars, engineVars, radarVars, mapVars>>
  \/ kind = "log" /\ LogNext
     /\ UNCHANGED <<objectVars, objsVars, routeVars, samplerVars, regVars, calendarVars,
                   stateVars, engineVars, radarVars, mapVars>>
  \/ kind = "registry" /\ RegNext
     /\ UNCHANGED <<objectVars, objsVars, routeVars, samplerVars, logVars, calendarVars,
                   stateVars, engineVars, radarVars, mapVars>>
  \/ kind = "calendar" /\ Cal!CalendarNext
     /\ UNCHANGED <<objectVars, objsVars, routeVars, samplerVars, logVars, regVars, stateVars,
                   engineVars, radarVars, mapVars>>
  \/ kind = "state" /\ StateNext
     /\ UNCHANGED <<objectVars, objsVars, routeVars, samplerVars, logVars, regVars,
                   calendarVars, engineVars, radarVars, mapVars>>
  \/ kind = "engine" /\ EngineNext
     /\ UNCHANGED <<objectVars, objsVars, routeVars, samplerVars, logVars, regVars,
                   calendarVars, stateVars, radarVars, mapVars>>
  \/ kind = "radar" /\ (RadarNext \/ (spoke_count = MaxSpokes /\ UNCHANGED radarVars))
     /\ UNCHANGED <<objectVars, objsVars, routeVars, samplerVars, logVars, regVars,
                   calendarVars, stateVars, engineVars, mapVars>>
  \/ kind = "map" /\ MapNext
     /\ UNCHANGED <<objectVars, objsVars, routeVars, samplerVars, logVars, regVars,
                   calendarVars, stateVars, engineVars, radarVars>>
=============================================================================
