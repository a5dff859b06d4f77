---------------------------- MODULE FilterService ----------------------------
(***************************************************************************)
(* What the awsv1 server promises about filters, without locks, clocks or  *)
(* handlers: a filter is loaded, runs on at most one thread at a time, and *)
(* neither DelFltr nor the end of the process takes the object away from a *)
(* thread that still uses it.  FilterServer implements it.                 *)
(***************************************************************************)
EXTENDS FiniteSets

CONSTANTS Filters,      \* instance names
          Threads       \* identities of filter threads

VARIABLES loaded,       \* the filters that exist
          runners,      \* runners[f]: the threads that still use f
          serving       \* FALSE once the process has torn everything down

svars == <<loaded, runners, serving>>

ServiceTypeOK ==
  /\ loaded \subseteq Filters
  /\ runners \in [Filters -> SUBSET Threads]
  /\ serving \in BOOLEAN

ServiceInit ==
  /\ loaded = {}
  /\ runners = [f \in Filters |-> {}]
  /\ serving = TRUE

Load(f) ==
  /\ serving
  /\ f \notin loaded
  /\ loaded' = loaded \cup {f}
  /\ UNCHANGED <<runners, serving>>

\* A second thread never joins the first one.
Start(f, t) ==
  /\ serving
  /\ f \in loaded
  /\ runners[f] = {}
  /\ runners' = [runners EXCEPT ![f] = {t}]
  /\ UNCHANGED <<loaded, serving>>

Finish(f) ==
  /\ f \in loaded
  /\ runners[f] # {}
  /\ runners' = [runners EXCEPT ![f] = {}]
  /\ UNCHANGED <<loaded, serving>>

Unload(f) ==
  /\ f \in loaded
  /\ runners[f] = {}
  /\ loaded' = loaded \ {f}
  /\ UNCHANGED <<runners, serving>>

Terminate ==
  /\ serving
  /\ \A f \in Filters : runners[f] = {}
  /\ loaded' = {}
  /\ serving' = FALSE
  /\ UNCHANGED runners

ServiceNext ==
  \/ \E f \in Filters : Load(f) \/ Finish(f) \/ Unload(f)
  \/ \E f \in Filters, t \in Threads : Start(f, t)
  \/ Terminate

ServiceSpec == ServiceInit /\ [][ServiceNext]_svars
=============================================================================
