--------------------------- MODULE HostedControls ---------------------------
(***************************************************************************)
(* What every worker of the hosted service is subject to: one process that *)
(* is stopped, dies and is started again, and the operator's two switches  *)
(* (hosted-runtime-controls.ts and the two workers of vocabulary/).         *)
(***************************************************************************)
EXTENDS LeasedRows

CONSTANTS
  MaxSwitches, \* bound: the operator's switches thrown
  MaxDeaths    \* bound: stops and deaths of the process

ASSUME HostedAssumption == MaxSwitches \in Nat /\ MaxDeaths \in Nat

VARIABLES
  process,  \* "running", "stopping" or "down"
  controls, \* [maintenance, provider]: the switches, as they are read
  switches, deaths

hosted == <<process, controls, switches, deaths>>

HostedInit ==
  /\ process = "running"
  /\ controls = [maintenance |-> FALSE, provider |-> TRUE]
  /\ switches = 0 /\ deaths = 0

\* A worker's pass, and the work it does locally.
Working == process = "running" /\ ~controls.maintenance

\* A call to a provider, and the publication of what it returned.
Allowed == Working /\ controls.provider

Switch ==
  /\ switches < MaxSwitches /\ switches' = switches + 1
  /\ \/ controls' = [controls EXCEPT !.maintenance = ~@]
     \/ controls' = [controls EXCEPT !.provider = ~@]
  /\ UNCHANGED <<process, deaths>>

\* stop: no new pass; calls under way are awaited.
Stop ==
  /\ process = "running" /\ deaths < MaxDeaths
  /\ process' = "stopping" /\ deaths' = deaths + 1
  /\ UNCHANGED <<controls, switches>>

\* A stop is complete, or the process dies; calls under way die with it.
Down ==
  /\ process' = "down"
  /\ UNCHANGED <<controls, switches>>

Start ==
  /\ process = "down" /\ process' = "running"
  /\ UNCHANGED <<controls, switches, deaths>>
=============================================================================
