--------------------------- MODULE LabInvestigation ---------------------------
(***************************************************************************)
(* The engine against the lab network: faults are applied and reset by     *)
(* lab/bgp/scenario.py, in a process of its own and at any moment, while   *)
(* the engine reads the network one command at a time.                     *)
(*                                                                         *)
(* The network is the set of scenarios applied.  What they configure is    *)
(* read from scenario.py and configs/, what FRR and Linux make of it is    *)
(* external: a session is Established exactly when none of the three       *)
(* scenarios that break it is applied (protocol timers are not modelled),  *)
(* and of a filter's entries the first one that matches decides.           *)
(*                                                                         *)
(* Every incident is about the prefix that r1 originates.  One outside     *)
(* CanonicalIncidents spells it otherwise than FRR does, for instance with *)
(* a netmask in place of the length.                                       *)
(***************************************************************************)
EXTENDS BGPEngine, Sequences

CONSTANTS
  FailingSteps,    \* steps whose command may be missing or fail
  MaxChanges       \* bound on the scenario changes

ASSUME LabAssumption ==
  /\ FailingSteps \subseteq BgpActionSteps
  /\ MaxChanges \in Nat
  /\ 20 \in Latencies        \* that of Answer

VARIABLES
  network,   \* scenarios applied
  changes,   \* scenario changes made (bounded by MaxChanges)
  seen,      \* history: every value of network during the current run
  read,      \* history: the network that the run's last command read
  failed     \* history: did a command fail during the current run?

labVars == <<network, changes, seen, read, failed>>
allVars == <<vars, labVars>>

Scenarios == {"interface_down", "asn_mismatch", "neighbor_shutdown", "route_map_filter"}

SessionUp(n) == n \cap {"interface_down", "asn_mismatch", "neighbor_shutdown"} = {}

\* r1 originates one prefix; the other ones stand for all it does not.
Loopback == "192.0.2.1/32"
Prefixes == {Loopback, "other"}

Entry(action, covers) == [action |-> action, covers |-> covers]

\* A prefix-list, like a route-map, goes by the first entry that covers the
\* prefix, and denies what none does.
FirstMatchPermits(entries, prefix) ==
  \E k \in DOMAIN entries :
    /\ entries[k].action = "permit" /\ prefix \in entries[k].covers
    /\ \A j \in 1..(k - 1) : prefix \notin entries[j].covers

\* ip prefix-list BLOCK-LOOPBACK, seq 5 and 10.
BLOCK_LOOPBACK == <<Entry("deny", {Loopback}), Entry("permit", Prefixes)>>

\* route-map BLOCK-EXPORT, clauses 10 and 20.  Clause 10 covers what its
\* prefix-list permits, clause 20 matches on nothing.
BLOCK_EXPORT ==
  <<Entry("deny", {p \in Prefixes : FirstMatchPermits(BLOCK_LOOPBACK, p)}),
    Entry("permit", Prefixes)>>

\* neighbor 10.0.12.2 route-map BLOCK-EXPORT out
FilterAttached(n) == "route_map_filter" \in n

\* Does r2 have r1's prefix?
HasRoute(n) ==
  SessionUp(n) /\ (FilterAttached(n) => FirstMatchPermits(BLOCK_EXPORT, Loopback))

\* What the evaluators look for in the configuration of r1.
RunningConfig(n) ==
  [shutdown  |-> "neighbor_shutdown" \in n,
   remote_as |-> IF "asn_mismatch" \in n THEN "other" ELSE "expected",
   route_map |-> IF ~FilterAttached(n) THEN "none"
                 ELSE IF \E k \in DOMAIN BLOCK_EXPORT : BLOCK_EXPORT[k].action = "deny"
                   THEN "deny" ELSE "permit"]

Answer(code, text) == [returncode |-> code, stdout |-> text, latency_ms |-> 20]

\* What the command of a step shows on network n.
Shows(step, n) ==
  CASE step = "bgp_summary" ->
         Answer(0, IF SessionUp(n) THEN "established" ELSE "other_state")
    [] step = "interface_state" ->
         Answer(0, IF "interface_down" \in n THEN "down" ELSE "up")
    [] step = "peer_reachability" ->
         Answer(IF "interface_down" \in n THEN 1 ELSE 0, "any")
    [] step = "firewall_policy" -> Answer(0, "no_rule")
    [] step \in {"peer_configuration", "export_policy"} -> Answer(0, RunningConfig(n))
    [] step = "route_presence" ->
         Answer(0, IF HasRoute(n) THEN "canonical_prefix" ELSE "no_prefix")

\* A command that could not be run: code 127 and nothing on stdout.
NoOutput(step) ==
  CASE step \in {"bgp_summary", "interface_state"} -> Answer(127, "not_json")
    [] step = "peer_reachability" -> Answer(127, "any")
    [] step = "firewall_policy" -> Answer(127, "no_rule")
    [] step \in {"peer_configuration", "export_policy"} ->
         Answer(127, [shutdown |-> FALSE, remote_as |-> "none", route_map |-> "none"])
    [] step = "route_presence" -> Answer(127, "no_prefix")

-----------------------------------------------------------------------------
LabInit ==
  /\ Init
  /\ network \in SUBSET Scenarios
  /\ changes = 0
  /\ seen = {network} /\ read = network
  /\ failed = FALSE

LabBegin ==
  /\ \E i \in Incidents, p \in Policies : Begin(i, p)
  /\ seen' = {network} /\ read' = network
  /\ failed' = FALSE
  /\ UNCHANGED <<network, changes>>

\* The command reads the network as it is when it runs.
Observe ==
  /\ pc = "calling"
  /\ ToolReturns(Shows(current, network))
  /\ read' = network
  /\ UNCHANGED <<network, changes, seen, failed>>

CommandFails ==
  /\ pc = "calling"
  /\ current \in FailingSteps
  /\ ToolReturns(NoOutput(current))
  /\ read' = network
  /\ failed' = TRUE
  /\ UNCHANGED <<network, changes, seen>>

\* scenario.py apply / reset: a scenario sets or clears its own fault only.
Change(n) ==
  /\ changes < MaxChanges
  /\ network' = n
  /\ changes' = changes + 1
  /\ seen' = seen \cup {n}
  /\ UNCHANGED <<vars, read, failed>>

Apply == \E f \in Scenarios \ network : Change(network \cup {f})
Reset == \E f \in network : Change(network \ {f})

LabNext ==
  \/ LabBegin
  \/ Observe
  \/ CommandFails
  \/ EngineStep /\ UNCHANGED labVars
  \/ Apply
  \/ Reset

LabSpec == LabInit /\ [][LabNext]_allVars

-----------------------------------------------------------------------------
\* The scenario that a diagnosis blames: an unreachable peer is a downed
\* interface seen by ping.
Blamed(d) == IF d = "peer_unreachable" THEN "interface_down" ELSE d

\* A verdict is never about a network that did not exist, although every
\* command read the network at a different time and the operator changed it in
\* between.  The scenario that a run blames was applied when its last command
\* ran; the export policy is blamed only if the prefix was missing earlier in
\* the run, too (unless its spelling hides it from the evaluator); and after an
\* all-clear r2 did have the prefix when the last command ran, which is not
\* implied by the session having been up when the first one did.
VerdictWasTrue ==
  pc = "returned" =>
    /\ Claims(diagnosis) => Blamed(diagnosis) \in read
    /\ (diagnosis = "route_map_filter" /\ incident \in CanonicalIncidents) =>
         \E n \in seen : ~HasRoute(n)
    /\ diagnosis = "no_fault_detected" => HasRoute(read)

\* On a network that stays as it is, with every command working, the verdict is
\* the right one, whatever the navigator and the history.  While the session is
\* down a scenario that breaks it is named, never the filter applied beside it;
\* with the session up the all-clear is given exactly when r2 has the prefix
\* and the incident spells it as FRR does.  Otherwise a policy that is attached
\* gets the blame, and without one the run escalates: a spelling that the
\* evaluator does not recognise costs the all-clear.
StableVerdictIsRight ==
  (pc = "returned" /\ ~failed /\ Cardinality(seen) = 1) =>
    /\ ~SessionUp(network) => diagnosis \in network \ {"route_map_filter"}
    /\ SessionUp(network) =>
         diagnosis = IF HasRoute(network) /\ incident \in CanonicalIncidents
                       THEN "no_fault_detected"
                       ELSE IF FilterAttached(network) THEN "route_map_filter"
                                                       ELSE "escalate"
=============================================================================
