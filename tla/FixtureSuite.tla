----------------------------- MODULE FixtureSuite -----------------------------
(***************************************************************************)
(* fixture_suite (src/src/dreamnet/bgp_demo.py): the engine over recorded  *)
(* tool output, four scenarios with the fixed navigator and then the same  *)
(* four with a navigator that has learned from them.  RecordedAdapter      *)
(* answers from the files of examples/fixtures/<scenario>/; a file that    *)
(* is not there raises, and the exception ends the suite.                  *)
(*                                                                         *)
(* The graph that the second phase starts from is a copy of the first      *)
(* phase's (from_dict of to_dict), and the first one is not used again.    *)
(***************************************************************************)
EXTENDS BGPEngine

CONSTANT Removals    \* sets of files, <<scenario, device, tool>>, that a
                      \* fixture directory may lack

VARIABLES
  removed,     \* the files that are missing
  collected    \* baseline_runs, then learned_runs: what each run returned

suiteVars == <<removed, collected>>
fixtureVars == <<vars, suiteVars>>

\* The keys of the dict, in its order.
SCENARIOS == <<"interface_down", "asn_mismatch", "neighbor_shutdown", "route_map_filter">>
Phases == <<"fixed", "experience">>

RunsInAll == Len(Phases) * Len(SCENARIOS)
ScenarioOf(k) == SCENARIOS[((k - 1) % Len(SCENARIOS)) + 1]
PhaseOf(k) == Phases[((k - 1) \div Len(SCENARIOS)) + 1]

\* f"baseline-{scenario}", f"learned-{scenario}"
IncidentOf(k) == <<PhaseOf(k), ScenarioOf(k)>>

-----------------------------------------------------------------------------
(* The recorded files.                                                     *)

File(device, tool, stdout, latency) ==
  [device |-> device, tool |-> tool,
   result |-> [returncode |-> 0, stdout |-> stdout, latency_ms |-> latency]]

Config(shutdown, remote_as, route_map) ==
  [shutdown |-> shutdown, remote_as |-> remote_as, route_map |-> route_map]

Fixtures ==
  [interface_down |->
     {File("r1", "show_bgp_summary", "other_state", 81),
      File("r1", "show_interface", "down", 19)},
   asn_mismatch |->
     {File("r1", "show_bgp_summary", "other_state", 77),
      File("r1", "show_interface", "up", 18),
      File("r1", "ping_peer", "any", 1021),
      File("r1", "show_firewall", "no_rule", 22),
      File("r1", "show_running_config", Config(FALSE, "other", "none"), 95)},
   neighbor_shutdown |->
     {File("r1", "show_bgp_summary", "other_state", 74),
      File("r1", "show_interface", "up", 17),
      File("r1", "ping_peer", "any", 1018),
      File("r1", "show_firewall", "no_rule", 21),
      File("r1", "show_running_config", Config(TRUE, "expected", "none"), 91)},
   route_map_filter |->
     {File("r1", "show_bgp_summary", "established", 72),
      File("r2", "show_bgp_route", "no_prefix", 83),
      File("r1", "show_running_config", Config(FALSE, "expected", "deny"), 99)}]

\* fixture_dir / f"{device}__{tool}.json" of the step's call.
Found(scenario, step) ==
  {f \in Fixtures[scenario] :
     /\ f.device = Device[step] /\ f.tool = Tool[step]
     /\ <<scenario, f.device, f.tool>> \notin removed}

\* The engine may be asked for every run of the suite, and a tool may take the
\* time that a file says it took.
ASSUME SuiteAssumption ==
  /\ \A k \in 1..RunsInAll : IncidentOf(k) \in Incidents /\ PhaseOf(k) \in Policies
  /\ \A k \in DOMAIN SCENARIOS : \A f \in Fixtures[SCENARIOS[k]] :
       f.result.latency_ms \in Latencies

-----------------------------------------------------------------------------
(* What a run adds to the metrics.                                         *)

SumOf(f(_), S) == MapThenSumSet(f, S)

Returned(k) ==
  LET LatencyAt(n) == executed[n].latency_ms
  IN  [scenario |-> ScenarioOf(k), policy |-> policy, diagnosis |-> diagnosis,
       calls |-> Len(executed), latency |-> SumOf(LatencyAt, DOMAIN executed)]

-----------------------------------------------------------------------------
SuiteInit ==
  /\ Init /\ incident = IncidentOf(1) /\ policy = PhaseOf(1)
  /\ removed \in Removals
  /\ collected = << >>

\* engine.run(_incident(...), RecordedAdapter(...), policy) of the next
\* scenario, or of the first one of the next phase.
StartRun ==
  /\ runs < RunsInAll /\ Len(collected) = runs
  /\ Begin(IncidentOf(runs + 1), PhaseOf(runs + 1))
  /\ UNCHANGED suiteVars

\* RecordedAdapter.execute.
ReadFixture ==
  /\ pc = "calling"
  /\ \E f \in Found(ScenarioOf(runs), current) : ToolReturns(f.result)
  /\ UNCHANGED suiteVars

MissFixture ==
  /\ pc = "calling"
  /\ Found(ScenarioOf(runs), current) = {}
  /\ ToolRaises
  /\ UNCHANGED suiteVars

Investigate ==
  /\ pc # "calling"
  /\ EngineStep
  /\ UNCHANGED suiteVars

\* baseline_runs[scenario] = ..., learned_runs[scenario] = ...
Collect ==
  /\ pc = "returned" /\ Len(collected) < runs
  /\ collected' = Append(collected, Returned(runs))
  /\ UNCHANGED <<vars, removed>>

SuiteNext == StartRun \/ ReadFixture \/ MissFixture \/ Investigate \/ Collect

SuiteSpec == SuiteInit /\ [][SuiteNext]_fixtureVars

-----------------------------------------------------------------------------
InPhase(phase) == {k \in DOMAIN collected : collected[k].policy = phase}

TotalCalls(phase) ==
  LET CallsOf(k) == collected[k].calls IN SumOf(CallsOf, InPhase(phase))

TotalLatency(phase) ==
  LET LatencyOf(k) == collected[k].latency IN SumOf(LatencyOf, InPhase(phase))

\* A run that comes to its end gives the scenario's own fault, in both phases
\* and also when files are missing: what is not there stops the suite and
\* never leads to another diagnosis (README.md:81, "100% deterministic
\* diagnostic accuracy").
SuiteDiagnoses ==
  \A k \in DOMAIN collected : collected[k].diagnosis = collected[k].scenario

\* What was learned in the first phase pays in the second: no scenario costs
\* more commands or more time than it did, and the four together cost less of
\* both, 13 commands where there were 15 (README.md:81-82, a mean of 3.75
\* reduced to 3.25).
LearningPays ==
  Len(collected) = RunsInAll =>
    /\ \A k \in InPhase("fixed") :
         LET again == collected[k + Len(SCENARIOS)]
         IN  again.calls <= collected[k].calls /\ again.latency <= collected[k].latency
    /\ TotalCalls("fixed") = 15 /\ TotalCalls("experience") = 13
    /\ TotalLatency("experience") < TotalLatency("fixed")
===============================================================================
