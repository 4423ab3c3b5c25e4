# DreamNet in TLA+

TLA+ modules, TLC configurations and TLAPS proofs about DreamNet, a program that diagnoses
network faults by walking an approved troubleshooting procedure, records every diagnostic it
ran in an experience graph, and lets that experience decide which eligible diagnostic comes
first. File and line numbers below are of this repository (`src/dreamnet/...` is the Python
package, `lab/bgp/` the Containerlab lab).

## 1. Inventory

### The system's parts

| Part | Source | State it keeps | Operations |
|---|---|---|---|
| Procedural graph | `graphs.py` `ProceduralGraph`, `bgp_procedure.py` `build_bgp_procedural_graph` | steps, prioritised transitions (constant after start) | `candidates`, `validate` |
| Procedure engine | `bgp_procedure.py` `BGPProcedureEngine` | the locals of `run` (current step, visited set, outcomes, executed steps, status, diagnosis); a reference to the experience graph | `run`, `_resolve_action` |
| Evidence evaluator | `bgp_procedure.py` `BGPEvidenceEvaluator` | none | one function per diagnostic: tool result to outcome and, perhaps, diagnosis |
| Navigation policies | `bgp_procedure.py` `FixedNavigationPolicy`, `ExperienceNavigationPolicy` | none (the second reads the experience graph) | `choose` |
| Experience graph | `graphs.py` `ExperienceGraph` | vertices, edges, execution counter | `record_execution`, `step_statistics`, `to_dict`, `from_dict` |
| Experience store | `bgp_demo.py` `live_run`, `graphs.py` `load`/`save` | `experience_graph.json`, `run-<incident>.json` | load, run, save, report |
| Knowledge graph | `graphs.py` `KnowledgeGraph`, `build_lab_knowledge_graph` | devices, interfaces, one BGP session (constant) | `get`, `related` |
| Tool adapters | `adapters.py` | none | `execute`: read a fixture, or `docker exec` one allow-listed command with a timeout |
| Lab scenarios | `lab/bgp/scenario.py` | the running configuration of router r1 | `apply`, `reset` of four faults |
| Fixture suite | `bgp_demo.py` `fixture_suite` | two experience graphs in memory | four baseline and four learned runs |
| Discovery tree, environment | `models.py`, `environment.py` | tree of hypotheses, rounds | `add`, `expand` |
| Exploration policy, rollout | `policy.py`, `rollout.py` | stall counter, revealed nodes | `select`, `online_rollout` |
| Replay, optimizer | `replay.py`, `optimizer.py` | revealed nodes; best policy and elites | `replay_tree`, `optimize_policy` |
| Catalogue, demo, CLI, reports | `catalog.py`, `demo.py`, `cli.py`, `reporting.py` | none | constants, scripts, formatting |

### How they interact

`live_run` loads the experience graph from the file, makes an engine with it, and calls
`run` once. `run` is a single-threaded loop. Each pass looks up the current step; a terminal
step ends the run with its label; otherwise the step is marked visited, the knowledge graph
resolves device and parameter, the adapter executes one command (or raises), the evaluator
turns the result into an outcome (or raises), the execution is recorded in the experience
graph, and the navigator chooses among the authored transitions for that outcome whose
target was not visited. It reads the graph that already holds the execution just recorded.
Afterwards the graph is written back as a whole, followed by the report. Nothing locks the
file, and nothing stops the network from changing while the engine looks at it.

`fixture_suite` runs the same engine eight times over recorded tool output: four scenarios
with the fixed navigator, then the same four with one that starts from a copy of the
experience graph the first four left behind.

A second, independent half works on synthetic incidents and shares no state with the first.
An `ExplorationPolicy` selects nodes of a discovery tree; `online_rollout` has the
environment expand them; `replay_tree` instead reveals what a recorded tree has below them,
so that other policies can be judged without asking the environment again. `optimize_policy`
does this for hundreds of mutated policies and keeps the best.

### What is hard here

* **Three hand-written tables must agree**: the outcomes the evaluators return, the
  transitions that consume them, the diagnoses of the terminal steps. `validate()`
  checks none of this.
* **A cyclic procedure**: `firewall_policy` and `peer_configuration` lead to each other,
  and only the visited set stops the walk.
* **Learning in the loop**: scores mix success rates, costs and unbounded latencies with
  authored priorities, and fall back to statistics of other contexts.
* **Order inside a pass**: visited before the call, context of the execution before its
  own outcome, record before the choice.
* **Failure**: commands that fail, time out or answer nonsense, at any step; exceptions
  that leave `run` between a command and its record, or between record and save.
* **What a scenario does**: `route_map_filter` nests two first-match lists, of which the inner
  one's deny is a no-match for the outer one.
* **Interleaving**: the network changes between two commands of one run; two `live_run`
  processes share one file.
* **Crash**: the file is truncated and then written in place; graph and report are two
  files.

* **Replay**: select sees a recorded tree through the set of revealed nodes, whose ids
  depend on the policy that recorded it; ties go by id; the stall counter changes with
  every call; the budget is checked before a round and not in it; replay stops where
  nothing more was recorded.
* **Search**: candidates descend from elites that need not be the best, limits are drawn
  independently, and the objective that compares policies mixes cost and quality.

`PROJECT.json` lists each of these as a hazard, at its line, with the properties that would
catch it.

### What makes each part correct

* *Engine*: no diagnostic twice; only authored transitions; a fault only on a recorded
  proof of the same run; a proof in hand always reported; every completed run ends in a
  verdict; every run ends.
* *Navigation*: changes the order, never whether an eligible diagnostic is tried; moves
  earlier what has proved itself.
* *Evaluator and procedure*: every outcome has a way out; labels and evaluator agree;
  failed evidence proves nothing.
* *Experience graph*: append-only, no id reused, each execution tied to one incident,
  step, device and piece of evidence, and faithful to the run.
* *Store*: what was saved is kept; reports are backed by the graph; damage is not erased.
* *Lab*: a verdict is about a state the network was in; on a stable network it is the
  right one; each scenario breaks what it is named for.
* *Fixture suite*: the right diagnosis for each scenario, or none; learning pays.
* *Rollout and replay*: the budget is kept up to one round; rounds divide what was seen;
  nothing is seen before its parent; a replay never shows what the policy would not have
  looked at, and reproduces the run of the policy that recorded.
* *Search*: never ends worse than it began; elites only improve; what replay says of a
  policy is true of it; the best policy diagnoses.

## 2. Modules

| Module | Models | Remarks |
|---|---|---|
| `ExperienceGraph` | `class ExperienceGraph` | constant-level: graphs are values, operations are operators; shared by engine, store and proofs |
| `ProcedureEngine` | `BGPProcedureEngine.run`, both policies | state machine over any validated procedure, evaluator, tool behaviour and loaded history (CONSTANTS) |
| `BGPProcedure` | the shipped procedure, `_resolve_action`, the evaluator, the adapter's allow-list | constant-level: values for the constants of `ProcedureEngine` |
| `BGPEngine` | the engine as the program makes it | `ProcedureEngine` with its constants tied to `BGPProcedure` by `ShippedAssumption`; what learning does with the shipped priorities |
| `Investigation` | what an investigation promises | abstract specification, three variables |
| `EngineRefinement` | the refinement mapping | `ProcedureEngine` implements `Investigation` |
| `LabInvestigation` | the engine and `scenario.py` on one network | composition: `BGPEngine`, the configuration of r1 and what r2 receives under it |
| `ExperienceStore` | `live_run` processes over one file | composition: `ExperienceGraph`, processes, files |
| `FixtureSuite` | `fixture_suite`, `RecordedAdapter`, the recorded files | composition: `BGPEngine` and the script around it |
| `Exploration` | `DiscoveryTree`, `NetworkEnvironment.expand`, `ExplorationPolicy.select`, one pass of `online_rollout` and of `replay_tree` | constant-level: a run is a record, a pass an operator on it; shared by the next two and the proofs |
| `Replay` | a recorder online, a learner on its tree, the learner online | state machine over any set of policies |
| `PolicySearch` | `optimize_policy`, `_mutate` | state machine over any objective; one action per candidate |
| `PolicyEvaluation` | `evaluate_policy`, `score_result` | the program's objective, from `Exploration` |
| `MCLearned` | histories that earlier runs have left | constant-level: recorded by the operators of `ExperienceGraph`, for `MCBgp` to start from |
| `MCBgp`, `MCCustom`, `MCLab`, `MCFixtures`, `MCReplay`, `MCSearch` | instances for TLC | `ExperienceStore` is instantiated by its cfg alone |
| `ExperienceGraphProofs`, `ProcedureEngineProofs`, `VerdictProofs`, `StoreProofs`, `ShippedProofs`, `ReplayProofs`, `HonestProofs`, `SearchProofs` | theorems | section 5 |

### ProcedureEngine

`pc` is the place in `run`: `loop` is the top of the `for`, `calling` inside
`adapter.execute`, `answered` with the result in hand, `returned` and `raised` the two ends.
`current`, `visited`, `diagnosis`, `status` are the code's locals. `executed` is both
`executed` and `outcomes`, which are appended in the same pass. Its length is the loop
counter, because every pass that does not end the loop appends one step.

| Action | Code (`bgp_procedure.py`) |
|---|---|
| `Begin` | call of `run`, 511-524; the experience graph survives from call to call |
| `StepLimit` | `range(max_steps)` used up, 526 |
| `ReachTerminal` | 528-531 |
| `CallTool` | 532-534 up to the call |
| `ToolAnswers` | the adapter returns any result that its tool can return |
| `ToolRaises`, `EvaluationRaises` | an exception leaves `run` |
| `Advance` | 535-572 and 577-580: evaluate, record, choose |
| `DeadEnd` | 535-576: evaluate, record, no eligible transition |

The call of the tool is a step of its own because time passes there: this is where the lab
changes the network and where a process waits. Everything after it is one thread on its own
memory, and is one action.

Scores are exact. The code computes `priority + min(1, n/5) * (1.5 rate - 0.05 cost - 0.0001
latency)`; for n > 0 executions that is `priority + gain / max(5, n)` with `gain = 1.5
resolved - 0.05 total cost - 0.0001 total latency`. `Score` is this fraction times 10^4 and
`Better` compares by cross-multiplication. Floating-point rounding could tell equal
fractions apart; the model does not. Equal choices keep authored order in the code and are
chosen nondeterministically here, which only adds behaviours.

### BGPProcedure

Tool output is represented by the classes of text that the parsers can tell apart (for the
running configuration: the neighbor's shutdown line, its remote-as and the outbound
route-map), return codes by 0, 1 (ping unanswered) and 127 (command could not run). Each
evaluator keeps the source's order of tests. `Interface` raises on JSON of an unexpected
shape, as the code does. `RoutePresence` never finds a prefix that is spelled with host bits
or a netmask (`CanonicalIncidents` are the incidents that spell it as FRR does), because the
adapter normalises what it asks for (`adapters.py:126`) while the evaluator looks for the
incident's own spelling (`bgp_procedure.py:465`).

### ExperienceGraph

Ids are tuples of the parts that the code formats into strings. The list of edges, which
`_link` keeps free of duplicates, is a set. `_upsert` raises when an execution or evidence
id comes back with other content; the model has no action for it, and `HistoryOnlyGrows`
(each new execution has a free id) is why it cannot happen. `step_statistics` keeps its
fallback to all contexts and ignores the procedure's version.

### LabInvestigation and ExperienceStore

The network is the set of scenarios applied. What they configure is read from `scenario.py`:
`RunningConfig` has the neighbor's shutdown and remote-as lines (35-47), and the export
filter is there entry by entry (50-76). `BLOCK_LOOPBACK` is the prefix-list, `BLOCK_EXPORT`
the route-map, whose clause 10 covers what the prefix-list permits; `HasRoute` evaluates
both for the one prefix that r1 originates (`configs/r1/frr.conf:17`). The prefix-list
denies this very prefix, so clause 10 does not match it and clause 20 permits it: with
`route_map_filter` applied r2 still has the route, although a deny clause is attached
(theorem `FilterGoesUnnoticed`; section 4, 5).

External are the rules by which FRR and Linux act: of a filter's entries the first that
matches decides (`FirstMatchPermits`), and the session is Established exactly when none of
the three scenarios that break it is applied. Protocol timers are not modelled, so the
evidence always reflects the network at the time of the command. The four scenarios never
add a firewall rule.

`seen` holds every network of the current run, `read` the one that its last command read,
`failed` whether a command failed. All three are history variables.

In `ExperienceStore` an investigation is a few calls of `record_execution`. `save` is two
steps, truncate and write. Two saves that overlap may leave the tail of the longer text
behind the shorter one, an unreadable file. A process may die in between (`Dies`: an
uncaught exception of `run`, or a kill). `saved` and `performed` are history variables.

### FixtureSuite

Actions `StartRun` (the next scenario of the loops at 34-50 of `bgp_demo.py`), `ReadFixture`
and `MissFixture` (`RecordedAdapter.execute`), `Investigate` (the engine) and `Collect` (the
dict entry once `run` has returned). `Fixtures` holds the classes of the recorded texts and
the recorded latencies. `removed` is a set of files the directories lack; a missing file
raises `FileNotFoundError`, nothing catches it, and the suite ends. The second phase's graph
is a copy of the first's, which is not used again, so one variable serves both.
`SuiteAssumption` says that the engine's incidents, policies and latencies include those of
the suite.

### Exploration and Replay

A node's id is the number of its creation, 0 for the root: `n001`, `n002`, ... sort the same
way. A branch is its position in the incident's `branch_order`, which is all that opening
branches depends on, so the shuffle of the environment is the choice of `target`. Scores and
parameters are integers in hundredths, and `Priority` is the code's value times 10^4.

`RolloutRound` and `ReplayRound` are one pass of the two loops with the call of `select` in
it: a thread on its own memory, with no effect in between that anything could see.
`Observed` is the update of the policy's state, which happens before any early end of
`select`. `Candidates` and `Rank` stand for the list and its sort: the key puts higher
values first and the root before an equal leaf, and since the sort is stable and leaves are
appended sorted by id, equal leaves go by id. The nodes of a round are created in the order
of selection. `replay_tree` works on a copy of the policy state that starts fresh
(`StartRun`), and its tree is the recorded one; what it returns (`from_dict(to_dict())`) has
the same nodes.

| Action of `Replay` | Code |
|---|---|
| `Record`, `Explore` | one pass of `online_rollout` (`rollout.py:19-34`), or its end |
| `BeginReplay` | the call of `replay_tree` with the recorded tree |
| `ReplayOnce` | one pass of `replay_tree` (`replay.py:14-32`), or its end |

The three runs come one after another, as nothing in the program interleaves them. `own` is
there for comparison: the run that a replay stands for.

### PolicySearch

`Init` evaluates the initial policy, each `Try` is one pass of the loop at
`optimizer.py:57`: any recent elite as the parent, any two to four parameters set to any
listed value, the evaluation, the comparison. What a candidate is worth is a constant
operator here (`Objective`), so that the search can be reasoned about without it; the
configuration takes it from `PolicyEvaluation`, where `Value` is the objective with the
code's default coefficients, multiplied by a common multiple of all numbers of rounds, so it
is exact. `worth` tabulates what a policy's replays and its own rollouts on the training
incidents give; it is a variable only for TLC to compute it once. A draw may repeat the
inherited value, as in the code. The leaderboard's order and rounding are left out.

## 3. Model checking

Every run's configuration gives values to constants only. Deadlock is not checked
(`CHECK_DEADLOCK FALSE`): the number of investigations, of candidates and of rounds is
bounded, and nothing obliges anyone to ask for another investigation, so the system may
stop.

| Run | Configuration | Question |
|---|---|---|
| bgp | `MCBgp.cfg` | Two consecutive investigations by the shipped procedure from an empty history; or one, by the navigator that learns, after 1, 4, 5 or 6 recorded runs of one kind, or three of one and two of another, with latencies of 20 and 6400 ms for the two competing diagnostics. Any result of every tool: all safety properties, the append-only history, what learning may reorder, and the refinement of `Investigation`. TLC also evaluates that the engine's constants are the shipped tables (`ShippedAssumption`), that every tool is allow-listed with the parameter it needs, and that the recorded pasts are histories the theorems about learning speak of (`PastIsQuick`). |
| custom | `MCCustom.cfg` | The same engine on a three-step procedure with what the shipped one lacks: cycles of length 2 and 3, equal priorities, an outcome without transition, a diagnosis without terminal step, and a step limit that is reached. Two guarantees that need no condition on the procedure, the refinement of `Investigation` (which implies the order of steps and that none is repeated), and termination under fairness. |
| lab | `MCLab.cfg` | Up to two scenario changes anywhere in two investigations, each command but ping may fail. TLC also evaluates that its commands are quick in the sense of the theorems (`MCQuick`), as it does for the fixtures. |
| store | `ExperienceStore.cfg` | Three calls of `live_run` by two processes, overlapping and dying at will. |
| fixtures | `MCFixtures.cfg` | The eight runs of the fixture suite, with all files or without any one or two of the 15: `LearningPays` and `SuiteDiagnoses`. |
| replay | `MCReplay.cfg` | Every recorder, learner and fault: 51 x 51 x 6 initial states, three runs each. TLC also evaluates `TellsApart`, the condition of theorem `ReplayStaysHonest`, for these policies and for all that mutation can make of what ranks nodes. |
| search | `MCSearch.cfg` | All searches of three candidates from the fixed policy: the parents, the mutations of five parameters. |
| bgp_fail_closed, learned_slow, lab_filter, store_lost, store_raise | `MCBgpFailClosed.cfg`, `MCBgpSlow.cfg`, `MCLabFilter.cfg`, `ExperienceStoreLost.cfg`, `ExperienceStoreRaise.cfg` | One documented statement each that the code does not meet (section 4). |

### The properties

Engine (`ProcedureEngine`):

* `TypeOK`: types, the loop counter within `max_steps`, a tool called at action steps only.
* `NoRepeatedStep`: no diagnostic twice in a run, cycles notwithstanding.
* `PathFollowsGraph`: each step follows its predecessor by an authored transition for the
  outcome observed there.
* `DiagnosisHasEvidence`: a reported fault was proved by the last executed step and the
  experience graph holds the SUPPORTS edge. Relates terminal labels, evaluator, history.
* `ProofIsReported`: a step that proved a fault is always the one the run reports.
* `EndsInVerdict`: no completed run ends by step limit or dead end; escalated means
  escalate.
* `EscalationExhausts`: an escalation leaves no eligible diagnostic untried.
* `RecordMatchesRun`: the last executions of the history are this run's, each with the
  context known before it.
* `HistoryIsSound`: no dangling edge, no id that is in use and will be given out again,
  and full provenance of each execution.
* `HistoryOnlyGrows` (action property): nothing recorded changes; the history grows exactly
  when a step was executed, by one execution.
* `ImplementsInvestigation` (refinement): evidence is collected piece by piece, none twice, and
  a conclusion is what the evidence proves. A visited set that fails shows here and in
  `NoRepeatedStep`.
* `InvestigationEnds` (liveness): every run returns or raises. The loop is bounded by
  `max_steps` in any case, so this says nothing about the visited set; it is about calls that come
  back, exceptions that end the run, and a loop that is left at a terminal step.

Learning: `ConfigMovesEarlier` states the example of `docs/graph-model.md:87-89`.

Lab: `VerdictWasTrue`: the scenario that a run blames was applied when its last command ran;
the export policy is blamed only if the prefix was missing at some moment of the run; after
an all-clear r2 had the prefix when it was looked for. The session may have gone down and
come back in between. `StableVerdictIsRight`: on a network that does not change, with
commands that work, the verdict is exactly the right one. With the session down it names a
scenario that breaks it, and never the filter beside it; with the session up it is the
all-clear if and only if r2 has the prefix and the incident spells it as FRR does. For
another spelling it blames whatever policy is attached, or escalates, which is what the code
does and not what one would want. `ScenarioIsFound` (violated, section 4) is the expectation
of the documentation that one of the scenarios applied is the diagnosis.

Store: `LoadedHistoryIsSound`, `SavedIsKept`, `ReportsAreBacked`, `AllExecutedIsRecorded`
and `DamageIsNotErased` (once no run is under way, an unreadable file is never replaced by a
new history). `SavedIsKept`, `ReportsAreBacked` and `AllExecutedIsRecorded` are stated for
behaviours in which no two runs overlap; the last one also for runs that came to their end.

Fixture suite: `SuiteDiagnoses` (each completed run names its scenario's fault; a missing
file ends the suite and never changes a diagnosis) and `LearningPays` (in a complete suite
no scenario costs more calls or time in the second phase, and the totals are those that
`README.md:81-82` reports).

Rollout and replay (`Replay`, `MCReplay`):

* `BudgetKept`: fewer than `max_nodes + workers` nodes. The code may exceed `max_nodes`, but
  by less than one round.
* `RoundsPartition`: each round shows something new, at most `workers` nodes, none twice;
  together they are what was revealed, and there are at most 12. `score_result` divides by
  their number.
* `LooksInOrder`: no node without its parent, no branch before an earlier one.
* `ReplayIsHonest`: compares a replay, round by round, with what the replayed policy does
  online. In the first round where they differ the replay shows a part of what the policy
  looked at, never anything else; if they never differ, both end alike. This is the exact
  sense in which "replay must not fabricate counterfactual observations"
  (`CONTRIBUTING.md:32`) holds: after the first difference the two may go different ways.
* `ReplayReproduces`: the recording policy sees the recorded rounds again, all of them.
* `SafeButExpensive`: a policy that leaves nothing out (`Exhaustive`) finds every fault, and on
  its trees the replay of every policy is that policy's online run, to the last round. "deliberately
  safe" (`policy.py:62`) is meant of the fixed policy, and an `ASSUME` of `MCReplay` has TLC evaluate
  that the fixed policy is exhaustive for six branches and twelve rounds.

Search (`PolicySearch`): `TypeOK` (branch limits never contradict each other),
`BestTopsLeaderboard`, `ElitesClimb`, `ReplayPredictsOnline` (what is optimised is the value
that the policy would get online) and `OptimumDiagnoses` (of all policies within reach of
mutation in this instance, the best names every training fault). The last one is about the
objective, in which cost may outweigh quality: with two workers and `stop_threshold` 0.76 a
policy stops at the second piece of evidence, names no fault, and still scores above the
fixed policy (`optimizer.py:62` looks at the value alone). The search may accept such a
policy on its way; the property says it is not the best there is.

Each module keeps next to a definition the mutants of it: plausible slips in the code (a
dropped check, a wrong slice, min for max) that break the property named for them in
`PROJECT.json`. No specification uses a mutant.

### Bounds, and why they are enough

* `MaxSteps = 12` is the code's default; the shipped procedure has seven diagnostics, so
  that a run cannot reach it (theorem `ShippedEngineIsHonest`), and the `bgp` run says nothing about
  the limit. `MCCustom` uses 3, the number of its
  diagnostics: a run that tries them all meets the limit before its verdict.
* `MaxRuns = 2`: everything that crosses from one run to the next goes through the
  experience graph, and two runs suffice for its operations to meet entities of an
  earlier run (same or another incident). More runs only matter for statistics, and
  there up to six recorded runs (`MCLearned`) go before one investigation (`BoundedSpec` of
  `MCBgp`), on both sides of the weight's saturation at five executions (`min(1, n/5)`).
* Two incidents: one spelled canonically, one not. Two navigators, chosen per
  run.
* Commands answer in 20 ms while a run is checked; what latency decides is in the recorded pasts.
  6400 ms there is just under
  the 6500 ms at which a useless step falls to the escalation's 0.10; 15000 ms, the
  adapter's timeout, is beyond.
* `MaxChanges = 2`: a scenario can come and go, or one replace another, within a run or across
  two; the initial network is any of the 16. `MCLabFilter` needs one run only.
* Store: two processes and three runs allow a save between another's load and save, and
  one more run to observe the result; two executions per run exceed what a report of one
  run could confuse with a whole history.

* Replay: six branches and twelve rounds are the code's. The 51 policies are the fixed one,
  the default, the one learned in `artifacts/demo`, and 48 combinations of values from the
  lists of `optimizer.py`, including one, two and four workers, limits that cut a tree in the
  middle of a round, and thresholds on both sides of the scores.
* Search: faults on the first, third and last branch; five of the ten parameters, at the ends
  of their lists, which change all that selection looks at but the weights. Three
  candidates and a window of two elites (12 in the code) let an elite leave the window.
* Fixtures: two missing files suffice to hit two scenarios, or one in both of its branches.

### Fairness

`FairSpec` adds weak fairness of one action, the disjunction of the engine's steps and the
adapter's answer. The loop runs in one thread and never waits but in the adapter; a fixture
is read from disk, and a live command is killed after `timeout_seconds`
(`adapters.py:96-102`), which raises. So the call always comes back one way or the other.
There is no fairness for `Begin`, for scenario changes or for processes of the store. The
replay half needs none: `RoundsPartition` bounds the rounds of every run and each pass adds
a round or ends the run, so a rollout that goes on ends.

## 4. Where code and documentation disagree

1. **Failed commands** (`bgp_fail_closed`). `CONTRIBUTING.md:36`: "Fail closed when a parser,
   tool, validator, or evidence source is unavailable." Two of the seven evaluators do not.
   `_reachability` (`bgp_procedure.py:363-377`) takes every non-zero return code for a proof
   that the peer is unreachable, 127 (no ping in the container) included. `_export_policy`
   (480-501) never looks at the return code: a running-config that could not be read is
   "clear". `tests/test_bgp_procedure.py:32` states the opposite for the firewall.
2. **Slow commands** (`learned_slow`). The latency term of the score has no bound. After
   three runs with commands of 15 s a diagnostic scores below the escalation's authored
   0.10, and the engine escalates without trying it: an ASN mismatch that the fixed
   navigator finds is missed. `README.md:99-101` says that experience may change "which
   eligible diagnostic step is tried first".
3. **Overlapping runs** (`store_lost`). Two `live_run`s on one directory: the second save
   replaces the first (`bgp_demo.py:87-100`). `docs/graph-model.md:56`: "append-oriented".
4. **Runs that raise** (`store_raise`). `save` comes after `run`; the timeout of the adapter
   is caught nowhere, and with it go the executions already made. `README.md:49`: "An
   Experience Graph records each action".

5. **The filter scenario** (`lab_filter`). `lab/bgp/README.md:3`: "four controlled fault
   scenarios". `route_map_filter` hides no route. Its prefix-list denies 192.0.2.1/32
   (`scenario.py:55`), and it is the match of `route-map BLOCK-EXPORT deny 10` (57-58): what
   the list denies the clause does not match, and `permit 20` (59) lets it pass. On a stable network
   with this scenario applied every command works and the run ends in `no_fault_detected`, where
   `SCENARIOS` of `bgp_demo.py:19-24` expects `route_map_filter`. The fixtures recorded for the scenario do
   lack the route, so the fixture suite finds it; they are not what this configuration produces
   (`README.md:198`: "The bundled fixtures mirror expected FRR output"). Everything else that the clause
   would match, it blocks; r1 originates nothing else.

## 5. Proofs

TLAPS proves the following. Those of the engine hold for every procedure, evaluator, tool
behaviour, loaded history and bound that the named assumptions of `ProcedureEngine` admit;
those of `ShippedProofs` for the shipped procedure, any incidents, histories and latencies
and any number of scenario changes; those of `StoreProofs` for any number of processes,
incidents, calls and executions; those of `ReplayProofs` and `HonestProofs` for every set of
policies, any number of branches, any place of the fault and any limit on rounds; those of
`SearchProofs` for every objective, initial policy, lists to draw from, window and number of
candidates.

| Theorem | Module | Statement |
|---|---|---|
| `RecordExtends` | `ExperienceGraphProofs` | recording in a well-formed graph keeps all vertices and edges, uses a free id, and gives a well-formed graph |
| `TypeCorrect` | `ProcedureEngineProofs` | `Spec => []TypeOK` |
| `NoRepetition` | `ProcedureEngineProofs` | `Spec => []NoRepeatedStep` |
| `PathIsAuthored` | `ProcedureEngineProofs` | `Spec => []PathFollowsGraph` |
| `HistoryGrows` | `ProcedureEngineProofs` | `Spec => HistoryOnlyGrows` |
| `DiagnosisIsProven` | `VerdictProofs` | `Spec => []DiagnosisHasEvidence`, if terminal labels agree with the evaluator (`TerminalsMatchEvidence`) |
| `VerdictReached` | `VerdictProofs` | `Spec => []EndsInVerdict`, if every outcome has a way out (`WayOut`) and there are fewer diagnostics than the step limit |
| `ProofsAreReported` | `VerdictProofs` | `Spec => []ProofIsReported`, under the conditions of `VerdictReached` and if a proof leads to its terminal step alone (`ProofsConclude`) |
| `EngineImplements` | `VerdictProofs` | `Spec => ImplementsInvestigation`, under `TerminalsMatchEvidence` and `ProofsConclude` |
| `QuickWalkEscalatesLast` | `VerdictProofs` | `Spec => []EscalationExhausts` for either navigator, if escalations have a lower priority than the diagnostics beside them by more than what latencies and costs within two bounds can take off a score (`EscalatesFarBelow`), and commands and loaded histories stay within these bounds (`Quick`) |
| `FixedEscalatesLast` | `VerdictProofs` | `Spec => [](policy = "fixed" => EscalationExhausts)`, if escalations have a lower priority than the diagnostics beside them (`EscalatesLast`) |
| `HistoryStaysSound` | `ProcedureEngineProofs` | `Spec => []HistoryIsSound`, if the loaded histories are sound (`HistoriesAreSound`) |
| `RecordsMatch` | `ProcedureEngineProofs` | `Spec => []RecordMatchesRun` |
| `LoadedIsSound` | `StoreProofs` | `Spec => []LoadedHistoryIsSound` |
| `SavedStays`, `ReportsStayBacked`, `NothingGoesUnrecorded` | `StoreProofs` | `Spec => []SavedIsKept`, `Spec => []ReportsAreBacked`, `Spec => []AllExecutedIsRecorded`, if `Absent` and `Torn` are two things that are no graph (`NoGraphs`) |
| `StoreTypes` | `StoreProofs` | `Spec => []TypeOK` |
| `DamageStays` | `StoreProofs` | `Spec => DamageIsNotErased` |
| `ReplayTypes` | `ReplayProofs` | `Spec => []TypeOK` |
| `BudgetHolds` | `ReplayProofs` | `Spec => []BudgetKept` |
| `RoundsDivide` | `ReplayProofs` | `Spec => []RoundsPartition` |
| `OrderHolds` | `ReplayProofs` | `Spec => []LooksInOrder` |
| `ReplayIsFaithful` | `ReplayProofs` | `Spec => []ReplayReproduces` |
| `ReplayStaysHonest` | `HonestProofs` | `Spec => [](TellsApart(learner) => ReplayIsHonest)`: the learner gives different values to nodes that differ |
| `ExhaustiveTreesAreSafe` | `HonestProofs` | `Spec => [](TellsApart(learner) => SafeButExpensive)` |
| `ShippedTablesAgree` | `ShippedProofs` | `WayOut`, `TerminalsMatchEvidence`, `ProofsConclude` and `EscalatesLast` hold of the shipped tables |
| `ShippedEngineIsHonest` | `ShippedProofs` | `Spec => []DiagnosisHasEvidence /\ []ProofIsReported /\ []EndsInVerdict /\ ImplementsInvestigation`, without a condition |
| `LabRunsTheEngine` | `ShippedProofs` | `LabSpec => Spec`: the composition refines its component |
| `VerdictsAreTrue` | `ShippedProofs` | `LabSpec => []VerdictWasTrue`, if every command but ping may fail |
| `ExhaustiveWalkIsRight` | `ShippedProofs` | `LabSpec => [](EscalationExhausts => StableVerdictIsRight)` |
| `FixedWalkIsRight` | `ShippedProofs` | `LabSpec => [](policy = "fixed" => StableVerdictIsRight)` |
| `ShippedEscalatesLast` | `ShippedProofs` | `ShippedQuick` implies `Spec => []EscalationExhausts` |
| `LearnedConfigComesFirst` | `ShippedProofs` | `ShippedQuick` implies `Spec => ConfigMovesEarlier` |
| `QuickWalkIsRight` | `ShippedProofs` | `ShippedQuick` implies `LabSpec => []StableVerdictIsRight` |
| `FilterGoesUnnoticed` | `ShippedProofs` | `ShippedQuick` implies that in `LabSpec`, on a stable network with `route_map_filter` or nothing applied, commands that work and the canonical spelling give `no_fault_detected` |
| `SuiteRunsTheEngine` | `ShippedProofs` | `SuiteSpec => Spec` |
| `SuiteIsAccurate` | `ShippedProofs` | `ShippedQuick` implies `SuiteSpec => []SuiteDiagnoses` |
| `SearchTypes` | `SearchProofs` | `Spec => []TypeOK` |
| `BestStaysOnTop` | `SearchProofs` | `Spec => []BestTopsLeaderboard` |
| `ElitesOnlyImprove` | `SearchProofs` | `Spec => []ElitesClimb` |

**Assumptions.** `StepsAssumption` (action and terminal steps are disjoint, labels are
diagnoses), `ValidateAssumption` (what `validate()` enforces), `EvaluateAssumption` and
`ResultsAssumption` (types of outcomes and latencies), `BoundsAssumption`, and
`HistoryAssumption` (a loaded history is well formed: ids below the counter). The last is
what `RecordExtends` preserves and what the store's `LoadedHistoryIsSound` checks of files.
`ShippedAssumption` (`BGPEngine`) ties the engine's constants to the shipped tables,
`LabAssumption` says which commands may fail, `SuiteAssumption` that the engine may be asked
for the runs of the suite, `PoliciesAssumption` that a policy has a worker and a budget,
`SizesAssumption` that sizes are numbers, `SearchAssumption` and `ObjectiveAssumption` that
the initial policy's branch limits do not contradict each other and that values can be
compared. TLC evaluates each of them in every run whose module extends theirs.

**Types** need that the counter is below the limit while a command runs (`CountInv`): only
then may the pass append.

**The walk.** `NoRepeatedStep` is not inductive: nothing in it keeps a step from coming
back. `WalkInv` says that `visited` holds exactly the executed steps and the one in the
adapter, and that the loop never stands at a visited step. A candidate is unvisited, so the
next append is new. `PathFollowsGraph` needs the same invariant for the step in the adapter.
Both are proved of one lemma about appending (`AppendKeepsWalk`).

**The history.** `WellFormed` (every execution and evidence id is below the counter) is
inductive on its own; a fresh id then meets no entity, `_upsert` never replaces one, and the
graph only grows. Provenance is a matter of each execution for itself (`Tied`): the edges of
a new one start and end at its own fresh ids, so they disturb no other, and as no old edge
touches these ids (`EdgesJoinVertices`), they are all it has (`RecordKeepsProvenance`).
`RecordMatchesRun` needs in addition that the evidence is there (`MatchInv`), since only
what is there is kept; the place of an execution counted from the end stays the same as
sequence and run grow together.

**The store.** That every graph at hand is sound (`GraphsAreSound`) is inductive by the same
lemma, whatever overlaps: what is loaded was saved from a sound graph. The next three rest
on `OneAtATime`: without overlap at most one process is under way, no save clashes with
another, and all that was saved and reported is in the file when it is whole and in the
graph that is about to replace it. `Counted` adds the number of commands. For `StoreTypes`
the bound on the file's sequence is not inductive, as a process may hold a long graph while
others have died: `Bounded` counts the calls that the runs under way may still make
(`Open`), of which each call uses up one, and says that no graph has more executions than
calls were made. `NoGraphs` is the only condition; the configurations give `Absent` and
`Torn` model values, which are no graphs. `LoadedIsSound` is what `HistoriesAreSound` and
`HistoryAssumption` ask of the engine's loaded histories.

**Verdicts.** `DiagnosisHasEvidence` needs that the proof of the last step is in the history
(`ProofRecorded`) and that a loop standing at a claiming terminal came there from the step
that proved its claim (`ClaimIsProven`). `EndsInVerdict` is a counting argument: `visited`
grows by one with each execution, so the limit cannot be reached by fewer diagnostics; and a
dead end would need every way out of the outcome to be visited, which the rank excludes, as
visited steps never rank above the current one. `FixedEscalatesLast` follows from the choice
of a highest priority. Both it and `QuickWalkEscalatesLast` rest on `LeftStep`: a navigator
that prefers diagnostics to the escalation beside them leaves none untried when it
escalates.

**What experience can do.** For the navigator that learns this is not true of every history:
the run `learned_slow` shows it to escalate before a diagnostic was tried, after commands of
15 s. The theorems say which histories are harmless. `Quick` bounds the latency and cost of
every command, recorded ones included, and is kept by recording (`RecordStaysWithin`,
`StaysQuick`). Statistics are sums over a finite set of executions, defined by a recursive
function on finite sets, so `SumExists` first shows by induction on the cardinality that
this function exists; then a sum of terms within a bound is within the bound times their
number (`SumBound`, `StatisticsBound`). So the term that experience adds to a priority is at
least minus the bounds, whatever the number of executions and their weight (`ScoreParts`):
scores with different denominators compare as their slopes do (`SteeperIsBetter`). An
escalation has no executions, as no terminal step is ever recorded, and keeps its authored
0.10; a diagnostic beside it has 0.80 or 0.90 and loses less than 0.70
(`EscalationScoresLess`). In `ShippedQuick` the bounds are 6499 ms and cost 1, the largest
that the shipped priorities leave room for. Where the sums are extreme, the same lemmas turn
the order round: with firewall executions none of which proved anything, and configuration
executions that all did, the second step scores at least 0.55 + 0.16 (one execution has a
fifth of the weight, and gains at least 1.50 - 0.70) and the first at most its authored 0.60
(`ProvenConfigScoresMore`). The theorems speak of any number of investigations and of any
loaded history; the run `bgp` starts from such histories, made of past runs, and TLC
evaluates that they are quick.

**Proofs conclude, and the refinement.** `ProofIsReported` and the refinement rest on
`OnlyLastProves`: no step but the last executed one has proved a fault, and after a proof
the loop stands at the terminal step for it or has been left. `ProofsConclude` makes it
inductive, as no diagnostic can follow a proof. What remains for `ProofIsReported` is a run
that ends at the step limit with a proof in hand, which `EndsInVerdict` excludes. In the
refinement the executed steps are the evidence: `Advance` collects a piece that `WalkInv`
says is new, `DeadEnd` collects and concludes, a terminal step concludes with the proof in
hand (`OnlyLastProves`) or, without one, claims no fault (`ClaimIsProven`), a call of a tool
and its answer stutter, and an exception or the step limit abandons.

**The shipped tables.** `ShippedTablesAgree` discharges the conditions of the four theorems
above for the procedure that the program ships. `EvaluatorSays` reduces each evaluator,
whatever text the tool returned, to the few pairs of outcome and diagnosis it can say
(`Sayings`); the conditions are then facts about two finite tables. The rank of `WayOut`
puts the two diagnostics of the cycle at the same height. `MCCustom` has TLC evaluate two of
the conditions for its own procedure.

**The lab.** Each step of the lab is a step of the engine or leaves the engine alone
(`LabStep`: what a command shows of a network is a result its tool can return), so that
every theorem of the engine holds in the lab (`LabRunsTheEngine`). For `VerdictsAreTrue` the
invariant `TruthInv` says that a result in hand is what the network last `read` shows, or a
failure; that a terminal step at which the loop stands was reached with such a result
(`Witnessed`); and that whoever asks for the export policy has seen the prefix missing
(`LossSeen`), which is the one part of a verdict that rests on two commands. It is inductive
because an evaluator proves a fault only from what it has read (`EvaluationIsTrue`) and a
failed command proves nothing (`FailureProvesNothing`). Ping is excluded from the commands
that fail, since for it the latter is false (section 4, 1). `StableInv` is about a network
that stays: wherever the run stands, what it has found out so far is so, and the right
verdict lies ahead (`Standing`, `OnCourse`), so only giving up early can miss it. What is
left is the navigator: the fixed one does not give up (`FixedEscalatesLast`), and with quick
commands neither does the other (`ShippedEscalatesLast`). None of these proofs asks what the
filter matches: they hold whether it hides the prefix or not, as the verdict is stated with
`HasRoute`. That it does not is `FilterPassesLoopback`, an evaluation of the two lists of
`scenario.py`, from which `FilterGoesUnnoticed` follows.

**The fixture suite.** Its recorded files and the lab were modelled from different sources,
the files from the repository's examples and the lab from `scenario.py`. `FilesShowTheFault`
says how far they agree: what a file of a scenario contains is what the lab shows when
exactly that scenario is applied, but for the route of `route_map_filter`, which the files
lack and the lab has (section 4, 5). The lemmas about the course of a run have therefore a
parameter `has`, whether r2 has the prefix, which is `HasRoute` in the lab and false in the
suite. Each run of the suite is then on the course of a lab with this scenario (`OnCourse`,
the invariant that `StableInv` is made of, with the same lemmas `CourseStep` and
`CourseBegins`), whatever the runs before have taught. A missing file ends the suite by an
exception, so what is collected came to its end and is right (`SuiteInv`). Early escalation
is excluded by `ShippedEscalatesLast`: the recorded latencies are quick, and so are the
histories that the suite makes of them.

**The search.** `SearchInv` says that the elites rise from the initial policy to the best,
that all are on the leaderboard, and that nothing there is worth more than the best.
Mutation stays within the lists and repairs contradicting limits (`MutationsType`).

**Rollout and replay.** `RunsAreSound` (module `ReplayProofs`) is the inductive invariant:
`Sound` says for one run that it is typed, that its rounds divide what it revealed, that it
is in order and within the budget; online runs also have all of their tree revealed
(`Full`). Two facts carry the step. First, ranks are distinct and leave no gap
(`RankIsPlace`, `PlaceIsTaken`), so no more than `workers` candidates have a rank below
`workers` (`FirstPlaces`): with the budget looked at before the round this bounds
`BudgetKept`, and the size of a round. Secondly, what a pass adds is hidden before it: new
ids online, the least hidden child in a replay. So rounds are disjoint, a child comes after
its selected, hence revealed, parent, and the least hidden child of the root is the earliest
unopened branch.

**A replay by the recorder.** `ReplayReproduces` relates a run to another one that is over,
so the invariant has to remember how that one went. `WalkInv` says that there is a trail: a
sequence of runs, one for each number of rounds, each the result of a pass on the one
before, from the start to the recorded run. No history variable is needed, the trail is
quantified. The replay, after k rounds, is `Alike` the k-th run of the trail: the same nodes
revealed and the same state of the policy, in a larger tree. Both then select the same, and
the earliest hidden children are just the nodes that the trail's next run has grown.

**A replay by another policy.** Here ids differ. Which trees an incident can grow is the
same for all policies (`WellGrown`): branches are opened in order, each is a path, and a
node's score depends on its branch and depth only. Two runs that have revealed the same
branches and depths (`Kin`) have a twin of each node, and the lists of candidates correspond
(`KinObserved`). Ties go by id, so the order is the same if ties are harmless: two nodes of
equal value must be of equal depth, and then either the first of their branches, whose ids
are in the order of the branches in both trees, or both off the fault's branch, which keep
that order (`TieMeans`, `OrderIsOfBranches`, `KinOrder`). That is `TellsApart`. Without it
the property is false: with `evidence_weight` 1.00 and `depth_penalty` 0.06 the first node
of a branch without the fault (0.10 - 0.06) and the second (0.16 - 0.12) have the same
value, and the tie goes by ids that depend on who recorded the tree. No policy that the
program can make is of this kind, which TLC evaluates for all of them (`RankingsTellApart`
in `MCReplay`). `Honest` says, of the rounds retraced one by one (`Retraces`), that as long
as both runs have looked at the same, they are kin, and that where the replay departs it has
shown a part of the round and goes on by itself; `HonestInv` is inductive by `KinRound` and
`RetracedRound`.

**Trees that leave nothing out.** `SafeButExpensive` speaks of every policy that is
`Exhaustive`: no score and no budget stops it before it has seen all there is, it opens
every branch and no other, and the limit on rounds is high enough. How high is a count. A
round either keeps all workers busy or, as there were fewer candidates than workers, looks
at everything there is to look at (`WorkersBusy`, `LeavesNothingOut`); the u-th round of the
second kind has opened branch u and gone one step further on each branch before
(`NextPlaces`), so there are at most `Branches + MaxDepth - 1` of them. `Paced` keeps this
count: the nodes are at least one for each of these u rounds and `workers` for each other
round, and no tree has more than `MaxDepth * Branches` (`RoomForNodes`), so the run cannot
get to the limit (`RoundsSuffice`) and ends with a `Complete` tree (`PaceIsKept`). With the
shipped numbers the margin is narrow: 18 + 2 * 8 = 34 is below 3 * 12. In a replay of a
complete tree whatever the online run would grow is recorded and still hidden
(`StillHidden`), so the kin of the proof above never part: each round is the same
(`CompleteRound`), and if the replay has shown all, nothing is left online either
(`AllIsShown`, `NothingLeft`). `Matches` says so of the rounds so far. The diagnosis is at
the end of the branch of the fault (`Truthful`), which a complete tree contains.

**Only model-checked**: termination (`InvestigationEnds`; liveness is beyond the prover);
`LearningPays`, which needs the exact statistics of the executions of a whole suite, where
the theorems have only bounds on them; `ReplayPredictsOnline`, whose two sides are folds
over the rounds of whole runs, where the prover has no induction (`ExhaustiveTreesAreSafe`
says of the same runs, taken as state machines, that they agree in every round); and
`OptimumDiagnoses`, which depends on the numbers of the program's objective.

## 6. What is not modelled

* Catalogue, demo, CLI and reports: constants, a script without choices, formatting. The
  files that `fixture_suite` writes at its end.
* The text of evidence, confidence, digests, timestamps: nothing in the program reads
  them back.
* The character checks of the adapter and the command lines it builds.
* Hypotheses, commands, observations and latencies of discovery nodes, by which nothing is
  selected or scored; the names of policies.
* Floating-point rounding at exactly equal scores. In `select`, 1.5 * 0.10 is a little more
  than 0.15 in floats and equal to it here, where the root goes first; in the search, two
  policies of equal objective may differ in the last bit of a mean. In the engine, the
  authored order of equal transitions (any of them may be chosen).
* Protocol convergence in the lab, and the `soft out` refresh of a changed filter.

## 7. What could come next

* `ReplayPredictsOnline` from `ExhaustiveTreesAreSafe`, for the incidents of the search.
* All ten parameters in the search, and float rounding as a choice at ties.
