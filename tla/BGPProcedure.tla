----------------------------- MODULE BGPProcedure -----------------------------
(***************************************************************************)
(* The procedure the program ships for BGP: build_bgp_procedural_graph,    *)
(* _resolve_action over the lab knowledge graph, and BGPEvidenceEvaluator  *)
(* (src/src/dreamnet/bgp_procedure.py), with the tool boundary of          *)
(* adapters.py.  Constant-level: these are the values that the CONSTANTS   *)
(* of ProcedureEngine take.                                                *)
(*                                                                         *)
(* Tool output is abstracted to what the evaluator's parsers and regular   *)
(* expressions can tell apart; the return code keeps the value that        *)
(* matters (0, 1 for a ping without answer, 127 for a command that could   *)
(* not be run).                                                            *)
(***************************************************************************)
EXTENDS Integers

CONSTANTS
  NoFault,             \* the None of StepEvaluation.diagnosis
  Latencies,           \* latencies (ms) that tool results may carry
  CanonicalIncidents   \* incidents whose expected_prefix is spelled the way
                       \* FRR prints it (length, no host bits)

-----------------------------------------------------------------------------
(* build_bgp_procedural_graph.                                             *)

BgpActionSteps ==
  {"bgp_summary", "interface_state", "peer_reachability", "firewall_policy",
   "peer_configuration", "route_presence", "export_policy"}

BgpTerminalDiagnosis ==
  [diagnosed_interface_down    |-> "interface_down",
   diagnosed_peer_unreachable  |-> "peer_unreachable",
   diagnosed_tcp_blocked       |-> "tcp_179_blocked",
   diagnosed_asn_mismatch      |-> "asn_mismatch",
   diagnosed_neighbor_shutdown |-> "neighbor_shutdown",
   diagnosed_route_filter      |-> "route_map_filter",
   healthy                     |-> "no_fault_detected",
   escalate                    |-> "escalate"]

BgpTerminalSteps == DOMAIN BgpTerminalDiagnosis
BgpDiagnoses == {BgpTerminalDiagnosis[s] : s \in BgpTerminalSteps}

BgpStartStep == "bgp_summary"

Arc(source, outcome, target, priority) ==
  [source |-> source, outcome |-> outcome, target |-> target, priority |-> priority]

\* Priorities in hundredths.
BgpTransitions ==
  {Arc("bgp_summary", "not_established", "interface_state", 100),
   Arc("bgp_summary", "established", "route_presence", 100),
   Arc("bgp_summary", "unavailable", "escalate", 100),
   Arc("interface_state", "down", "diagnosed_interface_down", 100),
   Arc("interface_state", "up", "peer_reachability", 100),
   Arc("interface_state", "unavailable", "escalate", 100),
   Arc("peer_reachability", "unreachable", "diagnosed_peer_unreachable", 100),
   Arc("peer_reachability", "reachable", "firewall_policy", 60),
   Arc("peer_reachability", "reachable", "peer_configuration", 55),
   Arc("firewall_policy", "blocked", "diagnosed_tcp_blocked", 100),
   Arc("firewall_policy", "clear", "peer_configuration", 90),
   Arc("firewall_policy", "clear", "escalate", 10),
   Arc("firewall_policy", "unavailable", "peer_configuration", 90),
   Arc("firewall_policy", "unavailable", "escalate", 10),
   Arc("peer_configuration", "asn_mismatch", "diagnosed_asn_mismatch", 100),
   Arc("peer_configuration", "shutdown", "diagnosed_neighbor_shutdown", 100),
   Arc("peer_configuration", "matched", "firewall_policy", 80),
   Arc("peer_configuration", "matched", "escalate", 10),
   Arc("peer_configuration", "unavailable", "firewall_policy", 80),
   Arc("peer_configuration", "unavailable", "escalate", 10),
   Arc("route_presence", "present", "healthy", 100),
   Arc("route_presence", "missing", "export_policy", 100),
   Arc("route_presence", "unavailable", "escalate", 100),
   Arc("export_policy", "filtering", "diagnosed_route_filter", 100),
   Arc("export_policy", "clear", "escalate", 100)}

BgpOutcomes == {t.outcome : t \in BgpTransitions}

-----------------------------------------------------------------------------
(* _resolve_action over build_lab_knowledge_graph: the one BGP session of  *)
(* the lab joins r1 (local) to r2 (remote), and only route_presence has    *)
(* the remote role.  The adapter's allow-list and command table.           *)

BgpTool ==
  [bgp_summary        |-> "show_bgp_summary",
   interface_state    |-> "show_interface",
   peer_reachability  |-> "ping_peer",
   firewall_policy    |-> "show_firewall",
   peer_configuration |-> "show_running_config",
   route_presence     |-> "show_bgp_route",
   export_policy      |-> "show_running_config"]

BgpDevice ==
  [s \in BgpActionSteps |-> IF s = "route_presence" THEN "r2" ELSE "r1"]

BgpCost == [s \in BgpActionSteps |-> 1]

\* _resolve_action fills the one parameter a tool needs.
BgpParameter(tool) ==
  CASE tool = "show_interface" -> "interface"
    [] tool = "ping_peer"      -> "peer_ip"
    [] tool = "show_bgp_route" -> "prefix"
    [] OTHER                   -> "none"

\* ContainerlabFRRAdapter: the tools execute accepts, and the parameter that
\* _build_tool_command reads for each (it raises without it).
FixedCommands ==
  {"show_bgp_summary", "show_ospf_neighbor", "show_ospf_database", "show_rib",
   "show_fib", "show_interface", "show_running_config", "show_firewall"}

AllowListed == FixedCommands \cup {"show_bgp_route", "show_interface", "ping_peer"}

RequiredParameter ==
  [tool \in AllowListed |->
     CASE tool = "show_interface" -> "interface"
       [] tool = "ping_peer"      -> "peer_ip"
       [] tool = "show_bgp_route" -> "prefix"
       [] OTHER                   -> "none"]

-----------------------------------------------------------------------------
(* Tool results.  stdout is the class of text a parser can tell apart:     *)
(*   summary    not JSON, JSON without the peer, and the peer's state      *)
(*   interface  not JSON, JSON whose shape the parser cannot index         *)
(*              ("[]" or a scalar), no operstate, and the state            *)
(*   config     the neighbor's shutdown and remote-as lines, and the       *)
(*              outbound route-map attached to it                          *)

RunningConfigs ==
  [shutdown  : BOOLEAN,
   remote_as : {"none", "expected", "other"},
   route_map : {"none", "permit", "deny"}]

Stdouts ==
  [bgp_summary        |-> {"not_json", "no_peer", "established", "other_state"},
   interface_state    |-> {"not_json", "not_indexable", "no_operstate", "down", "up"},
   peer_reachability  |-> {"any"},
   firewall_policy    |-> {"no_rule", "deny_179"},
   peer_configuration |-> RunningConfigs,
   route_presence     |-> {"canonical_prefix", "no_prefix"},
   export_policy      |-> RunningConfigs]

ReturnCodes(step) == IF step = "peer_reachability" THEN {0, 1, 127} ELSE {0, 127}

BgpResults(step) ==
  [returncode : ReturnCodes(step), stdout : Stdouts[step], latency_ms : Latencies]

-----------------------------------------------------------------------------
(* BGPEvidenceEvaluator.  Each evaluator returns an outcome and, when it   *)
(* proves a fault, a diagnosis.                                            *)

Says(outcome) == [outcome |-> outcome, diagnosis |-> NoFault]
Proves(outcome, diagnosis) == [outcome |-> outcome, diagnosis |-> diagnosis]

Summary(r) ==
  IF r.returncode # 0 \/ r.stdout \in {"not_json", "no_peer"}
    THEN Says("unavailable")
    ELSE IF r.stdout = "established" THEN Says("established")
                                     ELSE Says("not_established")

\* json.loads is tried, whatever the return code, and only JSONDecodeError,
\* KeyError and TypeError are caught: IndexError ("[]") and AttributeError
\* (a scalar has no get) leave the evaluator.
InterfaceEvaluates(r) == r.stdout # "not_indexable"

Interface(r) ==
  IF r.returncode # 0 \/ r.stdout \in {"not_json", "no_operstate"}
    THEN Says("unavailable")
    ELSE IF r.stdout = "down" THEN Proves("down", "interface_down")
                              ELSE Says("up")

\* Any failure of ping, a command that could not be run included, is
\* "unreachable".
Reachability(r) ==
  IF r.returncode = 0 THEN Says("reachable")
                      ELSE Proves("unreachable", "peer_unreachable")

Firewall(r) ==
  IF r.returncode # 0 THEN Says("unavailable")
  ELSE IF r.stdout = "deny_179" THEN Proves("blocked", "tcp_179_blocked")
                                ELSE Says("clear")

\* Mutant: the shutdown line of the neighbor is not looked for.
PeerConfigNoShutdown(r) ==
  IF r.returncode # 0 \/ r.stdout.remote_as = "none" THEN Says("unavailable")
  ELSE IF r.stdout.remote_as = "other" THEN Proves("asn_mismatch", "asn_mismatch")
                                       ELSE Says("matched")

PeerConfig(r) ==
  IF r.returncode # 0 THEN Says("unavailable")
  ELSE IF r.stdout.shutdown THEN Proves("shutdown", "neighbor_shutdown")
  ELSE IF r.stdout.remote_as = "none" THEN Says("unavailable")
  ELSE IF r.stdout.remote_as = "other" THEN Proves("asn_mismatch", "asn_mismatch")
                                       ELSE Says("matched")

\* Mutant: a table that could not be read is taken for one with the route.
RoutePresenceFailsOpen(i, r) ==
  IF r.returncode # 0 \/ (r.stdout = "canonical_prefix" /\ i \in CanonicalIncidents)
    THEN Says("present")
    ELSE Says("missing")

\* The adapter asks FRR for the normalised prefix and the evaluator looks for
\* the incident's own spelling of it, so a prefix spelled with host bits
\* or a netmask is never found.
RoutePresence(i, r) ==
  IF r.returncode # 0 THEN Says("unavailable")
  ELSE IF r.stdout = "canonical_prefix" /\ i \in CanonicalIncidents
    THEN Says("present")
    ELSE Says("missing")

\* The only evaluator that never looks at the return code.
ExportPolicy(r) ==
  IF r.stdout.route_map = "deny" THEN Proves("filtering", "route_map_filter")
                                 ELSE Says("clear")

BgpEvaluates(i, step, r) == step = "interface_state" => InterfaceEvaluates(r)

BgpEvaluate(i, step, r) ==
  CASE step = "bgp_summary"        -> Summary(r)
    [] step = "interface_state"    -> Interface(r)
    [] step = "peer_reachability"  -> Reachability(r)
    [] step = "firewall_policy"    -> Firewall(r)
    [] step = "peer_configuration" -> PeerConfig(r)
    [] step = "route_presence"     -> RoutePresence(i, r)
    [] step = "export_policy"      -> ExportPolicy(r)
=============================================================================
