------------------------------ MODULE MCLearned ------------------------------
(***************************************************************************)
(* Histories that earlier investigations have left in the experience       *)
(* graph: the same kind of incident was investigated some times before, or *)
(* two kinds.                                                              *)
(***************************************************************************)
EXTENDS BGPEngine, SequencesExt

Did(step, outcome, proved, latency) ==
  [step |-> step, outcome |-> outcome, diagnosis |-> proved, latency_ms |-> latency]

ToReachable ==
  <<Did("bgp_summary", "not_established", NoDiagnosis, 20),
    Did("interface_state", "up", NoDiagnosis, 20),
    Did("peer_reachability", "reachable", NoDiagnosis, 1000)>>

\* Ways an incident with a reachable peer ends under the shipped procedure,
\* for given latencies of the firewall and configuration commands.
AsnBehindFirewall(f, c) == ToReachable \o
  <<Did("firewall_policy", "clear", NoDiagnosis, f),
    Did("peer_configuration", "asn_mismatch", "asn_mismatch", c)>>

Blocked(f, c) == ToReachable \o
  <<Did("firewall_policy", "blocked", "tcp_179_blocked", f)>>

Unresolved(f, c) == ToReachable \o
  <<Did("firewall_policy", "unavailable", NoDiagnosis, f),
    Did("peer_configuration", "matched", NoDiagnosis, c)>>

\* Pasts of m runs of one of these ways, then n of another or the same.
Ways(latencies) ==
  UNION {{AsnBehindFirewall(f, c), Blocked(f, c), Unresolved(f, c)} :
           f \in latencies, c \in latencies}

Pasts(latencies, m, n) ==
  {[k \in 1..m + n |-> IF k <= m THEN first ELSE second] :
     first \in Ways(latencies), second \in Ways(latencies)}

\* 6400 ms is just under the latency at which a useless step loses to an
\* escalation: 0.80 - 0.05 - 0.0001 * latency = 0.10 at 6500 ms.
MCPastRuns ==
  (UNION {Pasts({20, 6400}, n, 0) : n \in {1, 4, 5, 6}}) \cup Pasts({20, 6400}, 3, 2)

\* Commands that take as long as the adapter's timeout lets them.
MCSlowPastRuns == Pasts({15000}, 3, 0)

\* The history that run() would have recorded on its way.
PastIncident == "past"
After(history, run) ==
  FoldLeft(LAMBDA g, n : Recorded(g, PastIncident, SubSeq(run, 1, n)),
           history, [n \in 1..Len(run) |-> n])

HistoryOf(runsBefore) == FoldLeft(After, EmptyExperience, runsBefore)

MCTaught == {HistoryOf(runsBefore) : runsBefore \in MCPastRuns}
MCSlowlyTaught == {HistoryOf(runsBefore) : runsBefore \in MCSlowPastRuns}

\* The first kind is of the histories that the proofs speak of.
ASSUME PastIsQuick == \A g \in MCTaught : QuickHistory(g, 6499, 1)
=============================================================================
