------------------------------- MODULE MCBgp -------------------------------
(***************************************************************************)
(* The engine over the shipped BGP procedure: two investigations from an   *)
(* empty history, or one with the history of earlier ones.                 *)
(***************************************************************************)
EXTENDS MCLearned, EngineRefinement

\* inc2 spells its expected prefix otherwise than FRR prints it.
MCIncidents == {"inc1", "inc2"}
MCCanonicalIncidents == {"inc1"}
MCPolicies == {"fixed", "experience"}
MCEmpty == {EmptyExperience}
MCExperiences == MCEmpty \cup MCTaught
MCLatencies == {20}

\* Bound: after a past there is one run, by the navigator that learns.
AfterPast == IncidentId(PastIncident) \in DOMAIN experience.vertices

BoundedNext ==
  /\ Next
  /\ (runs' # runs /\ AfterPast) =>
       runs = 0 /\ policy' = "experience" /\ incident' = "inc1"

BoundedSpec == Init /\ [][BoundedNext]_vars

\* Every tool of the procedure is one that the adapter accepts, with the
\* parameter its command is built from.
ASSUME \A s \in BgpActionSteps :
  /\ BgpTool[s] \in AllowListed
  /\ BgpParameter(BgpTool[s]) = RequiredParameter[BgpTool[s]]

-----------------------------------------------------------------------------
(* Statements of the documentation that the code does not meet.            *)

\* "Fail closed when a parser, tool, validator, or evidence source is
\* unavailable" (CONTRIBUTING.md), as test_failed_firewall_collection_does_not_
\* become_clear_evidence states it for the firewall: of a command that could
\* not be run the evaluator says no more than that.
FailsClosed ==
  (pc = "loop" /\ executed # << >> /\ result.returncode = 127)
    => LastStep.outcome = "unavailable"
============================================================================
