-------------------------------- MODULE MCLab --------------------------------
(***************************************************************************)
(* Investigations of the lab, with up to two scenario changes at any       *)
(* moment and any command but ping failing.                                *)
(***************************************************************************)
EXTENDS LabInvestigation

MCIncidents == {"inc1", "inc2"}
MCCanonicalIncidents == {"inc1"}
MCPolicies == {"fixed", "experience"}
MCExperiences == {EmptyExperience}
MCLatencies == {20}
MCFailingSteps == BgpActionSteps \ {"peer_reachability"}

ASSUME MCQuick == ShippedQuick

-----------------------------------------------------------------------------
(* Statements of the documentation that the code does not meet.            *)

\* "This lab provides three FRR routers and four controlled fault scenarios"
\* (lab/bgp/README.md), of which SCENARIOS of bgp_demo.py says what each run
\* is to find: on a network that stays as it is, with commands that work, a
\* scenario that is applied is reported.
ScenarioIsFound ==
  (pc = "returned" /\ ~failed /\ Cardinality(seen) = 1 /\ network # {})
    => diagnosis \in network
==============================================================================
