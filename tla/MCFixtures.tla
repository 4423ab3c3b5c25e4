------------------------------ MODULE MCFixtures ------------------------------
(***************************************************************************)
(* The suite over the repository's fixtures, complete or without one or    *)
(* two of the files.                                                       *)
(***************************************************************************)
EXTENDS FixtureSuite

MCFiles ==
  UNION {{<<SCENARIOS[s], f.device, f.tool>> : f \in Fixtures[SCENARIOS[s]]} :
           s \in DOMAIN SCENARIOS}
MCRemovals == {{a, b} : a, b \in MCFiles} \cup {{}}

MCIncidents == {<<Phases[p], SCENARIOS[s]>> : p \in DOMAIN Phases, s \in DOMAIN SCENARIOS}
MCPolicies == {"fixed", "experience"}
MCExperiences == {EmptyExperience}
MCLatencies == {f.result.latency_ms : f \in UNION {Fixtures[SCENARIOS[s]] : s \in DOMAIN SCENARIOS}}
===============================================================================
