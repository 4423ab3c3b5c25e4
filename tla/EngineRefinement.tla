--------------------------- MODULE EngineRefinement ---------------------------
(***************************************************************************)
(* The engine implements Investigation: the executed steps are the         *)
(* evidence, and run() is open from its call until it returns or raises.   *)
(***************************************************************************)
EXTENDS ProcedureEngine

Silent == {"escalate", "no_fault_detected"}

\* What an executed step contributes: its diagnostic and the fault it proved.
Evidence == [n \in 1..Len(executed) |->
               [step |-> executed[n].step, proves |-> executed[n].diagnosis]]

Promise == INSTANCE Investigation WITH
  Diagnostics <- ActionSteps,
  Faults      <- Diagnoses \ Silent,
  NoClaims    <- Silent,
  Nothing     <- NoDiagnosis,
  phase       <- IF pc \in {"loop", "calling", "answered"} THEN "open" ELSE "closed",
  evidence    <- Evidence,
  verdict     <- diagnosis

\* Every behaviour of the engine is one of Investigation: one diagnostic at a
\* time and none twice, a fault only on a proof collected in the same run, a
\* proof in hand always reported.
ImplementsInvestigation == Promise!Spec
=============================================================================
