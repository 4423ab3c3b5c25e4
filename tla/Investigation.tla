---------------------------- MODULE Investigation ----------------------------
(***************************************************************************)
(* What an investigation promises, whatever procedure, evaluator and       *)
(* navigator are behind it (README.md: DreamNet "cannot invent an          *)
(* unapproved command or transition.  When evidence is insufficient, the   *)
(* graph ends in escalation rather than manufacturing a diagnosis").       *)
(*                                                                         *)
(* Evidence is collected one diagnostic at a time, none twice; a fault is  *)
(* reported only on evidence of this investigation that proves it; what    *)
(* was reported stays until another investigation is opened.               *)
(***************************************************************************)
EXTENDS Sequences, Functions

CONSTANTS
  Diagnostics,   \* steps that collect evidence
  Faults,        \* diagnoses that need a proof
  NoClaims,      \* verdicts that claim no fault
  Nothing        \* no verdict, and what inconclusive evidence proves

VARIABLES
  phase,      \* "closed", "open"
  evidence,   \* sequence of the pieces collected
  verdict

vars == <<phase, evidence, verdict>>

Pieces == [step : Diagnostics, proves : Faults \cup {Nothing}]

Proved == {e.proves : e \in Range(evidence)} \ {Nothing}
Used == {e.step : e \in Range(evidence)}

Init ==
  /\ phase = "closed"
  /\ evidence = << >>
  /\ verdict = Nothing

Open ==
  /\ phase = "closed"
  /\ phase' = "open"
  /\ evidence' = << >>
  /\ verdict' = Nothing

Collect(e) ==
  /\ phase = "open"
  /\ e.step \notin Used
  /\ evidence' = Append(evidence, e)
  /\ UNCHANGED <<phase, verdict>>

\* The last piece of evidence may settle the matter by itself.
CollectAndConclude(e) ==
  /\ phase = "open"
  /\ e.step \notin Used
  /\ evidence' = Append(evidence, e)
  /\ verdict' = e.proves
  /\ phase' = "closed"

\* A proved fault is what is reported; without one, no fault is.
Conclude(v) ==
  /\ phase = "open"
  /\ IF Proved = {} THEN v \in NoClaims ELSE v \in Proved
  /\ phase' = "closed"
  /\ verdict' = v
  /\ UNCHANGED evidence

\* Cut short (exception, step limit): nothing is reported.
Abandon ==
  /\ phase = "open"
  /\ phase' = "closed"
  /\ UNCHANGED <<evidence, verdict>>

Next ==
  \/ Open
  \/ \E e \in Pieces : Collect(e) \/ CollectAndConclude(e)
  \/ \E v \in Faults \cup NoClaims : Conclude(v)
  \/ Abandon

Spec == Init /\ [][Next]_vars
=============================================================================
