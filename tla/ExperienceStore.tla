--------------------------- MODULE ExperienceStore ---------------------------
(***************************************************************************)
(* The file experience_graph.json between calls of live_run                *)
(* (src/src/dreamnet/bgp_demo.py): each process loads it, runs one         *)
(* investigation on the graph in memory, writes the whole graph back and   *)
(* then writes its report run-<incident>.json.  There is no lock, and the  *)
(* file is written in place (Path.write_text truncates, then writes).      *)
(*                                                                         *)
(* The investigation itself is ProcedureEngine's subject; here it is a few *)
(* calls of record_execution, and what matters is what survives of them.   *)
(***************************************************************************)
EXTENDS ExperienceGraph, Sequences

CONSTANTS
  Processes, Incidents, StepNames,
  Absent,        \* no file yet
  Torn,          \* bytes that are not the whole of one graph
  MaxSteps,      \* bound on the executions of one run
  MaxRuns        \* bound on the calls of live_run

ASSUME StoreAssumption ==
  /\ MaxSteps \in Nat \ {0}
  /\ MaxRuns \in Nat

VARIABLES
  pc,         \* [Processes -> "off", "running", "saving", "saved"]
  incident,
  memory,     \* the ExperienceGraph object of each process
  mine,       \* ids of the executions of the current run of each process
  clash,      \* processes whose save overlapped another one
  file,       \* Absent, Torn or a graph
  reports,    \* [Incidents -> executions listed by run-<incident>.json]
  saved,      \* history: every <<id, entity>> of an execution a save completed
  performed,  \* history: number of tool calls made
  overlapped, \* history: did one live_run begin while another was under way?
  died,       \* history: did a process end before its report was written?
  runs

processVars == <<pc, incident, memory, mine, clash>>
past == <<overlapped, died>>
vars == <<processVars, file, reports, saved, performed, overlapped, died, runs>>

Whole == file \notin {Absent, Torn}
Off(p) == pc[p] = "off"

-----------------------------------------------------------------------------
Init ==
  /\ pc = [p \in Processes |-> "off"]
  /\ incident \in [Processes -> Incidents]
  /\ memory = [p \in Processes |-> EmptyExperience]
  /\ mine = [p \in Processes |-> {}]
  /\ clash = {}
  /\ file = Absent
  /\ reports = [i \in Incidents |-> {}]
  /\ saved = {}
  /\ performed = 0
  /\ overlapped = FALSE
  /\ died = FALSE
  /\ runs = 0

MayStart(p) ==
  /\ Off(p)
  /\ runs < MaxRuns
  /\ overlapped' = (overlapped \/ \E q \in Processes : ~Off(q))

\* Mutant: a file that does not parse counts as no file.
LoadLenient(p, i) ==
  /\ MayStart(p)
  /\ memory' = [memory EXCEPT ![p] = IF Whole THEN file ELSE EmptyExperience]
  /\ incident' = [incident EXCEPT ![p] = i]
  /\ mine' = [mine EXCEPT ![p] = {}]
  /\ pc' = [pc EXCEPT ![p] = "running"]
  /\ runs' = runs + 1
  /\ UNCHANGED <<clash, file, reports, saved, performed, died>>

\* ExperienceGraph.load: an empty graph without a file, else the file's.
Load(p, i) ==
  /\ MayStart(p)
  /\ file # Torn
  /\ memory' = [memory EXCEPT ![p] = IF Whole THEN file ELSE EmptyExperience]
  /\ incident' = [incident EXCEPT ![p] = i]
  /\ mine' = [mine EXCEPT ![p] = {}]
  /\ pc' = [pc EXCEPT ![p] = "running"]
  /\ runs' = runs + 1
  /\ UNCHANGED <<clash, file, reports, saved, performed, died>>

\* json.loads raises and the process ends without touching anything.
LoadRaises(p) ==
  /\ MayStart(p)
  /\ file = Torn
  /\ runs' = runs + 1
  /\ UNCHANGED <<processVars, file, reports, saved, performed, died>>

ExecutionBy(p, step) ==
  [incident |-> incident[p], version |-> "v", step |-> step, device |-> "r1",
   tool |-> "show", context |-> <<>>, outcome |-> "o", latency_ms |-> 0,
   cost |-> 1, diagnosis |-> NoDiagnosis]

\* One pass of the engine's loop: a command on a device, recorded in memory.
Execute(p, step) ==
  /\ pc[p] = "running"
  /\ Cardinality(mine[p]) < MaxSteps
  /\ memory' = [memory EXCEPT ![p] = RecordExecution(@, ExecutionBy(p, step))]
  /\ mine' = [mine EXCEPT ![p] =
                @ \cup {ExecutionId(incident[p], NextSequence(memory[p]))}]
  /\ performed' = performed + 1
  /\ UNCHANGED <<pc, incident, clash, file, reports, saved, past, runs>>

\* save, first half: the file is opened for writing and truncated.
BeginSave(p) ==
  LET others == {q \in Processes \ {p} : pc[q] = "saving"}
  IN  /\ pc[p] = "running"
      /\ mine[p] # {}
      /\ pc' = [pc EXCEPT ![p] = "saving"]
      /\ file' = Torn
      /\ clash' = IF others = {} THEN clash ELSE clash \cup others \cup {p}
      /\ UNCHANGED <<incident, memory, mine, reports, saved, performed, past, runs>>

\* The executions of a graph with their content.
Content(g) == {<<id, g.vertices[id]>> : id \in Executions(g)}

\* Mutant: only the executions of this run are written.
EndSaveRunOnly(p) ==
  /\ pc[p] = "saving"
  /\ pc' = [pc EXCEPT ![p] = "saved"]
  /\ file' = [memory[p] EXCEPT
                !.vertices = [id \in mine[p] |-> memory[p].vertices[id]],
                !.edges = {}]
  /\ clash' = clash \ {p}
  /\ saved' = saved \cup Content(file')
  /\ UNCHANGED <<incident, memory, mine, reports, performed, past, runs>>

\* save, second half: the bytes are written and the file closed.  Two saves
\* that overlap write through two descriptors from offset 0, so that the tail
\* of the longer text may remain behind the shorter one.
EndSave(p) ==
  /\ pc[p] = "saving"
  /\ pc' = [pc EXCEPT ![p] = "saved"]
  /\ \/ file' = memory[p]
     \/ p \in clash /\ file' = Torn
  /\ clash' = clash \ {p}
  /\ saved' = IF file' = Torn THEN saved ELSE saved \cup Content(file')
  /\ UNCHANGED <<incident, memory, mine, reports, performed, past, runs>>

\* Mutant: the report is written before the graph is saved.
WriteReportEarly(p) ==
  /\ pc[p] \in {"running", "saved"}
  /\ mine[p] # {}
  /\ pc' = IF pc[p] = "saved" THEN [pc EXCEPT ![p] = "off"] ELSE pc
  /\ reports' = [reports EXCEPT ![incident[p]] = mine[p]]
  /\ UNCHANGED <<incident, memory, mine, clash, file, saved, performed, past, runs>>

\* Mutant: the report lists the whole graph instead of this run.
WriteReportOfAll(p) ==
  /\ pc[p] = "saved"
  /\ pc' = [pc EXCEPT ![p] = "off"]
  /\ reports' = [reports EXCEPT ![incident[p]] = Executions(memory[p])]
  /\ UNCHANGED <<incident, memory, mine, clash, file, saved, performed, past, runs>>

\* The other two graphs (constants of the program) and the report.
WriteReport(p) ==
  /\ pc[p] = "saved"
  /\ pc' = [pc EXCEPT ![p] = "off"]
  /\ reports' = [reports EXCEPT ![incident[p]] = mine[p]]
  /\ UNCHANGED <<incident, memory, mine, clash, file, saved, performed, past, runs>>

\* An exception of engine.run (a timeout, an unreadable tool answer) or a
\* kill, at any point; what is in memory is gone.
Dies(p) ==
  /\ ~Off(p)
  /\ died' = TRUE
  /\ pc' = [pc EXCEPT ![p] = "off"]
  /\ clash' = clash \ {p}
  /\ UNCHANGED <<incident, memory, mine, file, reports, saved, performed,
                 overlapped, runs>>

Next ==
  \E p \in Processes :
    \/ \E i \in Incidents : Load(p, i)
    \/ LoadRaises(p)
    \/ \E step \in StepNames : Execute(p, step)
    \/ BeginSave(p)
    \/ EndSave(p)
    \/ WriteReport(p)
    \/ Dies(p)

Spec == Init /\ [][Next]_vars

-----------------------------------------------------------------------------
\* Types; what is in the file, when it is whole, is a graph.
TypeOK ==
  /\ pc \in [Processes -> {"off", "running", "saving", "saved"}]
  /\ incident \in [Processes -> Incidents]
  /\ clash \subseteq {p \in Processes : pc[p] = "saving"}
  /\ Whole => file.sequence \in 0..(MaxRuns * MaxSteps)
  /\ \A i \in Incidents : Cardinality(reports[i]) <= MaxSteps
  /\ performed \in 0..(MaxRuns * MaxSteps)
  /\ runs \in 0..MaxRuns

\* Whatever the interleaving of loads, saves and deaths, a graph that can be
\* loaded is one consistent history, never a mixture of two: ids are fresh,
\* edges join vertices, and every execution has its one incident and evidence.
LoadedHistoryIsSound ==
  \A g \in {memory[p] : p \in Processes} \cup (IF Whole THEN {file} ELSE {}) :
    EdgesJoinVertices(g) /\ SequenceIsFresh(g) /\ Provenance(g)

\* An execution that a completed save wrote is in every later whole file, with
\* the content it had (docs/graph-model.md: "It is append-oriented"), whoever
\* died in between, as long as no two runs overlapped.
SavedIsKept ==
  (Whole /\ ~overlapped) => saved \subseteq Content(file)

\* A report on disk is backed by the graph on disk: the graph is saved first,
\* so a reader who joins run-<incident>.json with the experience graph finds
\* every execution the report lists, also after a crash between the two.
ReportsAreBacked ==
  (Whole /\ ~overlapped) =>
    \A i \in Incidents : reports[i] \subseteq Executions(file)

\* Every command that was run on a device is in the graph once no process is
\* under way, when every run came to its end and none overlapped another.
AllExecutedIsRecorded ==
  (~overlapped /\ ~died /\ \A p \in Processes : Off(p)) =>
    performed = IF Whole THEN Cardinality(Executions(file)) ELSE 0

\* A damaged file is evidence that history was lost: with no run under way that
\* loaded it before, no later run ever writes a new history over it.
Damaged == file = Torn /\ \A p \in Processes : Off(p)
DamageIsNotErased == [](Damaged => [](file = Torn))

-----------------------------------------------------------------------------
(* Statements of the documentation that the code does not meet.            *)

\* "It is append-oriented" (docs/graph-model.md) and "An Experience Graph
\* records each action" (README.md): what was saved is never lost, whether or
\* not two runs overlapped.
SavedIsNeverLost == Whole => saved \subseteq Content(file)

\* "An Experience Graph records each action" (README.md): the commands of a
\* run that ends by an exception are recorded as well.
EachActionIsRecorded ==
  (~overlapped /\ \A p \in Processes : Off(p)) =>
    performed = IF Whole THEN Cardinality(Executions(file)) ELSE 0
=============================================================================
