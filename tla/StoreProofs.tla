------------------------------ MODULE StoreProofs ------------------------------
(***************************************************************************)
(* What survives of experience_graph.json, for any number of processes,    *)
(* calls of live_run and executions, whoever dies at whatever point.       *)
(***************************************************************************)
EXTENDS ExperienceStore, ExperienceGraphProofs

-----------------------------------------------------------------------------
(* Every graph at hand is sound.                                           *)

Sound(g) == WellFormed(g) /\ EdgesJoinVertices(g) /\ Provenance(g)

\* The functions of the processes are functions of the processes.
Domains ==
  /\ DOMAIN pc = Processes /\ DOMAIN incident = Processes
  /\ DOMAIN memory = Processes /\ DOMAIN mine = Processes
  /\ DOMAIN reports = Incidents

GraphsAreSound ==
  /\ Domains
  /\ \A p \in Processes : Sound(memory[p])
  /\ Whole => Sound(file)

LEMMA ExecutionKeepsSound ==
  ASSUME NEW g, NEW x, Sound(g)
  PROVE  Sound(RecordExecution(g, x))
BY RecordExtends, RecordKeepsProvenance DEF Sound

LEMMA SoundThroughout == Spec => []GraphsAreSound
<1>1. Init => GraphsAreSound
  <2> SUFFICES ASSUME Init PROVE GraphsAreSound
    OBVIOUS
  <2>1. Sound(EmptyExperience)
    BY EmptyIsSound DEF Sound
  <2> QED
    BY <2>1 DEF Init, GraphsAreSound, Domains, Whole
<1>2. GraphsAreSound /\ [Next]_vars => GraphsAreSound'
  <2> SUFFICES ASSUME GraphsAreSound, [Next]_vars PROVE GraphsAreSound'
    OBVIOUS
  <2> USE DEF GraphsAreSound, Domains, Whole
  <2>1. ASSUME NEW p \in Processes, NEW i \in Incidents, Load(p, i)
        PROVE  GraphsAreSound'
    <3>1. Sound(IF Whole THEN file ELSE EmptyExperience)
      BY EmptyIsSound DEF Sound
    <3> QED
      BY <2>1, <3>1 DEF Load
  <2>2. ASSUME NEW p \in Processes, NEW step \in StepNames, Execute(p, step)
        PROVE  GraphsAreSound'
    <3>1. Sound(RecordExecution(memory[p], ExecutionBy(p, step)))
      BY ExecutionKeepsSound
    <3> QED
      BY <2>2, <3>1 DEF Execute
  <2>3. ASSUME NEW p \in Processes,
               \/ LoadRaises(p) \/ BeginSave(p) \/ WriteReport(p) \/ Dies(p)
        PROVE  GraphsAreSound'
    BY <2>3 DEF LoadRaises, BeginSave, WriteReport, Dies, processVars
  <2>4. ASSUME NEW p \in Processes, EndSave(p) PROVE GraphsAreSound'
    BY <2>4 DEF EndSave
  <2>5. CASE UNCHANGED vars
    BY <2>5 DEF vars, processVars
  <2> QED
    BY <2>1, <2>2, <2>3, <2>4, <2>5 DEF Next
<1> QED
  BY <1>1, <1>2, PTL DEF Spec

\* Whatever the interleaving of loads, saves and deaths of any number of
\* processes, overlapping or not, a graph that can be loaded is one
\* consistent history, never a mixture of two.
THEOREM LoadedIsSound == Spec => []LoadedHistoryIsSound
<1>1. GraphsAreSound => LoadedHistoryIsSound
  BY DEF GraphsAreSound, LoadedHistoryIsSound, Sound, WellFormed
<1> QED
  BY <1>1, SoundThroughout, PTL

-----------------------------------------------------------------------------
(* What one save wrote is in every later one.                              *)

\* Absent and Torn are two things that are no graph.
NoGraphs ==
  /\ Absent # Torn
  /\ \A V, E, n : [vertices |-> V, edges |-> E, sequence |-> n] \notin {Absent, Torn}

Writing(p) == pc[p] \in {"running", "saving"}

\* With one process at a time, what is saved and reported is in the file when
\* there is one, and in the graph that is about to replace it.
OneAtATime ==
  /\ \A p, q \in Processes : (~Off(p) /\ ~Off(q)) => p = q
  /\ clash = {}
  /\ Whole => saved \subseteq Content(file)
  /\ file = Absent => saved = {}
  /\ \A p \in Processes : Writing(p) => saved \subseteq Content(memory[p])
  /\ \A i \in Incidents :
       /\ Whole => reports[i] \subseteq Executions(file)
       /\ file = Absent => reports[i] = {}
       /\ \A p \in Processes : Writing(p) => reports[i] \subseteq Executions(memory[p])
  /\ \A p \in Processes :
       /\ Writing(p) => mine[p] \subseteq Executions(memory[p])
       /\ pc[p] = "saved" => /\ file # Absent
                             /\ Whole => mine[p] \subseteq Executions(file)

StoreInv ==
  /\ overlapped \in BOOLEAN
  /\ \A p \in Processes : memory[p] \notin {Absent, Torn}
  /\ ~overlapped => OneAtATime

\* Recording keeps the executions and their content.
LEMMA ContentGrows ==
  ASSUME NEW g, NEW x, WellFormed(g)
  PROVE  LET h == RecordExecution(g, x)
         IN  /\ Content(g) \subseteq Content(h)
             /\ Executions(g) \subseteq Executions(h)
             /\ ExecutionId(x.incident, NextSequence(g)) \in Executions(h)
<1> DEFINE h == RecordExecution(g, x)
<1>1. /\ Extends(h, g)
      /\ Executions(h) = Executions(g) \cup {ExecutionId(x.incident, NextSequence(g))}
  BY RecordExtends
<1> HIDE DEF h
<1>2. \A id \in Executions(g) : id \in Executions(h) /\ h.vertices[id] = g.vertices[id]
  BY <1>1 DEF Extends, Executions
<1>3. Content(g) \subseteq Content(h)
  BY <1>2 DEF Content
<1> QED
  BY <1>1, <1>3 DEF h

LEMMA StoreKeeps ==
  ASSUME NoGraphs
  PROVE  Spec => []StoreInv
<1>0. /\ EmptyExperience \notin {Absent, Torn}
      /\ \A g, x : RecordExecution(g, x) \notin {Absent, Torn}
  BY DEF NoGraphs, EmptyExperience, RecordExecution
<1>1. Init => StoreInv
  BY <1>0 DEF Init, StoreInv, OneAtATime, Off, Writing, Whole
<1>2. GraphsAreSound /\ StoreInv /\ [Next]_vars => StoreInv'
  <2> SUFFICES ASSUME GraphsAreSound, StoreInv, [Next]_vars PROVE StoreInv'
    OBVIOUS
  <2>0. Domains /\ \A p \in Processes : WellFormed(memory[p])
    BY DEF GraphsAreSound, Sound
  <2> USE <2>0 DEF Domains
  <2>1. ASSUME NEW p \in Processes, NEW i \in Incidents, Load(p, i)
        PROVE  StoreInv'
    <3>1. /\ memory' = [memory EXCEPT ![p] = IF Whole THEN file ELSE EmptyExperience]
          /\ mine' = [mine EXCEPT ![p] = {}] /\ pc' = [pc EXCEPT ![p] = "running"]
          /\ file # Torn /\ Off(p)
          /\ overlapped' = (overlapped \/ \E q \in Processes : ~Off(q))
          /\ UNCHANGED <<clash, file, reports, saved>>
      BY <2>1 DEF Load, MayStart
    <3>2. \A q \in Processes : memory'[q] \notin {Absent, Torn}
      BY <1>0, <3>1 DEF StoreInv, Whole
    <3>3. overlapped' \in BOOLEAN
      BY <3>1 DEF StoreInv
    <3>4. ASSUME ~overlapped' PROVE OneAtATime'
      <4>1. OneAtATime /\ \A q \in Processes : Off(q)
        BY <3>1, <3>4 DEF StoreInv
      <4>2. \A q \in Processes : q # p => pc'[q] = "off"
        BY <3>1, <4>1 DEF Off
      <4>3. \A q \in Processes : Off(q)' <=> q # p
        BY <3>1, <4>2 DEF Off
      <4>4. pc'[p] = "running" /\ mine'[p] = {}
            /\ memory'[p] = IF Whole THEN file ELSE EmptyExperience
        BY <3>1
      <4>5. /\ saved \subseteq Content(memory'[p])
            /\ \A j \in Incidents : reports[j] \subseteq Executions(memory'[p])
        BY <3>1, <4>1, <4>4 DEF OneAtATime, Whole
      <4> QED
        BY <3>1, <4>1, <4>2, <4>3, <4>4, <4>5 DEF OneAtATime, Writing, Whole
    <3> QED
      BY <3>2, <3>3, <3>4 DEF StoreInv
  <2>2. ASSUME NEW p \in Processes, NEW step \in StepNames, Execute(p, step)
        PROVE  StoreInv'
    <3> DEFINE x == ExecutionBy(p, step)
               h == RecordExecution(memory[p], x)
    <3>1. /\ pc[p] = "running"
          /\ memory' = [memory EXCEPT ![p] = h]
          /\ mine' = [mine EXCEPT ![p] =
                        @ \cup {ExecutionId(incident[p], NextSequence(memory[p]))}]
          /\ UNCHANGED <<pc, clash, file, reports, saved, overlapped>>
      BY <2>2 DEF Execute, past
    <3>2. x.incident = incident[p]
      BY DEF ExecutionBy
    <3>3. /\ Content(memory[p]) \subseteq Content(h)
          /\ Executions(memory[p]) \subseteq Executions(h)
          /\ ExecutionId(incident[p], NextSequence(memory[p])) \in Executions(h)
      BY <3>2, ContentGrows
    <3>4. h \notin {Absent, Torn}
      BY <1>0
    <3> HIDE DEF x, h
    <3>5. ASSUME ~overlapped' PROVE OneAtATime'
      <4>1. OneAtATime
        BY <3>1, <3>5 DEF StoreInv
      <4>2. /\ memory'[p] = h
            /\ mine'[p] = mine[p] \cup {ExecutionId(incident[p], NextSequence(memory[p]))}
            /\ \A q \in Processes : q # p => memory'[q] = memory[q] /\ mine'[q] = mine[q]
        BY <3>1
      <4> QED
        BY <3>1, <3>3, <4>1, <4>2 DEF OneAtATime, Writing, Whole, Off
    <3> QED
      BY <3>1, <3>4, <3>5 DEF StoreInv
  <2>3. ASSUME NEW p \in Processes, BeginSave(p) PROVE StoreInv'
    <3>1. /\ pc[p] = "running" /\ pc' = [pc EXCEPT ![p] = "saving"] /\ file' = Torn
          /\ clash' = IF {q \in Processes \ {p} : pc[q] = "saving"} = {} THEN clash
                      ELSE clash \cup {q \in Processes \ {p} : pc[q] = "saving"} \cup {p}
          /\ UNCHANGED <<memory, mine, reports, saved, overlapped>>
      BY <2>3 DEF BeginSave, past
    <3>2. ASSUME ~overlapped' PROVE OneAtATime'
      <4>1. OneAtATime
        BY <3>1, <3>2 DEF StoreInv
      <4>2. \A q \in Processes : q # p => pc[q] = "off"
        BY <3>1, <4>1 DEF OneAtATime, Off
      <4>3. clash' = {}
        BY <3>1, <4>1, <4>2 DEF OneAtATime
      <4> QED
        BY <3>1, <4>1, <4>2, <4>3 DEF OneAtATime, Writing, Whole, Off, NoGraphs
    <3> QED
      BY <3>1, <3>2 DEF StoreInv
  <2>4. ASSUME NEW p \in Processes, EndSave(p) PROVE StoreInv'
    <3>1. /\ pc[p] = "saving" /\ pc' = [pc EXCEPT ![p] = "saved"]
          /\ file' = memory[p] \/ (p \in clash /\ file' = Torn)
          /\ clash' = clash \ {p}
          /\ saved' = IF file' = Torn THEN saved ELSE saved \cup Content(file')
          /\ UNCHANGED <<memory, mine, reports, overlapped>>
      BY <2>4 DEF EndSave, past
    <3>2. ASSUME ~overlapped' PROVE OneAtATime'
      <4>1. OneAtATime
        BY <3>1, <3>2 DEF StoreInv
      <4>2. \A q \in Processes : q # p => pc[q] = "off" /\ pc'[q] = "off"
        BY <3>1, <4>1 DEF OneAtATime, Off
      <4>3. clash' = {} /\ file' = memory[p] /\ memory[p] \notin {Absent, Torn}
        BY <3>1, <4>1 DEF OneAtATime, StoreInv
      <4>4. saved' = saved \cup Content(memory[p]) /\ saved \subseteq Content(memory[p])
        BY <3>1, <4>1, <4>3 DEF OneAtATime, Writing
      <4>5. /\ mine[p] \subseteq Executions(memory[p])
            /\ \A i \in Incidents : reports[i] \subseteq Executions(memory[p])
        BY <3>1, <4>1 DEF OneAtATime, Writing
      <4> QED
        BY <3>1, <4>2, <4>3, <4>4, <4>5 DEF OneAtATime, Writing, Whole, Off
    <3> QED
      BY <3>1, <3>2 DEF StoreInv
  <2>5. ASSUME NEW p \in Processes, WriteReport(p) PROVE StoreInv'
    <3>1. /\ pc[p] = "saved" /\ pc' = [pc EXCEPT ![p] = "off"]
          /\ reports' = [reports EXCEPT ![incident[p]] = mine[p]]
          /\ UNCHANGED <<memory, mine, clash, file, saved, overlapped>>
      BY <2>5 DEF WriteReport, past
    <3>2. ASSUME ~overlapped' PROVE OneAtATime'
      <4>1. OneAtATime
        BY <3>1, <3>2 DEF StoreInv
      <4>2. \A q \in Processes : pc'[q] = "off"
        BY <3>1, <4>1 DEF OneAtATime, Off
      <4>3. \A i \in Incidents : reports'[i] = reports[i] \/ reports'[i] = mine[p]
        BY <3>1
      <4> QED
        BY <3>1, <4>1, <4>2, <4>3 DEF OneAtATime, Writing, Whole, Off
    <3> QED
      BY <3>1, <3>2 DEF StoreInv
  <2>6. ASSUME NEW p \in Processes, Dies(p) PROVE StoreInv'
    <3>1. /\ pc' = [pc EXCEPT ![p] = "off"] /\ clash' = clash \ {p}
          /\ UNCHANGED <<memory, mine, file, reports, saved, overlapped>>
      BY <2>6 DEF Dies
    <3>2. \A q \in Processes : pc'[q] = "off" \/ pc'[q] = pc[q]
      BY <3>1
    <3> QED
      BY <3>1, <3>2 DEF StoreInv, OneAtATime, Writing, Whole, Off
  <2>7. ASSUME NEW p \in Processes, LoadRaises(p) PROVE StoreInv'
    <3>1. /\ overlapped' = (overlapped \/ \E q \in Processes : ~Off(q))
          /\ UNCHANGED <<pc, memory, mine, clash, file, reports, saved>>
      BY <2>7 DEF LoadRaises, MayStart, processVars
    <3>2. overlapped' \in BOOLEAN /\ (~overlapped' => ~overlapped)
      BY <3>1 DEF StoreInv
    <3> QED
      BY <3>1, <3>2 DEF StoreInv, OneAtATime, Writing, Whole, Off
  <2>8. CASE UNCHANGED vars
    BY <2>8 DEF vars, processVars, past, StoreInv, OneAtATime, Writing, Whole, Off
  <2> QED
    BY <2>1, <2>2, <2>3, <2>4, <2>5, <2>6, <2>7, <2>8 DEF Next
<1> QED
  BY <1>1, <1>2, SoundThroughout, PTL DEF Spec

\* What a completed save wrote is in every later whole file, unchanged, as long
\* as no two runs overlapped: for any number of processes, calls and deaths.
THEOREM SavedStays ==
  ASSUME NoGraphs
  PROVE  Spec => []SavedIsKept
<1>1. StoreInv => SavedIsKept
  BY DEF StoreInv, OneAtATime, SavedIsKept
<1> QED
  BY <1>1, StoreKeeps, PTL

\* A reader who joins a report with the graph on disk finds every execution
\* that the report lists, also after a death between the two writes.
THEOREM ReportsStayBacked ==
  ASSUME NoGraphs
  PROVE  Spec => []ReportsAreBacked
<1>1. StoreInv => ReportsAreBacked
  BY DEF StoreInv, OneAtATime, ReportsAreBacked
<1> QED
  BY <1>1, StoreKeeps, PTL

-----------------------------------------------------------------------------
(* Every command is recorded.                                              *)

Total(g) == Cardinality(Executions(g))

\* Without overlap and death the commands made so far are those of the graph
\* that the process under way holds or has written.
Counted ==
  /\ \A p \in Processes : IsFiniteSet(Executions(memory[p]))
  /\ Whole => IsFiniteSet(Executions(file))
  /\ died \in BOOLEAN
  /\ (~overlapped /\ ~died) =>
       /\ (\A p \in Processes : Off(p)) =>
            file # Torn /\ performed = IF Whole THEN Total(file) ELSE 0
       /\ \A p \in Processes :
            /\ Writing(p) => performed = Total(memory[p])
            /\ pc[p] = "saved" => Whole /\ performed = Total(file)

LEMMA TotalGrows ==
  ASSUME NEW g, NEW x, WellFormed(g), IsFiniteSet(Executions(g))
  PROVE  /\ IsFiniteSet(Executions(RecordExecution(g, x)))
         /\ Total(RecordExecution(g, x)) = Total(g) + 1
<1> DEFINE h == RecordExecution(g, x)
<1>1. PICK id : id \notin Executions(g) /\ Executions(h) = Executions(g) \cup {id}
  BY RecordExtends
<1> HIDE DEF h
<1>2. IsFiniteSet(Executions(h)) /\ Cardinality(Executions(h)) = Cardinality(Executions(g)) + 1
  BY <1>1, FS_AddElement
<1> QED
  BY <1>2 DEF h, Total

LEMMA CountedThroughout ==
  ASSUME NoGraphs
  PROVE  Spec => []Counted
<1>0. IsFiniteSet(Executions(EmptyExperience)) /\ Total(EmptyExperience) = 0
  BY EmptyIsSound, FS_EmptySet DEF Total
<1>1. Init => Counted
  BY <1>0 DEF Init, Counted, Off, Writing, Whole, NoGraphs
<1>2. GraphsAreSound /\ StoreInv /\ Counted /\ [Next]_vars => Counted'
  <2> SUFFICES ASSUME GraphsAreSound, StoreInv, Counted, [Next]_vars PROVE Counted'
    OBVIOUS
  <2>0. Domains /\ \A p \in Processes : WellFormed(memory[p])
    BY DEF GraphsAreSound, Sound
  <2> USE <2>0 DEF Domains
  <2>1. ASSUME NEW p \in Processes, NEW i \in Incidents, Load(p, i)
        PROVE  Counted'
    <3>1. /\ memory' = [memory EXCEPT ![p] = IF Whole THEN file ELSE EmptyExperience]
          /\ pc' = [pc EXCEPT ![p] = "running"]
          /\ overlapped' = (overlapped \/ \E q \in Processes : ~Off(q))
          /\ UNCHANGED <<file, performed, died>>
      BY <2>1 DEF Load, MayStart
    <3>2. \A q \in Processes : IsFiniteSet(Executions(memory'[q]))
      BY <1>0, <3>1 DEF Counted
    <3>3. ASSUME ~overlapped', ~died'
          PROVE  /\ \A q \in Processes : q # p => pc'[q] = "off"
                 /\ pc'[p] = "running" /\ performed = Total(memory'[p])
      <4>1. ~overlapped /\ ~died /\ \A q \in Processes : Off(q)
        BY <3>1, <3>3 DEF StoreInv
      <4>2. performed = IF Whole THEN Total(file) ELSE 0
        BY <4>1 DEF Counted
      <4> QED
        BY <1>0, <3>1, <4>1, <4>2 DEF Off
    <3> QED
      BY <3>1, <3>2, <3>3 DEF Counted, Whole, Writing, Off
  <2>2. ASSUME NEW p \in Processes, NEW step \in StepNames, Execute(p, step)
        PROVE  Counted'
    <3> DEFINE h == RecordExecution(memory[p], ExecutionBy(p, step))
    <3>1. /\ pc[p] = "running" /\ performed' = performed + 1
          /\ memory' = [memory EXCEPT ![p] = h]
          /\ UNCHANGED <<pc, file, overlapped, died>>
      BY <2>2 DEF Execute, past
    <3>2. IsFiniteSet(Executions(h)) /\ Total(h) = Total(memory[p]) + 1
      BY TotalGrows DEF Counted
    <3> HIDE DEF h
    <3>3. /\ memory'[p] = h
          /\ \A q \in Processes : q # p => memory'[q] = memory[q]
      BY <3>1
    <3>4. ASSUME ~overlapped', ~died'
          PROVE  /\ \A q \in Processes : q # p => Off(q)
                 /\ performed' = Total(memory'[p])
      <4>1. OneAtATime /\ performed = Total(memory[p])
        BY <3>1, <3>4 DEF StoreInv, Counted, Writing
      <4> QED
        BY <3>1, <3>2, <3>3, <4>1 DEF OneAtATime, Off
    <3> QED
      BY <3>1, <3>2, <3>3, <3>4 DEF Counted, Whole, Writing, Off
  <2>3. ASSUME NEW p \in Processes, BeginSave(p) PROVE Counted'
    <3>1. /\ pc[p] = "running" /\ pc' = [pc EXCEPT ![p] = "saving"] /\ file' = Torn
          /\ UNCHANGED <<memory, performed, overlapped, died>>
      BY <2>3 DEF BeginSave, past
    <3>2. ~overlapped => \A q \in Processes : q # p => pc'[q] = "off"
      BY <3>1 DEF StoreInv, OneAtATime, Off
    <3> QED
      BY <3>1, <3>2 DEF Counted, Whole, Writing, Off
  <2>4. ASSUME NEW p \in Processes, EndSave(p) PROVE Counted'
    <3>1. /\ pc[p] = "saving" /\ pc' = [pc EXCEPT ![p] = "saved"]
          /\ file' = memory[p] \/ (p \in clash /\ file' = Torn)
          /\ UNCHANGED <<memory, performed, overlapped, died>>
      BY <2>4 DEF EndSave, past
    <3>2. ASSUME ~overlapped'
          PROVE  /\ \A q \in Processes : q # p => pc'[q] = "off"
                 /\ file' = memory[p] /\ memory[p] \notin {Absent, Torn}
      <4>1. OneAtATime
        BY <3>1, <3>2 DEF StoreInv
      <4> QED
        BY <3>1, <4>1 DEF StoreInv, OneAtATime, Off
    <3>3. Whole' => IsFiniteSet(Executions(file'))
      BY <3>1 DEF Counted, Whole
    <3> QED
      BY <3>1, <3>2, <3>3 DEF Counted, Whole, Writing, Off
  <2>5. ASSUME NEW p \in Processes, WriteReport(p) PROVE Counted'
    <3>1. /\ pc[p] = "saved" /\ pc' = [pc EXCEPT ![p] = "off"]
          /\ UNCHANGED <<memory, file, performed, overlapped, died>>
      BY <2>5 DEF WriteReport, past
    <3>2. ~overlapped => \A q \in Processes : pc'[q] = "off"
      BY <3>1 DEF StoreInv, OneAtATime, Off
    <3> QED
      BY <3>1, <3>2 DEF Counted, Whole, Writing, Off
  <2>6. ASSUME NEW p \in Processes, Dies(p) PROVE Counted'
    BY <2>6 DEF Dies, Counted, Whole
  <2>7. ASSUME NEW p \in Processes, LoadRaises(p) PROVE Counted'
    <3>1. /\ overlapped' = (overlapped \/ \E q \in Processes : ~Off(q))
          /\ UNCHANGED <<pc, memory, file, performed, died>>
      BY <2>7 DEF LoadRaises, MayStart, processVars
    <3>2. ~overlapped' => ~overlapped
      BY <3>1 DEF StoreInv
    <3> QED
      BY <3>1, <3>2 DEF Counted, Whole, Writing, Off
  <2>8. CASE UNCHANGED vars
    BY <2>8 DEF vars, processVars, past, Counted, Whole, Writing, Off
  <2> QED
    BY <2>1, <2>2, <2>3, <2>4, <2>5, <2>6, <2>7, <2>8 DEF Next
<1> QED
  BY <1>1, <1>2, SoundThroughout, StoreKeeps, PTL DEF Spec

\* Every command that was run on a device is in the graph once no process is
\* under way, when every run came to its end and none overlapped another: for
\* any number of runs of any length.
THEOREM NothingGoesUnrecorded ==
  ASSUME NoGraphs
  PROVE  Spec => []AllExecutedIsRecorded
<1>1. Counted => AllExecutedIsRecorded
  BY DEF Counted, AllExecutedIsRecorded, Total
<1> QED
  BY <1>1, CountedThroughout, PTL

\* A damaged file stays damaged for all to see: with no run under way that
\* loaded it before, no later run writes a new history over it, without any
\* condition.
THEOREM DamageStays == Spec => DamageIsNotErased
<1>1. Damaged /\ [Next]_vars => Damaged'
  <2> SUFFICES ASSUME Damaged, [Next]_vars PROVE Damaged'
    OBVIOUS
  <2> USE DEF Damaged, Off
  <2>1. ASSUME NEW p \in Processes, LoadRaises(p) PROVE Damaged'
    BY <2>1 DEF LoadRaises, processVars
  <2>2. ASSUME NEW p \in Processes,
               \/ \E i \in Incidents : Load(p, i)
               \/ \E step \in StepNames : Execute(p, step)
               \/ BeginSave(p) \/ EndSave(p) \/ WriteReport(p) \/ Dies(p)
        PROVE  FALSE
    BY <2>2 DEF Load, Execute, BeginSave, EndSave, WriteReport, Dies
  <2>3. CASE UNCHANGED vars
    BY <2>3 DEF vars, processVars
  <2> QED
    BY <2>1, <2>2, <2>3 DEF Next
<1>2. Damaged => file = Torn
  BY DEF Damaged
<1> QED
  BY <1>1, <1>2, PTL DEF Spec, DamageIsNotErased

-----------------------------------------------------------------------------
(* Types and bounds.                                                       *)

\* The calls that the runs under way may still make.
Open ==
  {c \in Processes \X (1..MaxSteps) :
     pc[c[1]] = "running" /\ c[2] > Cardinality(mine[c[1]])}

\* No graph has more executions than calls were made, and each run makes up to
\* MaxSteps of them.
Bounded ==
  /\ pc \in [Processes -> {"off", "running", "saving", "saved"}]
  /\ incident \in [Processes -> Incidents]
  /\ clash \subseteq {p \in Processes : pc[p] = "saving"}
  /\ runs \in 0..MaxRuns /\ performed \in Nat
  /\ IsFiniteSet(Open) /\ performed + Cardinality(Open) <= runs * MaxSteps
  /\ Whole => file.sequence <= performed
  /\ \A p \in Processes :
       /\ memory[p].sequence <= performed
       /\ IsFiniteSet(mine[p]) /\ Cardinality(mine[p]) <= MaxSteps
       /\ \A id \in mine[p] : id[3] \in 1..memory[p].sequence
  /\ \A i \in Incidents : Cardinality(reports[i]) <= MaxSteps

\* A call less is open after one was made.
LEMMA OneLess ==
  ASSUME NEW S, IsFiniteSet(S), NEW c \in S, NEW T, T \subseteq S \ {c}
  PROVE  IsFiniteSet(T) /\ Cardinality(T) + 1 <= Cardinality(S)
<1>1. IsFiniteSet(S \ {c}) /\ Cardinality(S \ {c}) = Cardinality(S) - 1
  BY FS_RemoveElement
<1>2. IsFiniteSet(T) /\ Cardinality(T) <= Cardinality(S \ {c})
  BY <1>1, FS_Subset
<1> QED
  BY <1>1, <1>2, FS_CardinalityType

\* When fewer calls are open and nothing else changes.
LEMMA FewerOpen ==
  ASSUME NEW S, IsFiniteSet(S), NEW T, T \subseteq S
  PROVE  IsFiniteSet(T) /\ Cardinality(T) \in Nat /\ Cardinality(T) <= Cardinality(S)
BY FS_Subset, FS_CardinalityType

LEMMA BoundedThroughout == Spec => []Bounded
<1>1. Init => Bounded
  <2> SUFFICES ASSUME Init PROVE Bounded
    OBVIOUS
  <2>1. Open = {}
    BY DEF Init, Open
  <2>2. IsFiniteSet({}) /\ Cardinality({}) = 0
    BY FS_EmptySet
  <2>3. 0 * MaxSteps = 0
    BY StoreAssumption
  <2> QED
    BY <2>1, <2>2, <2>3, StoreAssumption DEF Init, Bounded, Whole, EmptyExperience
<1>2. GraphsAreSound /\ Bounded /\ [Next]_vars => Bounded'
  <2> SUFFICES ASSUME GraphsAreSound, Bounded, [Next]_vars PROVE Bounded'
    OBVIOUS
  <2>0. /\ Domains
        /\ \A p \in Processes : memory[p].sequence \in Nat
        /\ Whole => file.sequence \in Nat
        /\ \A p \in Processes : Cardinality(mine[p]) \in Nat
        /\ Cardinality(Open) \in Nat
    BY FS_CardinalityType DEF GraphsAreSound, Sound, WellFormed, Bounded
  <2> USE <2>0, StoreAssumption DEF Domains
  <2>1. ASSUME NEW p \in Processes, NEW i \in Incidents, Load(p, i)
        PROVE  Bounded'
    <3>1. /\ memory' = [memory EXCEPT ![p] = IF Whole THEN file ELSE EmptyExperience]
          /\ incident' = [incident EXCEPT ![p] = i]
          /\ mine' = [mine EXCEPT ![p] = {}] /\ pc' = [pc EXCEPT ![p] = "running"]
          /\ pc[p] = "off" /\ runs < MaxRuns /\ runs' = runs + 1
          /\ UNCHANGED <<clash, file, reports, performed>>
      BY <2>1 DEF Load, MayStart, Off
    <3>2. IsFiniteSet({}) /\ Cardinality({}) = 0
      BY FS_EmptySet
    <3>3. IsFiniteSet(Open') /\ Cardinality(Open') <= Cardinality(Open) + MaxSteps
      <4> DEFINE new == {<<p, k>> : k \in 1..MaxSteps}
                 f == [k \in 1..MaxSteps |-> <<p, k>>]
      <4>1. Open' = Open \cup new
        BY <3>1, <3>2 DEF Open
      <4>2. IsFiniteSet(1..MaxSteps) /\ Cardinality(1..MaxSteps) = MaxSteps
        BY FS_Interval
      <4>3. f \in Surjection(1..MaxSteps, new)
        BY DEF Surjection
      <4> HIDE DEF f, new
      <4>4. IsFiniteSet(new) /\ Cardinality(new) <= MaxSteps
        BY <4>2, <4>3, FS_Surjection
      <4>5. IsFiniteSet(Open)
        BY DEF Bounded
      <4>6. /\ IsFiniteSet(Open \cup new) /\ IsFiniteSet(Open \cap new)
            /\ Cardinality(Open \cup new)
                 = Cardinality(Open) + Cardinality(new) - Cardinality(Open \cap new)
        BY <4>4, <4>5, FS_Union, FS_Intersection
      <4> QED
        BY <4>1, <4>4, <4>6, FS_CardinalityType
    <3>4. (runs + 1) * MaxSteps = runs * MaxSteps + MaxSteps /\ runs * MaxSteps \in Nat
      BY DEF Bounded
    <3>5. performed' + Cardinality(Open') <= runs' * MaxSteps
      BY <3>1, <3>3, <3>4, FS_CardinalityType DEF Bounded
    <3>6. \A q \in Processes :
            /\ memory'[q].sequence <= performed'
            /\ IsFiniteSet(mine'[q]) /\ Cardinality(mine'[q]) <= MaxSteps
            /\ \A id \in mine'[q] : id[3] \in 1..memory'[q].sequence
      BY <3>1, <3>2 DEF Bounded, EmptyExperience
    <3> HIDE DEF Open
    <3> QED
      BY <3>1, <3>3, <3>5, <3>6 DEF Bounded, Whole
  <2>2. ASSUME NEW p \in Processes, NEW step \in StepNames, Execute(p, step)
        PROVE  Bounded'
    <3> DEFINE h == RecordExecution(memory[p], ExecutionBy(p, step))
               id == ExecutionId(incident[p], NextSequence(memory[p]))
    <3>1. /\ pc[p] = "running" /\ Cardinality(mine[p]) < MaxSteps
          /\ memory' = [memory EXCEPT ![p] = h]
          /\ mine' = [mine EXCEPT ![p] = @ \cup {id}] /\ performed' = performed + 1
          /\ UNCHANGED <<pc, incident, clash, file, reports, runs>>
      BY <2>2 DEF Execute
    <3>2. h.sequence = memory[p].sequence + 1 /\ id[3] = memory[p].sequence + 1
      BY DEF RecordExecution, NextSequence, ExecutionId
    <3>3. id \notin mine[p]
      BY <3>2 DEF Bounded
    <3> HIDE DEF h, id
    <3>4. /\ IsFiniteSet(mine[p] \cup {id})
          /\ Cardinality(mine[p] \cup {id}) = Cardinality(mine[p]) + 1
      BY <3>3, FS_AddElement DEF Bounded
    <3>5. /\ mine'[p] = mine[p] \cup {id} /\ memory'[p] = h
          /\ \A q \in Processes : q # p => mine'[q] = mine[q] /\ memory'[q] = memory[q]
      BY <3>1
    <3>6. IsFiniteSet(Open') /\ Cardinality(Open') + 1 <= Cardinality(Open)
      <4> DEFINE c == <<p, Cardinality(mine[p]) + 1>>
      <4>1. c \in Open
        BY <3>1 DEF Open
      <4>2. Open' \subseteq Open \ {c}
        BY <3>1, <3>4, <3>5 DEF Open
      <4>3. IsFiniteSet(Open)
        BY DEF Bounded
      <4> QED
        BY <4>1, <4>2, <4>3, OneLess
    <3>7. performed' + Cardinality(Open') <= runs' * MaxSteps
      BY <3>1, <3>6, FS_CardinalityType DEF Bounded
    <3>8. \A q \in Processes :
            /\ memory'[q].sequence <= performed'
            /\ IsFiniteSet(mine'[q]) /\ Cardinality(mine'[q]) <= MaxSteps
            /\ \A x \in mine'[q] : x[3] \in 1..memory'[q].sequence
      <4> TAKE q \in Processes
      <4>1. CASE q = p
        <5>1. \A x \in mine[p] : x[3] \in 1..memory[p].sequence
          BY DEF Bounded
        <5>2. \A x \in mine[p] \cup {id} : x[3] \in 1..h.sequence
          BY <3>2, <5>1
        <5>3. memory[p].sequence + 1 <= performed + 1
          BY DEF Bounded
        <5> QED
          BY <3>1, <3>2, <3>4, <3>5, <4>1, <5>2, <5>3
      <4>2. CASE q # p
        BY <3>1, <3>5, <4>2 DEF Bounded
      <4> QED BY <4>1, <4>2
    <3>9. Whole' => file'.sequence <= performed'
      BY <3>1 DEF Bounded, Whole
    <3> HIDE DEF Open
    <3>10. performed' \in Nat
      BY <3>1 DEF Bounded
    <3> QED
      BY <3>1, <3>6, <3>7, <3>8, <3>9, <3>10 DEF Bounded
  <2>3. ASSUME NEW p \in Processes,
               \/ BeginSave(p) \/ EndSave(p) \/ WriteReport(p) \/ Dies(p) \/ LoadRaises(p)
               \/ UNCHANGED vars
        PROVE  Bounded'
    <3>1. /\ UNCHANGED <<incident, memory, mine, performed>>
          /\ \A q \in Processes : pc'[q] = "running" => pc[q] = "running"
          /\ pc' \in [Processes -> {"off", "running", "saving", "saved"}]
      BY <2>3 DEF BeginSave, EndSave, WriteReport, Dies, LoadRaises, MayStart, vars,
                  processVars, past, Bounded
    <3>2. clash' \subseteq {q \in Processes : pc'[q] = "saving"}
      BY <2>3 DEF BeginSave, EndSave, WriteReport, Dies, LoadRaises, MayStart, vars,
                  processVars, past, Bounded
    <3>3. runs' = runs \/ (runs < MaxRuns /\ runs' = runs + 1)
      BY <2>3 DEF BeginSave, EndSave, WriteReport, Dies, LoadRaises, MayStart, vars, past
    <3>4. file' = file \/ file' = Torn \/ file' = memory[p]
      BY <2>3 DEF BeginSave, EndSave, WriteReport, Dies, LoadRaises, vars
    <3>5. \A i \in Incidents : reports'[i] = reports[i] \/ reports'[i] = mine[p]
      BY <2>3 DEF BeginSave, EndSave, WriteReport, Dies, LoadRaises, vars
    <3>6. Open' \subseteq Open
      BY <3>1 DEF Open
    <3>7. IsFiniteSet(Open') /\ Cardinality(Open') \in Nat /\ Cardinality(Open') <= Cardinality(Open)
      BY <3>6, FewerOpen DEF Bounded
    <3> HIDE DEF Open
    <3>8. runs * MaxSteps \in Nat /\ (runs + 1) * MaxSteps = runs * MaxSteps + MaxSteps
      BY DEF Bounded
    <3>9. performed' + Cardinality(Open') <= runs' * MaxSteps
      BY <3>1, <3>3, <3>7, <3>8 DEF Bounded
    <3>10. Whole' => file'.sequence <= performed'
      BY <3>1, <3>4 DEF Bounded, Whole
    <3>11. runs' \in 0..MaxRuns
      BY <3>3 DEF Bounded
    <3> QED
      BY <3>1, <3>2, <3>5, <3>7, <3>9, <3>10, <3>11 DEF Bounded
  <2>4. CASE UNCHANGED vars
    <3>1. Open' = Open /\ Whole' = Whole
      BY <2>4 DEF vars, processVars, Open, Whole
    <3> HIDE DEF Open
    <3> QED
      BY <2>4, <3>1 DEF vars, processVars, Bounded
  <2> QED
    BY <2>1, <2>2, <2>3, <2>4 DEF Next
<1> QED
  BY <1>1, <1>2, SoundThroughout, PTL DEF Spec

\* Types, and bounds on what accumulates, whichever runs overlap or die: the
\* file never holds more executions than commands were run, and a report lists
\* those of one run.
THEOREM StoreTypes == Spec => []TypeOK
<1>1. GraphsAreSound /\ Bounded => TypeOK
  <2> SUFFICES ASSUME GraphsAreSound, Bounded PROVE TypeOK
    OBVIOUS
  <2>1. runs * MaxSteps <= MaxRuns * MaxSteps
    BY StoreAssumption DEF Bounded
  <2>2. performed <= runs * MaxSteps
    BY FS_CardinalityType, StoreAssumption DEF Bounded
  <2>3. Whole => file.sequence \in Nat
    BY DEF GraphsAreSound, Sound, WellFormed
  <2> QED
    BY <2>1, <2>2, <2>3, StoreAssumption DEF Bounded, TypeOK
<1> QED
  BY <1>1, SoundThroughout, BoundedThroughout, PTL
===============================================================================
