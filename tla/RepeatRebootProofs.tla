------------------------- MODULE RepeatRebootProofs -------------------------
(***************************************************************************)
(* Safety of RepeatReboot for any number of runs and of reboots, wherever  *)
(* the machine goes down.                                                  *)
(***************************************************************************)
EXTENDS RepeatReboot, TLAPS

\* A number in the file is not taken for a missing or an empty file.
LEMMA NumbersAreNumbers ==
  ASSUME NEW n \in 1 .. num_runs + 1
  PROVE  n # Absent /\ n # Empty /\ n \in Nat
  BY RunsAssumption, FileAssumption

\* The script keeps the types and what its place tells of the file.
LEMMA ScriptKeepsPlace ==
  ASSUME TypeOK, PlaceInv, Script
  PROVE  TypeOK' /\ PlaceInv'
<1> USE RunsAssumption, FileAssumption DEF Goto, machine, history
<1>1. CASE InitializeRunFile
  <2>1. CASE run_file = Absent
    BY <1>1, <2>1 DEF InitializeRunFile, TypeOK, PlaceInv
  <2>2. CASE run_file # Absent
    BY <1>1, <2>2 DEF InitializeRunFile, TypeOK, PlaceInv
  <2>3. QED
    BY <2>1, <2>2
<1>2. CASE WriteFirst
  <2>1. 1 \in 1 .. num_runs + 1
    OBVIOUS
  <2>2. QED
    BY <1>2, <2>1, NumbersAreNumbers DEF WriteFirst, TypeOK, PlaceInv
<1>3. CASE ReadCurrentRun
  <2>1. CASE run_file = Empty
    BY <1>3, <2>1 DEF ReadCurrentRun, TypeOK, PlaceInv
  <2>2. CASE run_file # Empty
    <3>1. run_file \in 1 .. num_runs + 1
      BY <1>3, <2>2 DEF ReadCurrentRun, TypeOK, PlaceInv
    <3>2. QED
      BY <1>3, <2>2, <3>1 DEF ReadCurrentRun, TypeOK, PlaceInv
  <2>3. QED
    BY <2>1, <2>2
<1>4. CASE LoopTest
  BY <1>4, NumbersAreNumbers DEF LoopTest, TypeOK, PlaceInv, Runs
<1>5. CASE RunExperiment
  <2>1. current_run \in Runs /\ run_file = current_run
    BY <1>5 DEF RunExperiment, PlaceInv
  <2>2. current_run + 1 \in 1 .. num_runs + 1 /\ (current_run + 1) - 1 = current_run
    BY <2>1 DEF Runs
  <2>3. made' \in [Runs -> Nat]
    BY <1>5, <2>1 DEF RunExperiment, TypeOK
  <2>4. QED
    BY <1>5, <2>1, <2>2, <2>3, NumbersAreNumbers DEF RunExperiment, TypeOK, PlaceInv
<1>6. CASE OpenRunFile
  BY <1>6 DEF OpenRunFile, TypeOK, PlaceInv
<1>7. CASE WriteCurrentRun
  BY <1>7, NumbersAreNumbers DEF WriteCurrentRun, TypeOK, PlaceInv
<1>8. CASE RemoveRunFile
  <2>1. ended + 1 \in Nat
    BY DEF TypeOK
  <2>2. QED
    BY <1>8, <2>1 DEF RemoveRunFile, TypeOK, PlaceInv
<1>9. QED
  BY <1>1, <1>2, <1>3, <1>4, <1>5, <1>6, <1>7, <1>8 DEF Script

\* The machine may go down at any place.
LEMMA RebootKeepsPlace ==
  ASSUME TypeOK, PlaceInv, Reboot
  PROVE  TypeOK' /\ PlaceInv'
<1>1. interrupted' \in [Runs -> Nat]
  BY DEF Reboot, TypeOK, PlaceInv
<1>2. reboots' \in 0 .. MaxReboots /\ pc' \in {"initialize", "off"}
  BY RunsAssumption DEF Reboot, TypeOK, Goto
<1>3. QED
  BY <1>1, <1>2 DEF Reboot, TypeOK, PlaceInv

\* Every step keeps types and places.
LEMMA StepKeepsPlace ==
  ASSUME TypeOK, PlaceInv, [Next]_vars
  PROVE  TypeOK' /\ PlaceInv'
<1>1. CASE Install \/ Uninstall
  BY <1>1 DEF Install, Uninstall, TypeOK, PlaceInv, history
<1>2. CASE UNCHANGED vars
  BY <1>2 DEF vars, machine, history, TypeOK, PlaceInv
<1>3. QED
  BY <1>1, <1>2, ScriptKeepsPlace, RebootKeepsPlace DEF Next

\* The file and the script always fit (rep_reboot.py:20-53).
THEOREM PlacesTyped == Spec => [](TypeOK /\ PlaceInv)
<1>1. Init => TypeOK /\ PlaceInv
  <2>1. 1 \in 1 .. num_runs + 1 /\ 0 \in 0 .. MaxReboots /\ 0 \in Nat
    BY RunsAssumption
  <2>2. [r \in Runs |-> 0] \in [Runs -> Nat]
    OBVIOUS
  <2>i. Init => TypeOK
    BY <2>1, <2>2 DEF Init, TypeOK
  <2>3. Init => PlaceInv
    BY FileAssumption DEF Init, PlaceInv
  <2>4. QED
    BY <2>i, <2>3
<1>2. TypeOK /\ PlaceInv /\ [Next]_vars => (TypeOK /\ PlaceInv)'
  BY StepKeepsPlace
<1>3. QED
  BY <1>1, <1>2, PTL DEF Spec

-----------------------------------------------------------------------------
\* Steps of the script keep the history in agreement with the next run.
LEMMA ScriptKeepsHistory ==
  ASSUME TypeOK, PlaceInv, HistoryInv, Script
  PROVE  HistoryInv'
<1> USE RunsAssumption, FileAssumption DEF Goto, machine, history
<1>t. /\ made \in [Runs -> Nat] /\ interrupted \in [Runs -> Nat]
      /\ run_file \in {Absent, Empty} \cup 1 .. num_runs + 1 /\ current_run \in 1 .. num_runs + 1
      /\ \A r \in Runs : r \in Nat /\ made[r] \in Nat /\ interrupted[r] \in Nat
      /\ ended \in Nat
  BY DEF TypeOK, Runs
<1>1. CASE InitializeRunFile
  <2>1. CASE run_file = Absent
    BY <1>1, <1>t, <2>1 DEF InitializeRunFile, HistoryInv, RunIsKnown, NextRun
  <2>2. CASE run_file # Absent
    BY <1>1, <2>2 DEF InitializeRunFile, HistoryInv, RunIsKnown, NextRun
  <2>3. QED
    BY <2>1, <2>2
<1>2. CASE WriteFirst
  <2>1. \A r \in Runs : ~(r < 1) /\ made[r] = interrupted[r] + ended
    BY <1>2 DEF WriteFirst, HistoryInv, Runs
  <2>2. run_file' = 1 /\ run_file' # Absent /\ pc' = "read" /\ UNCHANGED history
    BY <1>2, NumbersAreNumbers DEF WriteFirst
  <2>3. QED
    BY <1>t, <2>1, <2>2 DEF HistoryInv, RunIsKnown, NextRun
<1>3. CASE ReadCurrentRun \/ LoopTest
  <2>1. /\ run_file' = run_file /\ UNCHANGED history
        /\ pc \in {"read", "loop"} /\ pc' \in {"off", "loop", "run", "remove"}
    BY <1>3 DEF ReadCurrentRun, LoopTest
  <2>2. QED
    BY <2>1 DEF HistoryInv, RunIsKnown, NextRun
<1>4. CASE RunExperiment
  <2>1. /\ current_run \in Runs /\ run_file = current_run /\ pc = "run" /\ pc' = "open"
        /\ run_file' = run_file /\ interrupted' = interrupted /\ ended' = ended
        /\ run_file # Absent /\ RunIsKnown /\ NextRun = current_run /\ NextRun' = current_run
    BY <1>4, NumbersAreNumbers, <1>t DEF RunExperiment, PlaceInv, RunIsKnown, NextRun
  <2>2. \A r \in Runs : made'[r] = IF r = current_run THEN made[r] + 1 ELSE made[r]
    BY <1>4, <1>t, <2>1 DEF RunExperiment
  <2>3. QED
    BY <1>t, <2>1, <2>2 DEF HistoryInv
<1>5. CASE OpenRunFile
  <2>1. /\ run_file = current_run - 1 /\ current_run - 1 \in Runs /\ pc = "open" /\ pc' = "write"
        /\ run_file' # Absent /\ UNCHANGED history
        /\ RunIsKnown /\ NextRun = current_run - 1 /\ NextRun' = current_run
    BY <1>5, <1>t DEF OpenRunFile, PlaceInv, RunIsKnown, NextRun, Runs
  <2>2. \A r \in Runs : /\ r < current_run <=> r < current_run - 1 \/ r = current_run - 1
                        /\ r >= current_run => r > current_run - 1
    BY <1>t, <2>1 DEF Runs
  <2>3. QED
    BY <1>t, <2>1, <2>2 DEF HistoryInv
<1>6. CASE WriteCurrentRun
  <2>1. /\ pc = "write" /\ pc' = "loop" /\ run_file' # Absent /\ UNCHANGED history
        /\ RunIsKnown /\ NextRun = current_run /\ NextRun' = current_run
    BY <1>6, <1>t, NumbersAreNumbers DEF WriteCurrentRun, RunIsKnown, NextRun
  <2>2. QED
    BY <2>1 DEF HistoryInv
<1>7. CASE RemoveRunFile
  <2>1. current_run = num_runs + 1 /\ run_file = current_run
    BY <1>7 DEF RemoveRunFile, PlaceInv
  <2>2. \A r \in Runs : r < NextRun
    BY <1>7, <2>1 DEF RemoveRunFile, NextRun, Runs
  <2>3. \A r \in Runs : made[r] = interrupted[r] + ended + 1
    BY <1>7, <2>1, <2>2, NumbersAreNumbers, <1>t DEF RemoveRunFile, HistoryInv, RunIsKnown
  <2>4. /\ UNCHANGED <<made, interrupted>> /\ ended' = ended + 1
        /\ pc' = "off" /\ run_file' = Absent
    BY <1>7 DEF RemoveRunFile
  <2>5. QED
    BY <1>t, <2>3, <2>4 DEF HistoryInv, RunIsKnown
<1>8. QED
  BY <1>1, <1>2, <1>3, <1>4, <1>5, <1>6, <1>7 DEF Script

\* A reboot between a run and its counter is counted as one that cut the run off.
LEMMA RebootKeepsHistory ==
  ASSUME TypeOK, PlaceInv, HistoryInv, Reboot
  PROVE  HistoryInv'
<1> USE RunsAssumption, FileAssumption DEF Goto
<1>t. /\ made \in [Runs -> Nat] /\ interrupted \in [Runs -> Nat]
      /\ current_run \in 1 .. num_runs + 1
      /\ \A r \in Runs : r \in Nat /\ made[r] \in Nat /\ interrupted[r] \in Nat
      /\ ended \in Nat
  BY DEF TypeOK, Runs
<1>1. pc' \in {"initialize", "off"} /\ UNCHANGED <<run_file, current_run, made, ended>>
  BY DEF Reboot
<1>2. CASE pc = "open"
  <2>1. /\ run_file = current_run - 1 /\ current_run - 1 \in Runs /\ run_file # Absent
        /\ RunIsKnown /\ NextRun = current_run - 1 /\ NextRun' = current_run - 1
    BY <1>1, <1>2, <1>t DEF PlaceInv, RunIsKnown, NextRun, Runs
  <2>2. \A r \in Runs :
          interrupted'[r] = IF r = current_run - 1 THEN interrupted[r] + 1 ELSE interrupted[r]
    BY <1>2, <1>t, <2>1 DEF Reboot
  <2>3. QED
    BY <1>1, <1>2, <1>t, <2>1, <2>2 DEF HistoryInv
<1>3. CASE pc # "open"
  <2>1. UNCHANGED interrupted
    BY <1>3 DEF Reboot
  <2>2. RunIsKnown' => RunIsKnown /\ NextRun' = NextRun
    BY <1>1 DEF PlaceInv, RunIsKnown, NextRun
  <2>3. QED
    BY <1>1, <1>3, <2>1, <2>2 DEF HistoryInv
<1>4. QED
  BY <1>2, <1>3

\* The file, the runs made and the runs interrupted always fit.
THEOREM RunsConsistent == Spec => []HistoryInv
<1>1. Init => HistoryInv
  BY RunsAssumption, FileAssumption DEF Init, HistoryInv, RunIsKnown
<1>2. TypeOK /\ PlaceInv /\ HistoryInv /\ [Next]_vars => HistoryInv'
  <2>1. CASE Install \/ Uninstall
    BY <2>1 DEF Install, Uninstall, HistoryInv, RunIsKnown, NextRun, history
  <2>2. CASE UNCHANGED vars
    BY <2>2 DEF vars, machine, history, HistoryInv, RunIsKnown, NextRun
  <2>3. QED
    BY <2>1, <2>2, ScriptKeepsHistory, RebootKeepsHistory DEF Next
<1>3. QED
  BY <1>1, <1>2, PlacesTyped, PTL DEF Spec

\* After a reboot at any point the number in the file is that of the first run that
\* is not done, or of the one that was cut off (rep_reboot.py:43-52).
THEOREM FileTellsTheRuns == Spec => []FileTellsRuns
<1>1. TypeOK /\ PlaceInv /\ HistoryInv => FileTellsRuns
  <2>1. SUFFICES ASSUME TypeOK, PlaceInv, HistoryInv PROVE FileTellsRuns
    OBVIOUS
  <2>2. run_file \notin {Absent, Empty} => RunIsKnown /\ NextRun = run_file
    BY <2>1 DEF PlaceInv, RunIsKnown, NextRun
  <2>3. \A r \in Runs : made[r] \in Nat /\ interrupted[r] \in Nat
    BY <2>1 DEF TypeOK
  <2>4. QED
    BY <2>1, <2>2, <2>3 DEF PlaceInv, HistoryInv, FileTellsRuns
<1>2. QED
  BY <1>1, PlacesTyped, RunsConsistent, PTL

\* No run is made more often than once, but for the reboots that came between it and its
\* counter and for the experiments that had ended before (rep_reboot.py:13, 50-55).
THEOREM RepetitionsAreInterrupted == Spec => []RepeatedOnlyIfInterrupted
<1>1. HistoryInv => RepeatedOnlyIfInterrupted
  BY DEF HistoryInv, RepeatedOnlyIfInterrupted
<1>2. QED
  BY <1>1, RunsConsistent, PTL
=============================================================================
