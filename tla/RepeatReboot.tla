---------------------------- MODULE RepeatReboot ----------------------------
(***************************************************************************)
(* An experiment that is run num_runs times with reboots in between: cron  *)
(* starts rep_reboot.py at every boot and a file tells it which run is     *)
(* next.  The machine may go down before or after any statement, as it     *)
(* does when the script asks for it (reboot_system returns at once, and at *)
(* this commit only echoes) and when it fails.  do.py puts the script into *)
(* the crontab and takes it out.                                           *)
(*                                                                         *)
(* Sources: src/repeat_reboot/rep_reboot.py, do.py.  External: cron.  What *)
(* was written to the file when the machine goes down is still there.      *)
(***************************************************************************)
EXTENDS Integers

CONSTANTS
  num_runs,
  MaxReboots,     \* bound: how often the machine goes down
  Absent, Empty   \* what run_file may be besides a number

ASSUME RunsAssumption == num_runs \in Nat \ {0} /\ MaxReboots \in Nat
ASSUME FileAssumption == Absent \notin Nat /\ Empty \notin Nat /\ Absent # Empty

VARIABLES
  installed,    \* the crontab has the entry
  pc,           \* where the script is; "off" when it does not run
  run_file, current_run,
  reboots,
  made,         \* history: how often each run was made
  interrupted,  \* history: how often a reboot has cut a run off from its counter
  ended,        \* history: how often the experiment came to its end
  damaged       \* history: a reboot has found the file opened and not yet written

machine == <<installed, reboots, damaged>>
history == <<made, interrupted, ended>>
vars == <<machine, pc, run_file, current_run, history>>

Runs == 1 .. num_runs
Goto(place) == pc' = place

Init ==
  /\ installed \in BOOLEAN /\ pc = "off"
  /\ run_file = Absent /\ current_run = 1 /\ reboots = 0
  /\ made = [r \in Runs |-> 0] /\ interrupted = [r \in Runs |-> 0]
  /\ ended = 0 /\ damaged = FALSE

-----------------------------------------------------------------------------
\* rep_reboot.py.

\* initialize_run_file: open(run_file, "w") creates the file, empty.
InitializeRunFile ==
  /\ pc = "initialize"
  /\ IF run_file = Absent
       THEN run_file' = Empty /\ Goto("first")
       ELSE Goto("read") /\ UNCHANGED run_file
  /\ UNCHANGED <<machine, current_run, history>>

WriteFirst ==
  /\ pc = "first" /\ run_file' = 1 /\ Goto("read")
  /\ UNCHANGED <<machine, current_run, history>>

\* int() of an empty file raises ValueError.
ReadCurrentRun ==
  /\ pc = "read"
  /\ IF run_file = Empty THEN Goto("off") /\ UNCHANGED current_run
                         ELSE Goto("loop") /\ current_run' = run_file
  /\ UNCHANGED <<machine, run_file, history>>

\* Mutant: there is one run more.
LoopTestOneMore ==
  /\ pc = "loop"
  /\ Goto(IF current_run <= num_runs + 1 THEN "run" ELSE "remove")
  /\ UNCHANGED <<machine, run_file, current_run, history>>

\* The loop test, and the request to reboot.
LoopTest ==
  /\ pc = "loop"
  /\ Goto(IF current_run <= num_runs THEN "run" ELSE "remove")
  /\ UNCHANGED <<machine, run_file, current_run, history>>

\* Mutant: current_run is not advanced.
RunExperimentStuck ==
  /\ pc = "run" /\ Goto("open")
  /\ made' = [made EXCEPT ![current_run] = 1]
  /\ UNCHANGED <<machine, run_file, current_run, interrupted, ended>>

\* Mutant: the counter is opened before the run.
RunExperimentOpened ==
  /\ pc = "run" /\ Goto("open") /\ run_file' = Empty
  /\ made' = [made EXCEPT ![current_run] = @ + 1]
  /\ current_run' = current_run + 1
  /\ UNCHANGED <<machine, interrupted, ended>>

RunExperiment ==
  /\ pc = "run" /\ Goto("open")
  /\ made' = [made EXCEPT ![current_run] = @ + 1]
  /\ current_run' = current_run + 1
  /\ UNCHANGED <<machine, run_file, interrupted, ended>>

\* write_current_run: open(run_file, "w") empties the file before it is written.
OpenRunFile ==
  /\ pc = "open" /\ run_file' = Empty /\ Goto("write")
  /\ UNCHANGED <<machine, current_run, history>>

\* Mutant: the number of the run just made is written.
WriteSameRun ==
  /\ pc = "write" /\ run_file' = current_run - 1 /\ Goto("loop")
  /\ UNCHANGED <<machine, current_run, history>>

WriteCurrentRun ==
  /\ pc = "write" /\ run_file' = current_run /\ Goto("loop")
  /\ UNCHANGED <<machine, current_run, history>>

\* The experiment has ended.  Nothing else remembers it: at the next boot it begins
\* again, unless the entry has been taken out of the crontab.
RemoveRunFile ==
  /\ pc = "remove" /\ run_file' = Absent /\ Goto("off")
  /\ ended' = ended + 1
  /\ UNCHANGED <<machine, current_run, made, interrupted>>

Script ==
  \/ InitializeRunFile \/ WriteFirst \/ ReadCurrentRun \/ LoopTest
  \/ RunExperiment \/ OpenRunFile \/ WriteCurrentRun \/ RemoveRunFile

-----------------------------------------------------------------------------
\* do.py and the machine.

\* The entry is added unless it is there, so there is one at most.
Install == installed' = TRUE /\ UNCHANGED <<pc, run_file, current_run, reboots, damaged, history>>
Uninstall == installed' = FALSE /\ UNCHANGED <<pc, run_file, current_run, reboots, damaged, history>>

Reboot ==
  /\ reboots < MaxReboots /\ reboots' = reboots + 1
  /\ Goto(IF installed THEN "initialize" ELSE "off")
  /\ interrupted' = IF pc = "open"
                      THEN [interrupted EXCEPT ![current_run - 1] = @ + 1] ELSE interrupted
  /\ damaged' = (damaged \/ pc \in {"first", "write"})
  /\ UNCHANGED <<installed, run_file, current_run, made, ended>>

Next == Script \/ Install \/ Uninstall \/ Reboot
Spec == Init /\ [][Next]_vars
\* The script is run once it is started.
FairSpec == Spec /\ WF_vars(Script)

-----------------------------------------------------------------------------
\* Every variable keeps its type.
TypeOK ==
  /\ installed \in BOOLEAN /\ damaged \in BOOLEAN /\ reboots \in 0 .. MaxReboots
  /\ pc \in {"off", "initialize", "first", "read", "loop", "run", "open", "write", "remove"}
  /\ run_file \in {Absent, Empty} \cup 1 .. num_runs + 1 /\ current_run \in 1 .. num_runs + 1
  /\ made \in [Runs -> Nat] /\ interrupted \in [Runs -> Nat] /\ ended \in Nat

\* A number in the file tells exactly which runs the present experiment has behind it,
\* wherever the machine went down: not counting makings that were cut off, each run
\* below the number was made once in this experiment and once in each that ended before,
\* each run above it only in those.  And the file has a number whenever the experiment
\* runs (rep_reboot.py:43-55).
FileTellsRuns ==
  /\ run_file \notin {Absent, Empty} =>
       \A r \in Runs : /\ r < run_file => made[r] = interrupted[r] + ended + 1
                       /\ r > run_file => made[r] = interrupted[r] + ended
  /\ run_file = Empty => pc \in {"first", "write"} \/ damaged

\* A run is made again only for a reboot that came between it and its counter, or for
\* an experiment that had come to its end: then the file is gone and a boot makes every
\* run once more.  The README of src/repeat_reboot promises (line 55) to go on "without
\* running the experiment again"; what the code keeps is this (rep_reboot.py:13, 50-55).
RepeatedOnlyIfInterrupted == \A r \in Runs : made[r] <= 1 + interrupted[r] + ended

\* What the invariants rest on, inductive together with TypeOK.

\* Where the script is tells what is in the file and in its variable.
PlaceInv ==
  /\ pc \in {"loop", "run", "remove"} => run_file = current_run
  /\ pc = "run" => current_run \in Runs
  /\ pc \in {"open", "write"} => current_run - 1 \in Runs
  /\ pc = "open" => run_file = current_run - 1
  /\ pc = "remove" => current_run = num_runs + 1
  /\ pc \in {"first", "write"} => run_file = Empty
  /\ pc = "read" => run_file # Absent
  /\ run_file = Empty => pc \in {"first", "write"} \/ damaged

\* The run that is next, in the file or in the script about to write it there.
RunIsKnown == pc = "write" \/ run_file \notin {Absent, Empty}
NextRun == IF pc = "write" THEN current_run ELSE run_file

\* This experiment has made the runs up to the next one, apart from the makings that
\* were interrupted, and none beyond it; before its first run it has made none.
HistoryInv ==
  /\ RunIsKnown => \A r \in Runs :
       /\ r < NextRun => made[r] = interrupted[r] + ended + 1
       /\ r = NextRun => made[r] = interrupted[r] + ended + (IF pc = "open" THEN 1 ELSE 0)
       /\ r > NextRun => made[r] = interrupted[r] + ended
  /\ pc = "first" \/ run_file = Absent => \A r \in Runs : made[r] = interrupted[r] + ended
  /\ \A r \in Runs : made[r] <= 1 + interrupted[r] + ended

\* A script that is started makes the runs that are left, all of them if it is the
\* first start, and removes the counter, unless the machine goes down meanwhile or the
\* file was damaged (rep_reboot.py:42-55).
StartedCompletes ==
  \A n, e \in 0 .. MaxReboots :
    (pc = "initialize" /\ reboots = n /\ ended = e)
      ~> \/ /\ pc = "off" /\ run_file = Absent /\ ended = e + 1
            /\ \A r \in Runs : made[r] = interrupted[r] + ended
         \/ reboots > n \/ damaged
=============================================================================
