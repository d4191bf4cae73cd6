------------------------ MODULE ElevatedWritesProofs ------------------------
(***************************************************************************)
(* Safety of ElevatedWrites for every set of command lines, every period,  *)
(* every width of an int and all times a write may take.                   *)
(***************************************************************************)
EXTENDS ElevatedWrites, TLAPS

\* What the assumptions say of the command line that runs.
LEMMA SetupIsSetup ==
  ASSUME setup \in Setups
  PROVE  /\ Loop \in UserLoops \cup SymLoops \cup {"none"}
         /\ setup.path \in {"file", "/dev/null"} /\ (setup.path = "/dev/null" => setup.exists)
         /\ setup.exists \in BOOLEAN /\ setup.preemptible \in BOOLEAN
         /\ setup.iter \in Nat \ {0} /\ setup.size \in Nat \ {0}
         /\ setup.latency \in BOOLEAN /\ (setup.latency => Loop \in WriteLoop)
  BY SetupsAssumption DEF Loop

-----------------------------------------------------------------------------
\* The places.

\* What comes before the first iteration leads from place to place.
LEMMA PreparationKeepsPlaces ==
  ASSUME PlaceInv,
         init_file \/ prepare_file \/ init_buffer \/ get_buf
           \/ ElevateEmulate \/ ElevateEmulateSS \/ ElevateKsys \/ ElevateShortcut
  PROVE  PlaceInv'
<1> USE DEF PlaceInv, Loop, Goto, progress, Before, Within, WriteSteps, EmulateSteps, After,
            Direct, UserLoops, SymLoops, WriteLoop
<1>1. CASE init_file \/ prepare_file
  BY <1>1 DEF init_file, prepare_file, OpenPath
<1>2. CASE init_buffer \/ get_buf
  BY <1>2, SetupIsSetup DEF init_buffer, get_buf, AllocateBuffer
<1>3. CASE ElevateEmulate \/ ElevateEmulateSS
  BY <1>3 DEF ElevateEmulate, ElevateEmulateSS, ElevateTo, NoSymbol
<1>4. CASE ElevateKsys \/ ElevateShortcut
  BY <1>4 DEF ElevateKsys, ElevateShortcut, ElevateTo, NoSymbol
<1>5. QED
  BY <1>1, <1>2, <1>3, <1>4

\* Every place of an iteration belongs to its loop, and is left for another of it.
LEMMA LoopKeepsPlaces ==
  ASSUME PlaceInv,
         LoopTest \/ Write \/ Switch \/ Call \/ SwitchBack \/ CheckResult
           \/ Save \/ SwitchSS \/ LoadFlags \/ Handler \/ HandlerSS \/ Lower
  PROVE  PlaceInv'
<1> USE DEF PlaceInv, Loop, Goto, progress, Before, Within, WriteSteps, EmulateSteps, After,
            Direct, UserLoops, SymLoops, WriteLoop
<1>t. setup.iter \in Nat /\ setup.iter > 0
  BY SetupIsSetup
<1>n. i \in Nat /\ (i < setup.iter => i + 1 \in 0 .. setup.iter /\ i + 1 # 0)
      /\ (i < setup.iter => i # setup.iter) /\ (~(i < setup.iter) => i = setup.iter)
  BY <1>t
<1>1. CASE LoopTest
  <2>1. CASE i < setup.iter
    <3>1. Body \in Within
      BY <1>1, <2>1, SetupIsSetup DEF LoopTest, Body
    <3>2. /\ Body \in WriteSteps => Loop \in UserLoops \cup Direct
          /\ Body = "call" => Loop \in Direct
          /\ Body \in {"switch", "switch_back"} => Loop = "ksys_ss"
          /\ Body \in EmulateSteps => Loop \in {"emulate", "emulate_ss"}
          /\ Body \in {"save", "switch_ss"} => Loop = "emulate_ss"
      BY <1>1, SetupIsSetup DEF LoopTest, Body
    <3>3. pc' = Body /\ UNCHANGED progress
      BY <1>1, <2>1 DEF LoopTest
    <3>4. QED
      BY <2>1, <3>1, <3>2, <3>3
  <2>2. CASE ~(i < setup.iter)
    BY <1>1, <1>n, <2>2 DEF LoopTest
  <2>3. QED
    BY <2>1, <2>2
<1>2. CASE Write \/ Switch \/ Call \/ SwitchBack
  BY <1>2 DEF Write, Switch, Call, SwitchBack, ReturnTo
<1>3. CASE CheckResult
  BY <1>3, <1>n DEF CheckResult
<1>4. CASE Save \/ SwitchSS \/ LoadFlags
  BY <1>4 DEF Save, SwitchSS, LoadFlags
<1>5. CASE Handler \/ HandlerSS
  BY <1>5, <1>n DEF Handler, HandlerSS, HandlerRuns, ReturnTo
<1>6. CASE Lower
  BY <1>6 DEF Lower, ReturnTo
<1>7. QED
  BY <1>1, <1>2, <1>3, <1>4, <1>5, <1>6

\* What comes behind the loop, and what may come at any place.
LEMMA RestKeepsPlaces ==
  ASSUME PlaceInv,
         CheckOutput \/ Cleanup \/ process_latencies \/ Preempt \/ Signal \/ Deliver
           \/ UNCHANGED vars
  PROVE  PlaceInv'
<1> USE DEF PlaceInv, Loop, Goto, progress, Before, Within, WriteSteps, EmulateSteps, After, Ended
<1>1. CASE CheckOutput \/ Cleanup \/ process_latencies
  BY <1>1 DEF CheckOutput, Cleanup, process_latencies
<1>2. CASE Preempt \/ Signal \/ Deliver
  BY <1>2 DEF Preempt, Signal, Deliver
<1>3. CASE UNCHANGED vars
  BY <1>3 DEF vars
<1>4. QED
  BY <1>1, <1>2, <1>3

\* Together: each step.
LEMMA StepKeepsPlaces ==
  ASSUME PlaceInv, [Next]_vars
  PROVE  PlaceInv'
  BY PreparationKeepsPlaces, LoopKeepsPlaces, RestKeepsPlaces DEF Next

\* The program is always at a place of its own loop, within its iterations.
LEMMA PlacesFit == Spec => []PlaceInv
<1>1. Init => PlaceInv
  <2> USE DEF Init, Loop, PlaceInv, Before, Within, WriteSteps, EmulateSteps, After, SymLoops
  <2>1. Init => 0 \in 0 .. setup.iter
    BY SetupIsSetup
  <2>2. QED
    BY <2>1
<1>2. PlaceInv /\ [Next]_vars => PlaceInv'
  BY StepKeepsPlaces
<1>3. QED
  BY <1>1, <1>2, PTL DEF Spec

-----------------------------------------------------------------------------
\* Privilege, interrupts and stack.

\* Privilege and interrupts, step by step in the same order: before the loop,
LEMMA PreparationKeepsCpu ==
  ASSUME PlaceInv, CpuInv,
         init_file \/ prepare_file \/ init_buffer \/ get_buf
           \/ ElevateEmulate \/ ElevateEmulateSS \/ ElevateKsys \/ ElevateShortcut
  PROVE  CpuInv'
<1> USE DEF PlaceInv, CpuInv, Loop, Goto, progress, cpu, Before, Within, WriteSteps, EmulateSteps,
            After, SymLoops, WriteLoop
<1>1. CASE init_file \/ prepare_file
  BY <1>1 DEF init_file, prepare_file, OpenPath
<1>2. CASE init_buffer \/ get_buf
  BY <1>2 DEF init_buffer, get_buf, AllocateBuffer
<1>3. CASE ElevateEmulate \/ ElevateEmulateSS
  BY <1>3 DEF ElevateEmulate, ElevateEmulateSS, ElevateTo, NoSymbol
<1>4. CASE ElevateKsys \/ ElevateShortcut
  BY <1>4 DEF ElevateKsys, ElevateShortcut, ElevateTo, NoSymbol
<1>5. QED
  BY <1>1, <1>2, <1>3, <1>4

\* within it, where the place after the step says what a switch has to be undone,
LEMMA LoopKeepsCpu ==
  ASSUME PlaceInv, CpuInv, PlaceInv',
         LoopTest \/ Write \/ Switch \/ Call \/ SwitchBack \/ CheckResult
           \/ Save \/ SwitchSS \/ LoadFlags \/ Handler \/ HandlerSS \/ Lower
  PROVE  CpuInv'
<1> USE DEF PlaceInv, CpuInv, Loop, Goto, progress, cpu, Within, WriteSteps, EmulateSteps, After,
            SymLoops, Direct, UserLoops
<1>1. CASE LoopTest
  <2>1. CASE i < setup.iter
    <3>1. Body \in Within /\ Body # "handler"
      BY <1>1, <2>1, SetupIsSetup DEF LoopTest, Body, WriteLoop
    <3>2. pc' = Body /\ UNCHANGED <<progress, cpu>>
      BY <1>1, <2>1 DEF LoopTest
    <3>3. QED
      BY <1>1, <3>1, <3>2 DEF LoopTest
  <2>2. CASE ~(i < setup.iter)
    BY <1>1, <2>2 DEF LoopTest
  <2>3. QED
    BY <2>1, <2>2
<1>2. CASE Write \/ Switch \/ Call \/ SwitchBack
  BY <1>2 DEF Write, Switch, Call, SwitchBack, ReturnTo
<1>3. CASE CheckResult
  BY <1>3 DEF CheckResult
<1>4. CASE Save \/ SwitchSS \/ LoadFlags
  BY <1>4 DEF Save, SwitchSS, LoadFlags, MaskedFlags
<1>5. CASE Handler \/ HandlerSS
  BY <1>5 DEF Handler, HandlerSS, HandlerRuns, ReturnTo
<1>6. CASE Lower
  BY <1>6 DEF Lower, ReturnTo
<1>7. QED
  BY <1>1, <1>2, <1>3, <1>4, <1>5, <1>6

\* and behind it.
LEMMA RestKeepsCpu ==
  ASSUME PlaceInv, CpuInv,
         CheckOutput \/ Cleanup \/ process_latencies \/ Preempt \/ Signal \/ Deliver
           \/ UNCHANGED vars
  PROVE  CpuInv'
<1> USE DEF PlaceInv, CpuInv, Loop, Goto, progress, cpu, Within, WriteSteps, EmulateSteps, After,
            Ended
<1>1. CASE CheckOutput \/ Cleanup \/ process_latencies
  BY <1>1 DEF CheckOutput, Cleanup, process_latencies
<1>2. CASE Preempt \/ Signal
  BY <1>2 DEF Preempt, Signal
<1>3. CASE Deliver
  <2>1. pc # "handler"
    BY <1>3 DEF Deliver, SymLoops
  <2>2. QED
    BY <1>3, <2>1 DEF Deliver
<1>4. CASE UNCHANGED vars
  BY <1>4 DEF vars
<1>5. QED
  BY <1>1, <1>2, <1>3, <1>4

\* Privilege, flags and interrupts always fit the place.
LEMMA CpuFits == Spec => []CpuInv
<1>1. Init => CpuInv
  BY DEF Init, CpuInv, Loop, Within, WriteSteps, EmulateSteps, After
<1>2. PlaceInv /\ PlaceInv' /\ CpuInv /\ [Next]_vars => CpuInv'
  BY PreparationKeepsCpu, LoopKeepsCpu, RestKeepsCpu DEF Next
<1>3. QED
  BY <1>1, <1>2, PlacesFit, PTL DEF Spec

\* Kernel code is entered privileged and with the interrupts it expects, and a
\* loop left in order gives both back (writes.c:294-299, :436-446).
THEOREM PrivilegeIsReturned == Spec => []PrivilegeReturned
<1>1. PlaceInv /\ CpuInv => PrivilegeReturned
  BY DEF PlaceInv, CpuInv, PrivilegeReturned, Loop, Within, WriteSteps, EmulateSteps, After,
         SymLoops, Direct
<1>2. QED
  BY <1>1, PlacesFit, CpuFits, PTL

\* The stack is kept, or comes back, in each step of an iteration.
LEMMA StepKeepsStack ==
  ASSUME PlaceInv, CpuInv, StackInv, PlaceInv', [Next]_vars
  PROVE  StackInv'
<1> USE DEF PlaceInv, StackInv, StackComesBack, Loop, Goto, progress, cpu, WriteSteps, EmulateSteps
<1>1. CASE init_file \/ prepare_file \/ init_buffer \/ get_buf
  BY <1>1 DEF init_file, prepare_file, OpenPath, init_buffer, get_buf, AllocateBuffer, SymLoops
<1>2. CASE ElevateEmulate \/ ElevateEmulateSS \/ ElevateKsys \/ ElevateShortcut
  BY <1>2 DEF ElevateEmulate, ElevateEmulateSS, ElevateKsys, ElevateShortcut, ElevateTo, NoSymbol
<1>3. CASE LoopTest
  <2>1. UNCHANGED <<progress, cpu>> /\ pc = "loop" /\ (rsp # "user" => Loop = "emulate_ss" /\ setup.preemptible)
    BY <1>3 DEF LoopTest
  <2>2. pc' \in {"call", "flags"} => Loop \notin {"ksys_ss", "emulate_ss"}
    BY <1>3, SetupIsSetup DEF LoopTest, Body, UserLoops, SymLoops
  <2>3. pc' \notin {"switch_back", "switch_ss", "handler"}
    BY <1>3, SetupIsSetup DEF LoopTest, Body, UserLoops, SymLoops
  <2>4. QED
    BY <2>1, <2>2, <2>3
<1>4. CASE Write \/ CheckResult
  BY <1>4 DEF Write, ReturnTo, CheckResult
<1>5. CASE Switch \/ Call \/ SwitchBack
  BY <1>5 DEF Switch, Call, SwitchBack
<1>6. CASE Save \/ SwitchSS \/ LoadFlags
  BY <1>6 DEF Save, SwitchSS, LoadFlags
<1>7. CASE Handler \/ HandlerSS
  BY <1>7 DEF Handler, HandlerSS, HandlerRuns, ReturnTo
<1>8. CASE Lower \/ CheckOutput \/ Cleanup \/ process_latencies
  BY <1>8 DEF Lower, ReturnTo, CheckOutput, Cleanup, process_latencies
<1>9. CASE Preempt
  BY <1>9 DEF Preempt, CpuInv, Within, SymLoops
<1>10. CASE Signal
  BY <1>10 DEF Signal
<1>11. CASE Deliver
  BY <1>11 DEF Deliver, CpuInv, Within, SymLoops
<1>12. CASE UNCHANGED vars
  BY <1>12 DEF vars
<1>13. QED
  BY <1>1, <1>2, <1>3, <1>4, <1>5, <1>6, <1>7, <1>8, <1>9, <1>10, <1>11, <1>12 DEF Next

\* The process is on its own stack again after every detour (writes.c:434-447).
THEOREM StacksComeBack == Spec => []StackComesBack
<1>1. Init => StackInv
  BY DEF Init, StackInv, StackComesBack, Loop
<1>2. PlaceInv /\ PlaceInv' /\ CpuInv /\ StackInv /\ [Next]_vars => StackInv'
  BY StepKeepsStack
<1>3. StackInv => StackComesBack
  BY DEF StackInv
<1>4. QED
  BY <1>1, <1>2, <1>3, PlacesFit, CpuFits, PTL DEF Spec

-----------------------------------------------------------------------------
\* The file.

\* No step changes the command line, or the file system and kernel it met.
LEMMA SetupStays ==
  ASSUME [Next]_vars
  PROVE  setup' = setup
  BY DEF Next, vars, progress, init_file, prepare_file, OpenPath, init_buffer, get_buf,
         AllocateBuffer, ElevateEmulate, ElevateEmulateSS, ElevateKsys, ElevateShortcut, ElevateTo,
         NoSymbol, LoopTest, Write, Switch, Call, SwitchBack, CheckResult, Save, SwitchSS,
         LoadFlags, Handler, HandlerSS, HandlerRuns, Lower, CheckOutput, Cleanup,
         process_latencies, Preempt, Signal, Deliver

\* Only Cleanup removes the file, and only behind a check that passed.
LEMMA StepKeepsNull ==
  ASSUME PlaceInv, NullInv, [Next]_vars
  PROVE  NullInv'
<1> DEFINE whole == (setup.iter * setup.size) % INT_SIZE
<1>t. PlaceInv => setup.path \in {"file", "/dev/null"}
  BY SetupIsSetup DEF PlaceInv
<1>i. NullInv <=> /\ setup.path = "/dev/null" /\ whole # 0 => exists
                  /\ pc = "cleanup" /\ setup.path = "/dev/null" => whole = 0
  BY DEF NullInv, NullDeviceStays
<1>p. setup' = setup => (NullInv' <=> /\ setup.path = "/dev/null" /\ whole # 0 => exists'
                                      /\ pc' = "cleanup" /\ setup.path = "/dev/null" => whole = 0)
  BY DEF NullInv, NullDeviceStays
<1>z. 0 % INT_SIZE = 0
  BY SizesAssumption
<1>s. setup' = setup
  BY SetupStays
<1>1. CASE init_file \/ prepare_file
  BY <1>1, <1>i, <1>p, <1>s DEF init_file, prepare_file, OpenPath, Goto
<1>2. CASE CheckOutput
  <2>1. pc' = "cleanup" => FileSize % INT_SIZE = whole
    BY <1>2 DEF CheckOutput, Goto
  <2>2. exists' = exists /\ (setup.path = "/dev/null" => FileSize = 0)
    BY <1>2 DEF CheckOutput, FileSize, file
  <2>3. QED
    BY <2>1, <2>2, <1>i, <1>p, <1>s, <1>z
<1>3. CASE Cleanup
  BY <1>3, <1>i, <1>p, <1>s DEF Cleanup, Goto
<1>4. CASE exists' = exists /\ (pc' = "cleanup" => pc = "cleanup")
  BY <1>4, <1>i, <1>p, <1>s
<1>5. ~(init_file \/ prepare_file \/ CheckOutput \/ Cleanup)
        => exists' = exists /\ (pc' = "cleanup" => pc = "cleanup")
  <2> USE DEF Goto, ReturnTo, file, Carry
  <2>test. CASE LoopTest
    BY <2>test, SetupIsSetup DEF PlaceInv, LoopTest, Body, Loop, UserLoops, SymLoops
  <2>prepare. CASE init_buffer \/ get_buf \/ ElevateEmulate \/ ElevateEmulateSS \/ ElevateKsys
               \/ ElevateShortcut
    BY <2>prepare DEF init_buffer, get_buf, AllocateBuffer, ElevateEmulate, ElevateEmulateSS,
                ElevateKsys, ElevateShortcut, ElevateTo, NoSymbol
  <2>write. CASE Write \/ Switch \/ Call \/ SwitchBack \/ CheckResult
    BY <2>write DEF Write, Switch, Call, SwitchBack, CheckResult
  <2>emulate. CASE Save \/ SwitchSS \/ LoadFlags \/ Handler \/ HandlerSS \/ Lower
    BY <2>emulate DEF Save, SwitchSS, LoadFlags, Handler, HandlerSS, HandlerRuns, Lower
  <2>rest. CASE process_latencies \/ Preempt \/ Signal \/ Deliver \/ UNCHANGED vars
    BY <2>rest DEF process_latencies, Preempt, Signal, Deliver, vars
  <2> QED
    BY <2>test, <2>prepare, <2>write, <2>emulate, <2>rest DEF Next
<1>6. QED
  BY <1>1, <1>2, <1>3, <1>4, <1>5

\* /dev/null outlives the program, unless the number of bytes asked for is a
\* multiple of what an int can count (writes.c:546, :594).
THEOREM NullDevicesStay == Spec => []NullDeviceStays
<1>1. Init => NullInv
  BY SetupsAssumption DEF Init, NullInv, NullDeviceStays
<1>2. PlaceInv /\ NullInv /\ [Next]_vars => NullInv'
  BY StepKeepsNull
<1>3. NullInv => NullDeviceStays
  BY DEF NullInv
<1>4. QED
  BY <1>1, <1>2, <1>3, PlacesFit, PTL DEF Spec

\* What a write adds, as plain arithmetic.
LEMMA SumsGrow ==
  ASSUME NEW w \in Nat, NEW r \in Nat, NEW size \in Nat, r <= size
  PROVE  w + r \in Nat /\ w + r <= w + size
  OBVIOUS

\* One write adds at most one buffer.
LEMMA CarryAddsAtMostABuffer ==
  ASSUME setup \in Setups, written \in Nat, NEW error \in {-1, -ENOSPC}, Carry(error)
  PROVE  written' \in Nat /\ written' <= written + setup.size
<1>1. setup.size \in Nat /\ error < 0
  BY SetupIsSetup DEF ENOSPC
<1>2. rc' \in 1 .. setup.size \/ rc' = error
  BY DEF Carry
<1>3. CASE rc' > 0
  <2>1. rc' \in Nat /\ rc' <= setup.size
    BY <1>1, <1>2, <1>3
  <2>2. written' = written + rc'
    BY <1>3 DEF Carry
  <2>3. QED
    BY <1>1, <2>1, <2>2, SumsGrow
<1>4. CASE ~(rc' > 0)
  BY <1>1, <1>4 DEF Carry
<1>5. QED
  BY <1>3, <1>4

\* What was written is bounded by the writes made: the check finds what is missing.
LEMMA StepKeepsWritten ==
  ASSUME PlaceInv, WrittenInv, PlaceInv', [Next]_vars
  PROVE  WrittenInv'
<1> DEFINE size == setup.size
<1> DEFINE all == setup.iter * setup.size
<1>s. setup' = setup /\ size \in Nat
  BY SetupStays, SetupIsSetup DEF PlaceInv
<1>n. /\ i \in Nat /\ i * size \in Nat /\ (i + 1) * size = i * size + size /\ all \in Nat
      /\ i = setup.iter => i * size = all
  BY <1>s, SetupIsSetup DEF PlaceInv
<1> DEFINE checked == Loop \notin WriteLoop /\ setup.path = "file" /\ all < INT_SIZE
<1>d. /\ DoneMeansWritten <=> (pc \in {"cleanup", "done"} /\ checked => written = all)
      /\ DoneMeansWritten' <=> (pc' \in {"cleanup", "done"} /\ checked => written' = all)
  BY <1>s DEF DoneMeansWritten, Loop
<1> HIDE DEF all
<1> USE DEF Goto, ReturnTo, progress, file, Ended
<1>1. CASE Write \/ Call
  <2>1. written' \in Nat /\ written' <= written + size
    BY <1>1, CarryAddsAtMostABuffer DEF Write, Call, WrittenInv, PlaceInv
  <2>2. i' = i /\ pc' \in {"switch_back", "check", "killed"} /\ written <= i * size
    BY <1>1 DEF Write, Call, WrittenInv
  <2>3. DoneMeansWritten'
    BY <2>2, <1>d
  <2>4. QED
    BY <2>1, <2>2, <2>3, <1>n, <1>s DEF WrittenInv
<1>2. CASE CheckResult
  <2>1. written' = written /\ written <= i * size + size
    BY <1>2, <1>n DEF CheckResult, WrittenInv
  <2>2. pc' = "exited" \/ (pc' = "loop" /\ i' = i + 1)
    BY <1>2 DEF CheckResult
  <2>3. DoneMeansWritten'
    BY <2>2, <1>d
  <2>4. QED
    BY <2>1, <2>2, <2>3, <1>n, <1>s DEF WrittenInv
<1>3. CASE Handler \/ HandlerSS
  <2>1. written' \in Nat /\ written' <= written + size
    BY <1>3, CarryAddsAtMostABuffer DEF Handler, HandlerSS, HandlerRuns, WrittenInv, PlaceInv
  <2>2. i' = i + 1 /\ pc' \in {"loop", "killed"} /\ written <= i * size
    BY <1>3 DEF Handler, HandlerSS, HandlerRuns, WrittenInv
  <2>3. DoneMeansWritten'
    BY <2>2, <1>d
  <2>4. QED
    BY <2>1, <2>2, <2>3, <1>n, <1>s DEF WrittenInv
<1>4. CASE CheckOutput
  <2>1. written' = written /\ i' = i /\ written \in Nat /\ written <= all
    BY <1>4, <1>n DEF CheckOutput, WrittenInv, PlaceInv, After
  <2>2. pc' \in {"exited", "cleanup", "aborted"}
    BY <1>4 DEF CheckOutput
  <2>3. /\ pc' = "cleanup" => FileSize % INT_SIZE = all % INT_SIZE
        /\ setup.path = "file" => FileSize = written
    BY <1>4 DEF CheckOutput, FileSize, all
  <2>4. all < INT_SIZE => all % INT_SIZE = all /\ written % INT_SIZE = written
    BY <2>1, <1>n, SizesAssumption
  <2>5. DoneMeansWritten'
    BY <2>1, <2>2, <2>3, <2>4, <1>d
  <2>6. written <= i * size
    BY <1>4 DEF CheckOutput, WrittenInv
  <2>7. QED
    BY <2>1, <2>2, <2>5, <2>6, <1>s DEF WrittenInv
<1>5. CASE SwitchBack
  BY <1>5, <1>s, <1>d DEF SwitchBack, WrittenInv
<1>6. CASE /\ written' = written /\ i' = i
           /\ pc' \notin {"switch_back", "check"} \/ pc' = pc
           /\ pc \notin {"switch_back", "check"} \cup Ended \/ pc' \in Ended \/ pc' = pc
           /\ pc' \in {"cleanup", "done"} => pc \in {"cleanup", "done"} \/ Loop \in WriteLoop
  BY <1>6, <1>s, <1>d DEF WrittenInv
<1>7. ~(Write \/ Call \/ CheckResult \/ Handler \/ HandlerSS \/ CheckOutput \/ SwitchBack)
        => /\ written' = written /\ i' = i
           /\ pc' \notin {"switch_back", "check"} \/ pc' = pc
           /\ pc \notin {"switch_back", "check"} \cup Ended \/ pc' \in Ended \/ pc' = pc
           /\ pc' \in {"cleanup", "done"} => pc \in {"cleanup", "done"} \/ Loop \in WriteLoop
  <2>1. CASE LoopTest
    BY <2>1, SetupIsSetup DEF PlaceInv, LoopTest, Body, Loop, UserLoops, SymLoops
  <2>2. CASE init_file \/ prepare_file \/ init_buffer \/ get_buf
    BY <2>2 DEF init_file, prepare_file, OpenPath, init_buffer, get_buf, AllocateBuffer
  <2>3. CASE ElevateEmulate \/ ElevateEmulateSS \/ ElevateKsys \/ ElevateShortcut
    BY <2>3 DEF ElevateEmulate, ElevateEmulateSS, ElevateKsys, ElevateShortcut, ElevateTo,
                NoSymbol
  <2>4. CASE Switch \/ Save \/ SwitchSS \/ LoadFlags \/ Lower
    BY <2>4 DEF Switch, Save, SwitchSS, LoadFlags, Lower
  <2>5. CASE Cleanup \/ process_latencies
    BY <2>5 DEF Cleanup, process_latencies
  <2>6. CASE Preempt \/ Signal \/ Deliver \/ UNCHANGED vars
    BY <2>6 DEF Preempt, Signal, Deliver, vars
  <2>7. QED
    BY <2>1, <2>2, <2>3, <2>4, <2>5, <2>6 DEF Next
<1>8. QED
  BY <1>1, <1>2, <1>3, <1>4, <1>5, <1>6, <1>7

\* writes.c ends in order only if all bytes were written, as far as an int can
\* tell: the assertion compares modulo its width, and no loop writes more than
\* it was asked to (writes.c:594).
THEOREM DoneIsWritten == Spec => []DoneMeansWritten
<1>1. Init => WrittenInv
  <2>1. Init => setup.size \in Nat /\ 0 * setup.size = 0
    BY SetupIsSetup DEF Init
  <2>2. QED
    BY <2>1 DEF Init, WrittenInv, DoneMeansWritten
<1>2. PlaceInv /\ PlaceInv' /\ WrittenInv /\ [Next]_vars => WrittenInv'
  BY StepKeepsWritten
<1>3. WrittenInv => DoneMeansWritten
  BY DEF WrittenInv
<1>4. QED
  BY <1>1, <1>2, <1>3, PlacesFit, PTL DEF Spec

-----------------------------------------------------------------------------
\* Signals.

\* Counting on, the remainder grows by one or starts again.
LEMMA NextRemainder ==
  ASSUME NEW n \in Nat, NEW p \in Nat \ {0}
  PROVE  /\ n % p \in Nat /\ n % p < p
         /\ (n + 1) % p = 0 \/ (n + 1) % p = (n % p) + 1
<1> DEFINE q == n \div p
<1> DEFINE r == n % p
<1>1. q \in Nat /\ r \in Nat /\ r < p /\ n = p * q + r
  OBVIOUS
<1> HIDE DEF q, r
<1>2. ASSUME r + 1 < p
      PROVE  (n + 1) % p = r + 1
  <2>1. n + 1 = p * q + (r + 1)
    BY <1>1
  <2>2. QED
    BY <1>1, <1>2, <2>1
<1>3. ASSUME ~(r + 1 < p)
      PROVE  (n + 1) % p = 0
  <2>1. n + 1 = p * (q + 1) + 0
    BY <1>1, <1>3
  <2>2. QED
    BY <1>1, <1>3, <2>1
<1>4. QED
  BY <1>1, <1>2, <1>3 DEF r

\* The calls since the signal are those since the last slow path.
LEMMA StepKeepsSignals ==
  ASSUME PlaceInv, SignalInv, PlaceInv', [Next]_vars
  PROVE  SignalInv'
<1> DEFINE rest == i % Period
<1>s. setup' = setup /\ Loop' = Loop /\ Period' = Period
  BY SetupStays DEF Loop, Period
<1>n. /\ i \in Nat /\ Period \in Nat \ {0} /\ rest \in Nat /\ rest < Period
      /\ (i + 1) % Period = 0 \/ (i + 1) % Period = rest + 1
  <2>1. i \in Nat /\ Period \in Nat \ {0}
    BY SetupIsSetup, SizesAssumption DEF PlaceInv, Period
  <2>2. QED
    BY <2>1, NextRemainder
<1>d. (SignalsAreSeen <=> missed < Period) /\ (SignalsAreSeen' <=> missed' < Period)
  BY <1>s DEF SignalsAreSeen, Period, Loop
<1>e. SignalInv' <=> /\ missed' \in Nat /\ pending' \in BOOLEAN /\ (missed' > 0 => pending')
                     /\ missed' < Period
                     /\ pc' \in Before \/ Loop \notin Direct => missed' = 0
                     /\ pc' = "loop" /\ i' % Period # 0 => missed' < i' % Period
                     /\ pc' \in {"switch", "call"} => missed' < i' % Period
                     /\ pc' \in {"switch_back", "check"} => missed' <= i' % Period
  BY <1>s, <1>d DEF SignalInv
<1> HIDE DEF rest
<1> USE DEF Goto, ReturnTo, progress, signals, Before
<1>1. CASE Write
  <2>1. UNCHANGED <<i, missed, pending>> /\ pc' \in {"check", "killed"} /\ (pc' = "check" => ~pending)
    BY <1>1 DEF Write
  <2>2. pc' = "check" => missed' = 0
    BY <2>1 DEF SignalInv
  <2>3. QED
    BY <1>1, <2>1, <2>2, <1>e, <1>n, <1>d DEF Write, SignalInv, rest
<1>2. CASE Call
  <2>1. UNCHANGED <<i, pending>> /\ pc' \in {"switch_back", "check"} /\ Loop \in Direct
    BY <1>2 DEF Call, PlaceInv
  <2>2. missed \in Nat /\ missed < rest
    BY <1>2 DEF Call, SignalInv, rest
  <2>3. missed' = (IF pending THEN missed + 1 ELSE missed)
    BY <1>2 DEF Call
  <2>4. missed' \in Nat /\ missed' <= rest /\ missed' < Period
    BY <2>2, <2>3, <1>n
  <2>5. (missed' > 0 => pending') /\ pending' \in BOOLEAN
    BY <2>1, <2>2, <2>3 DEF SignalInv
  <2>6. i' % Period = rest
    BY <2>1 DEF rest
  <2>7. QED
    BY <2>1, <2>4, <2>5, <2>6, <1>e
<1>3. CASE CheckResult
  <2>1. /\ UNCHANGED <<missed, pending>> /\ pc = "check"
        /\ pc' = "exited" \/ (pc' = "loop" /\ i' = i + 1)
    BY <1>3 DEF CheckResult
  <2>2. missed \in Nat /\ missed <= rest
    BY <2>1 DEF SignalInv, rest
  <2>3. pc' = "loop" /\ i' % Period # 0 => missed' < i' % Period
    BY <2>1, <2>2, <1>n
  <2>4. QED
    BY <2>1, <2>3, <1>e, <1>d DEF SignalInv
<1>4. CASE Handler \/ HandlerSS
  <2>1. UNCHANGED <<missed, pending>> /\ i' = i + 1 /\ pc' \in {"loop", "killed"}
    BY <1>4 DEF Handler, HandlerSS, HandlerRuns
  <2>2. missed = 0
    BY <1>4 DEF Handler, HandlerSS, SignalInv, Direct
  <2>3. i' % Period # 0 => 0 < i' % Period
    BY <2>1, <1>n
  <2>4. QED
    BY <2>1, <2>2, <2>3, <1>e, <1>d DEF SignalInv
<1>5. CASE LoopTest
  <2>1. UNCHANGED <<missed, pending, i>> /\ pc' \notin Before \cup {"loop", "switch_back", "check"}
    BY <1>5, SetupIsSetup DEF LoopTest, PlaceInv, Body, Loop, UserLoops, SymLoops
  <2>2. pc' \in {"switch", "call"} => rest # 0
    <3>1. CASE i < setup.iter /\ Loop \in {"ksys", "ksys_ss", "shortcut"}
      BY <1>5, <3>1 DEF LoopTest, Body, Loop, UserLoops, rest, Period
    <3>2. CASE i < setup.iter /\ Loop \notin {"ksys", "ksys_ss", "shortcut"}
      BY <1>5, <3>2, SetupIsSetup DEF LoopTest, PlaceInv, Body, Loop, UserLoops, SymLoops
    <3>3. CASE ~(i < setup.iter)
      BY <1>5, <3>3 DEF LoopTest
    <3>4. QED
      BY <3>1, <3>2, <3>3
  <2>3. pc' \in {"switch", "call"} => missed' < i' % Period
    BY <1>5, <2>1, <2>2 DEF LoopTest, SignalInv, rest
  <2>4. QED
    BY <2>1, <2>3, <1>e, <1>d DEF SignalInv
<1>6. CASE init_file \/ prepare_file \/ init_buffer \/ get_buf
             \/ ElevateEmulate \/ ElevateEmulateSS \/ ElevateKsys \/ ElevateShortcut
  <2>1. /\ UNCHANGED <<missed, pending, i>> /\ pc \in Before
        /\ pc' \notin {"switch", "call", "switch_back", "check"}
    BY <1>6 DEF init_file, prepare_file, OpenPath, init_buffer, get_buf, AllocateBuffer,
         ElevateEmulate, ElevateEmulateSS, ElevateKsys, ElevateShortcut, ElevateTo, NoSymbol
  <2>2. i' % Period # 0 => 0 < i' % Period
    BY <2>1, <1>n DEF rest
  <2>3. QED
    BY <2>1, <2>2, <1>e, <1>d DEF SignalInv
<1>7. CASE Switch \/ SwitchBack
  BY <1>7, <1>e, <1>d, <1>n DEF Switch, SwitchBack, SignalInv, rest
<1>8. CASE Save \/ SwitchSS \/ LoadFlags \/ Lower
  BY <1>8, <1>e, <1>d DEF Save, SwitchSS, LoadFlags, Lower, SignalInv
<1>9. CASE CheckOutput \/ Cleanup \/ process_latencies \/ Deliver
  BY <1>9, <1>e, <1>d DEF CheckOutput, Cleanup, process_latencies, Deliver, SignalInv
<1>10. CASE Preempt \/ Signal \/ UNCHANGED vars
  BY <1>10, <1>e, <1>d DEF Preempt, Signal, vars, SignalInv
<1>11. QED
  BY <1>1, <1>2, <1>3, <1>4, <1>5, <1>6, <1>7, <1>8, <1>9, <1>10 DEF Next

\* A signal waits for less than the period of the slow path (writes.c:428,
\* write_loop.c:183), whatever the period.
THEOREM SignalsAreNoticed == Spec => []SignalsAreSeen
<1>1. Init => SignalInv
  <2>1. Period \in Nat /\ Period > 0
    BY SizesAssumption DEF Period
  <2>2. Init => SignalsAreSeen
    BY <2>1 DEF Init, SignalsAreSeen, Period
  <2>3. Init => pc \in Before /\ missed = 0 /\ pending = FALSE
    BY DEF Init, Before
  <2>4. Init => missed \in Nat /\ ~(missed > 0)
    BY <2>3
  <2>5. Init => pending \in BOOLEAN
    BY <2>3
  <2>6. Init => pc \notin {"loop", "switch", "call", "switch_back", "check"}
    BY <2>3 DEF Before
  <2>7. QED
    BY <2>2, <2>3, <2>4, <2>5, <2>6 DEF SignalInv
<1>2. PlaceInv /\ PlaceInv' /\ SignalInv /\ [Next]_vars => SignalInv'
  BY StepKeepsSignals
<1>3. SignalInv => SignalsAreSeen
  BY DEF SignalInv
<1>4. QED
  BY <1>1, <1>2, <1>3, PlacesFit, PTL DEF Spec

-----------------------------------------------------------------------------
\* Latencies.

\* Seconds and nanoseconds of two readings of a clock that goes forward.
LEMMA TwoReadings ==
  ASSUME NEW a \in Nat, NEW b \in Nat, a <= b, NEW p \in Nat \ {0}
  PROVE  /\ (b \div p) - (a \div p) = 0 => (b % p) - (a % p) = b - a
         /\ (b \div p) - (a \div p) = 1 => (b % p) - (a % p) + p = b - a
         /\ (b \div p) - (a \div p) \notin {0, 1} => b - a > p
<1> DEFINE qa == a \div p
<1> DEFINE qb == b \div p
<1> DEFINE ra == a % p
<1> DEFINE rb == b % p
<1>1. qa \in Nat /\ ra \in Nat /\ ra < p /\ a = p * qa + ra
  OBVIOUS
<1>2. qb \in Nat /\ rb \in Nat /\ rb < p /\ b = p * qb + rb
  OBVIOUS
<1> HIDE DEF qa, qb, ra, rb
<1>3. qb - qa = 0 => rb - ra = b - a
  BY <1>1, <1>2
<1>4. qb - qa = 1 => rb - ra + p = b - a
  <2>1. ASSUME qb - qa = 1
        PROVE  p * qb = p * qa + p
    BY <1>1, <1>2, <2>1
  <2>2. QED
    BY <1>1, <1>2, <2>1
<1>5. qb >= qa
  <2>1. ASSUME qa >= qb + 1
        PROVE  p * qa >= p * qb + p
    BY <1>1, <1>2, <2>1
  <2>2. QED
    BY <1>1, <1>2, <2>1
<1>6. qb - qa \notin {0, 1} => b - a > p
  <2>1. ASSUME qb >= qa + 2
        PROVE  p * qb >= p * qa + p + p
    BY <1>1, <1>2, <2>1
  <2>2. QED
    BY <1>1, <1>2, <1>5, <2>1
<1>7. QED
  BY <1>3, <1>4, <1>6 DEF qa, qb, ra, rb

\* What process_latencies stores, and when its assertion fails.
LEMMA DifferencesAreExact ==
  ASSUME TimesInv, NEW n \in 1 .. Len(times) - 1
  PROVE  /\ Asserted(n) => Latency(n) = times[n + 1] - times[n]
         /\ ~Asserted(n) => times[n + 1] - times[n] > NSEC
<1>1. times[n] \in Nat /\ times[n + 1] \in Nat /\ times[n] <= times[n + 1] /\ NSEC \in Nat \ {0}
  BY SizesAssumption DEF TimesInv
<1> DEFINE a == times[n]
<1> DEFINE b == times[n + 1]
<1>2. /\ (b \div NSEC) - (a \div NSEC) = 0 => (b % NSEC) - (a % NSEC) = b - a
      /\ (b \div NSEC) - (a \div NSEC) = 1 => (b % NSEC) - (a % NSEC) + NSEC = b - a
      /\ (b \div NSEC) - (a \div NSEC) \notin {0, 1} => b - a > NSEC
  BY <1>1, TwoReadings
<1>3. /\ DiffSec(n) = (b \div NSEC) - (a \div NSEC)
      /\ DiffSec(n) = 1 => Latency(n) = (b % NSEC) - (a % NSEC) + NSEC
      /\ DiffSec(n) = 0 => Latency(n) = (b % NSEC) - (a % NSEC)
  BY <1>1 DEF DiffSec, Latency
<1> HIDE DEF a, b
<1>4. QED
  BY <1>2, <1>3 DEF Asserted, a, b

\* A clock that is read again has gone forward.
LEMMA ReadingsGrow ==
  ASSUME NEW s \in Seq(Nat), Len(s) >= 1, NEW d \in Nat,
         \A n \in 1 .. Len(s) - 1 : s[n] <= s[n + 1],
         NEW t, t = Append(s, s[Len(s)] + d)
  PROVE  /\ t \in Seq(Nat) /\ Len(t) = Len(s) + 1
         /\ \A n \in 1 .. Len(t) - 1 : t[n] <= t[n + 1]
<1>1. s[Len(s)] + d \in Nat
  OBVIOUS
<1>2. t \in Seq(Nat) /\ Len(t) = Len(s) + 1
  BY <1>1
<1>3. ASSUME NEW n \in 1 .. Len(t) - 1
      PROVE  t[n] <= t[n + 1]
  <2>1. CASE n = Len(s)
    BY <1>1, <2>1
  <2>2. CASE n # Len(s)
    BY <1>2, <2>2
  <2>3. QED
    BY <2>1, <2>2
<1>4. QED
  BY <1>2, <1>3

\* The clock readings stay in order, and the latencies are their differences.
LEMMA StepKeepsTimes ==
  ASSUME PlaceInv, TimesInv, PlaceInv', [Next]_vars
  PROVE  TimesInv'
<1>s. setup' = setup /\ Loop' = Loop
  BY SetupStays DEF Loop
<1>t. setup.latency \in BOOLEAN /\ setup.iter \in Nat /\ (setup.latency => Loop \in WriteLoop)
  BY SetupIsSetup DEF PlaceInv
<1> USE DEF Goto, ReturnTo, progress, clocks
<1>1. CASE CheckResult
  <2>1. pc = "check" /\ latencies' = latencies /\ latencies = <<>>
    BY <1>1 DEF CheckResult, TimesInv
  <2>2. LatenciesExact'
    <3>1. pc' # "aborted"
      BY <1>1 DEF CheckResult
    <3>2. Len(latencies') = 0
      BY <2>1
    <3>3. QED
      BY <3>1, <3>2 DEF LatenciesExact
  <2>3. CASE pc' = "loop" /\ i' = i + 1 /\ setup.latency
    <3>1. Len(times) = i + 1 /\ i \in Nat
      BY <2>3 DEF TimesInv, PlaceInv
    <3>2. PICK d \in Durations : times' = Append(times, times[Len(times)] + d)
      BY <1>1, <2>3 DEF CheckResult
    <3>3. d \in Nat
      BY SizesAssumption
    <3>4. /\ times' \in Seq(Nat) /\ Len(times') = Len(times) + 1
          /\ \A n \in 1 .. Len(times') - 1 : times'[n] <= times'[n + 1]
      <4>1. times \in Seq(Nat) /\ Len(times) >= 1
            /\ \A n \in 1 .. Len(times) - 1 : times[n] <= times[n + 1]
        BY <3>1 DEF TimesInv
      <4>2. QED
        BY <3>2, <3>3, <4>1, ReadingsGrow
    <3>5. QED
      BY <2>1, <2>2, <2>3, <3>1, <3>4, <1>s DEF TimesInv
  <2>4. CASE pc' = "loop" /\ ~setup.latency
    BY <1>1, <2>1, <2>2, <2>4, <1>s DEF CheckResult, TimesInv
  <2>5. CASE pc' = "exited"
    BY <1>1, <2>1, <2>2, <2>5, <1>s DEF CheckResult, TimesInv
  <2>6. QED
    BY <1>1, <1>t, <2>3, <2>4, <2>5 DEF CheckResult
<1>2. CASE process_latencies
  <2>1. /\ UNCHANGED <<setup, i, times>> /\ pc = "after" /\ i = setup.iter /\ latencies = <<>>
        /\ Loop \in WriteLoop
    BY <1>2 DEF process_latencies, TimesInv, PlaceInv, After
  <2>2. LatenciesExact' /\ (pc' # "done" => latencies' = <<>>)
    <3>1. CASE ~setup.latency
      <4>1. pc' = "done" /\ latencies' = <<>>
        BY <1>2, <2>1, <3>1 DEF process_latencies
      <4>2. Len(latencies') = 0
        BY <4>1
      <4>3. QED
        BY <4>1, <4>2 DEF LatenciesExact
    <3>2. CASE setup.latency /\ \A n \in 1 .. setup.iter : Asserted(n)
      <4>1. \A n \in 1 .. setup.iter : Latency(n) = times[n + 1] - times[n]
        BY <2>1, <3>2, <1>t, DifferencesAreExact DEF TimesInv
      <4>2. CASE latencies' = [n \in 1 .. setup.iter |-> Latency(n)] /\ pc' = "done"
        <5>1. Len(latencies') = setup.iter
          BY <4>2, <1>t
        <5>2. QED
          BY <2>1, <4>1, <4>2, <5>1 DEF LatenciesExact
      <4>3. CASE latencies' = <<>> /\ pc' = "exited"
        <5>1. Len(latencies') = 0
          BY <4>3
        <5>2. QED
          BY <4>3, <5>1 DEF LatenciesExact
      <4>4. QED
        BY <1>2, <2>1, <3>2, <4>2, <4>3 DEF process_latencies
    <3>3. CASE setup.latency /\ ~(\A n \in 1 .. setup.iter : Asserted(n))
      <4>1. pc' = "aborted" /\ latencies' = <<>>
        BY <1>2, <2>1, <3>3 DEF process_latencies
      <4>2. Len(latencies') = 0
        BY <4>1
      <4>3. PICK n \in 1 .. setup.iter : ~Asserted(n)
        BY <3>3
      <4>4. times[n + 1] - times[n] > NSEC
        BY <2>1, <3>3, <4>3, <1>t, DifferencesAreExact DEF TimesInv
      <4>5. QED
        BY <2>1, <4>1, <4>2, <4>4 DEF LatenciesExact
    <3>4. QED
      BY <3>1, <3>2, <3>3, <1>t
  <2>3. QED
    BY <2>1, <2>2 DEF TimesInv
<1>3. CASE UNCHANGED <<times, latencies>>
           /\ (setup.latency => i' = i)
           /\ (pc' = "done" \/ pc # "done")
           /\ (pc' = "aborted" => pc = "aborted" \/ Loop \notin WriteLoop)
  <2>1. LatenciesExact'
    BY <1>3, <1>s DEF LatenciesExact, TimesInv
  <2>2. QED
    BY <1>3, <1>s, <2>1 DEF TimesInv
<1>4. ~(CheckResult \/ process_latencies)
        => UNCHANGED <<times, latencies>>
           /\ (setup.latency => i' = i)
           /\ (pc' = "done" \/ pc # "done")
           /\ (pc' = "aborted" => pc = "aborted" \/ Loop \notin WriteLoop)
  <2>1. CASE LoopTest
    BY <2>1, SetupIsSetup DEF PlaceInv, LoopTest, Body, Loop, UserLoops, SymLoops
  <2>2. CASE init_file \/ prepare_file \/ init_buffer \/ get_buf
    BY <2>2 DEF init_file, prepare_file, OpenPath, init_buffer, get_buf, AllocateBuffer
  <2>3. CASE ElevateEmulate \/ ElevateEmulateSS \/ ElevateKsys \/ ElevateShortcut
    BY <2>3 DEF ElevateEmulate, ElevateEmulateSS, ElevateKsys, ElevateShortcut, ElevateTo,
                NoSymbol
  <2>4. CASE Write \/ Switch \/ Call \/ SwitchBack \/ Save \/ SwitchSS \/ LoadFlags \/ Lower
    BY <2>4 DEF Write, Switch, Call, SwitchBack, Save, SwitchSS, LoadFlags, Lower
  <2>5. CASE Handler \/ HandlerSS
    BY <2>5, <1>t DEF Handler, HandlerSS, HandlerRuns, WriteLoop
  <2>6. CASE CheckOutput \/ Cleanup
    BY <2>6 DEF CheckOutput, Cleanup
  <2>7. CASE Preempt \/ Signal \/ Deliver \/ UNCHANGED vars
    BY <2>7 DEF Preempt, Signal, Deliver, vars, Ended
  <2>8. QED
    BY <2>1, <2>2, <2>3, <2>4, <2>5, <2>6, <2>7 DEF Next
<1>5. QED
  BY <1>1, <1>2, <1>3, <1>4

\* The stored latencies are the times the writes took, and the assertion of
\* write_loop.c:101 fails only for a write of more than a second, however many
\* nanoseconds a second has and wherever its boundaries fall.
THEOREM LatenciesAreExact == Spec => []LatenciesExact
<1>1. Init => TimesInv
  <2>1. <<0>> \in Seq(Nat) /\ Len(<<0>>) = 1 /\ Len(<<>>) = 0
    OBVIOUS
  <2>2. Init => LatenciesExact
    BY <2>1 DEF Init, LatenciesExact
  <2>3. QED
    BY <2>1, <2>2 DEF Init, TimesInv
<1>2. PlaceInv /\ PlaceInv' /\ TimesInv /\ [Next]_vars => TimesInv'
  BY StepKeepsTimes
<1>3. TimesInv => LatenciesExact
  BY DEF TimesInv
<1>4. QED
  BY <1>1, <1>2, <1>3, PlacesFit, PTL DEF Spec
=============================================================================
