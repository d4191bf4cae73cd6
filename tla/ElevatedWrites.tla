--------------------------- MODULE ElevatedWrites ---------------------------
(***************************************************************************)
(* The write benchmarks: a process that writes a buffer `iter' times, by   *)
(* system calls or, elevated by Symbiote, by calling into the kernel.      *)
(* writes.c has seven such loops, chosen by a test number; write_loop.c    *)
(* has two, with and without SYM_SHORTCUT, and write_loop.cc repeats the   *)
(* second.  Stack, interrupt flag and privilege are state of the one CPU   *)
(* the process runs on; the kernel may take it away (Preempt), somebody    *)
(* may send it a signal.                                                   *)
(*                                                                         *)
(* Sources: src/symbiote/variations_on_write/writes.c,                     *)
(* src/write_loop/write_loop.c, src/cpp/write_loop.cc.  External: Symlib   *)
(* (sym_elevate, sym_lower) and the kernel.                                *)
(***************************************************************************)
EXTENDS Integers, Sequences

CONSTANTS
  Setups,      \* [loop, path : {"file", "/dev/null"}, exists, iter, size, preemptible,
               \*  latency]: a command line, its file system, kernel and build
  KSYS_PERIOD, \* writes.c:428: 10
  SC_PERIOD,   \* write_loop.c:183: 20
  INT_SIZE,    \* the values of an int: 2^32
  NSEC,        \* nanoseconds of a second
  Durations    \* what a write may take, in nanoseconds

UserLoops == {"glibc", "wrapper", "raw", "plain"}
SymLoops == {"emulate", "emulate_ss", "ksys", "ksys_ss", "shortcut"}
WriteLoop == {"plain", "shortcut"}  \* the loops of write_loop.c

\* The loop that the test number of the command line chooses.
run_selected_test(id) ==
  CASE id = 0 -> "glibc" [] id = 1 -> "wrapper" [] id = 2 -> "raw" [] id = 3 -> "emulate"
    [] id = 4 -> "emulate_ss" [] id = 6 -> "ksys" [] id = 7 -> "ksys_ss" [] OTHER -> "none"

ASSUME SetupsAssumption ==
  \A s \in Setups : /\ s.loop \in UserLoops \cup SymLoops \cup {"none"}
                    /\ s.path \in {"file", "/dev/null"} /\ (s.path = "/dev/null" => s.exists)
                    /\ s.exists \in BOOLEAN /\ s.preemptible \in BOOLEAN
                    /\ s.iter \in Nat \ {0} /\ s.size \in Nat \ {0}
                    /\ s.latency \in BOOLEAN /\ (s.latency => s.loop \in WriteLoop)
ASSUME SizesAssumption ==
  /\ {KSYS_PERIOD, SC_PERIOD, INT_SIZE, NSEC} \subseteq Nat \ {0}
  /\ Durations \subseteq Nat

VARIABLES
  setup, pc,
  i, rc,           \* iterations done, what the last write returned
  cs, iflag, rsp,  \* privilege, interrupt flag, the stack in use
  rsp_squirrel,    \* the user stack as stack_switch_to_kern put it away
  sp2,             \* the word at gs:0x6014, which all processes of a CPU share
  user_flags,      \* the interrupt flag as pushf saw it
  written, exists, \* bytes in the file; whether path names something
  pending, missed, \* a signal waits; history: direct writes it waited for
  times, latencies \* clock readings in nanoseconds; what process_latencies stores

progress == <<setup, i>>
cpu == <<cs, iflag, rsp, rsp_squirrel, sp2, user_flags>>
file == <<written, exists>>
signals == <<pending, missed>>
clocks == <<times, latencies>>
vars == <<progress, pc, cpu, file, rc, signals, clocks>>

ENOSPC == 28
Ended == {"done", "exited", "aborted", "killed"}
Goto(place) == pc' = place
Loop == setup.loop

Init ==
  /\ setup \in Setups
  /\ pc = IF Loop = "shortcut" THEN "elevate" ELSE IF Loop = "plain" THEN "buffer" ELSE "file"
  /\ i = 0 /\ rc = 0
  /\ cs = "user" /\ iflag = TRUE /\ rsp = "user"
  /\ rsp_squirrel = "none" /\ sp2 = "other" /\ user_flags = TRUE
  /\ written = 0 /\ exists = setup.exists
  /\ pending = FALSE /\ missed = 0
  /\ times = <<0>> /\ latencies = <<>>

\* A system call returns: a signal that waits is noticed now.
ReturnTo(place) == Goto(IF pending THEN "killed" ELSE place)

-----------------------------------------------------------------------------
\* Before the loop.  write_loop elevates first, so its exits here are elevated.

\* The path is removed, unless it is /dev/null, and opened; either may fail.
OpenPath(next) ==
  /\ pc = "file"
  /\ \/ exists' = TRUE /\ Goto(next)
     \/ Goto("exited")
        /\ exists' \in {exists} \cup (IF setup.path = "file" THEN {FALSE} ELSE {})
  /\ UNCHANGED <<progress, cpu, written, rc, signals, clocks>>

init_file == Loop \notin WriteLoop /\ OpenPath("buffer")
prepare_file == Loop \in WriteLoop /\ OpenPath("loop")

\* malloc, which may fail; then a test of writes.c, which may not exist.
AllocateBuffer(next) ==
  /\ pc = "buffer" /\ pc' \in {next, "exited"}
  /\ UNCHANGED <<progress, cpu, file, rc, signals, clocks>>

init_buffer ==
  /\ Loop \notin WriteLoop
  /\ AllocateBuffer(CASE Loop = "none" -> "exited" [] Loop \in SymLoops -> "elevate"
                      [] OTHER -> "loop")
get_buf == Loop \in WriteLoop /\ AllocateBuffer("file")

ElevateTo(next) ==
  /\ pc = "elevate" /\ cs' = "kernel" /\ Goto(next)
  /\ UNCHANGED <<progress, iflag, rsp, rsp_squirrel, sp2, user_flags, file, rc, signals, clocks>>

\* The kernel has no symbol of the name that is to be called.
NoSymbol ==
  /\ pc = "elevate" /\ Goto("exited")
  /\ UNCHANGED <<progress, cpu, file, rc, signals, clocks>>

ElevateEmulate == Loop = "emulate" /\ ElevateTo("loop")
ElevateEmulateSS == Loop = "emulate_ss" /\ (ElevateTo("loop") \/ NoSymbol)
ElevateKsys == Loop \in {"ksys", "ksys_ss"} /\ (ElevateTo("loop") \/ NoSymbol)
ElevateShortcut == Loop = "shortcut" /\ ElevateTo("buffer")

-----------------------------------------------------------------------------
\* The loops.

\* Mutant: the slow path is taken the first time only.
BodyOnce ==
  CASE Loop \in UserLoops -> "write"
    [] Loop = "emulate" -> "flags"
    [] Loop = "emulate_ss" -> "save"
    [] Loop = "ksys" -> IF i = 0 THEN "write" ELSE "call"
    [] Loop = "ksys_ss" -> IF i = 0 THEN "write" ELSE "switch"
    [] Loop = "shortcut" -> IF i = 0 THEN "write" ELSE "call"

\* Where an iteration starts: every tenth, or twentieth, is a system call.
Body ==
  CASE Loop \in UserLoops -> "write"
    [] Loop = "emulate" -> "flags"
    [] Loop = "emulate_ss" -> "save"
    [] Loop = "ksys" -> IF i % KSYS_PERIOD = 0 THEN "write" ELSE "call"
    [] Loop = "ksys_ss" -> IF i % KSYS_PERIOD = 0 THEN "write" ELSE "switch"
    [] Loop = "shortcut" -> IF i % SC_PERIOD = 0 THEN "write" ELSE "call"

LoopTest ==
  /\ pc = "loop"
  /\ Goto(IF i < setup.iter THEN Body ELSE IF Loop \in SymLoops THEN "lower" ELSE "after")
  /\ UNCHANGED <<progress, cpu, file, rc, signals, clocks>>

\* The kernel writes some of the buffer, or fails with `error'.
Carry(error) ==
  /\ rc' \in (1 .. setup.size) \cup {error}
  /\ written' = written + (IF rc' > 0 THEN rc' ELSE 0)
  /\ UNCHANGED exists

\* A system call: glibc turns the error into -1, the raw instruction does not.
Write ==
  /\ pc = "write"
  /\ Carry(IF Loop = "raw" THEN -ENOSPC ELSE -1)
  /\ ReturnTo("check")
  /\ UNCHANGED <<progress, cpu, signals, clocks>>

\* Mutant: the user stack is put away after the switch.
SwitchFirst ==
  /\ pc = "switch" /\ rsp' = "kernel" /\ rsp_squirrel' = rsp'
  /\ Goto("call")
  /\ UNCHANGED <<progress, cs, iflag, sp2, user_flags, file, rc, signals, clocks>>

\* cli, stack_switch_to_kern, sti: nothing comes between.
Switch ==
  /\ pc = "switch" /\ rsp' = "kernel" /\ rsp_squirrel' = rsp
  /\ Goto("call")
  /\ UNCHANGED <<progress, cs, iflag, sp2, user_flags, file, rc, signals, clocks>>

\* ksys_write, called directly; no signal is looked for on the way back.
Call ==
  /\ pc = "call"
  /\ Carry(-ENOSPC)
  /\ Goto(IF Loop = "ksys_ss" THEN "switch_back" ELSE "check")
  /\ missed' = IF pending THEN missed + 1 ELSE missed
  /\ UNCHANGED <<progress, cpu, pending, clocks>>

\* cli, stack_switch_to_user, sti.
SwitchBack ==
  /\ pc = "switch_back" /\ rsp' = rsp_squirrel
  /\ Goto("check")
  /\ UNCHANGED <<progress, cs, iflag, rsp_squirrel, sp2, user_flags, file, rc, signals, clocks>>

\* What the code after the write takes for an error.
Detected ==
  CASE Loop = "raw" \/ Loop \in WriteLoop -> rc = -1
    [] OTHER -> rc < 0

CheckResult ==
  /\ pc = "check"
  /\ IF Detected THEN Goto("exited") /\ UNCHANGED <<i, times>>
     ELSE /\ Goto("loop") /\ i' = i + 1
          /\ IF setup.latency
               THEN \E d \in Durations : times' = Append(times, times[Len(times)] + d)
               ELSE UNCHANGED times
  /\ UNCHANGED <<setup, cpu, file, rc, signals, latencies>>

\* Test 4 puts its stack where the entry code of the kernel would: the two
\* instructions run with interrupts on.
Save ==
  /\ pc = "save" /\ sp2' = rsp
  /\ Goto("switch_ss")
  /\ UNCHANGED <<progress, cs, iflag, rsp, rsp_squirrel, user_flags, file, rc, signals, clocks>>

SwitchSS ==
  /\ pc = "switch_ss" /\ rsp' = "kernel"
  /\ Goto("flags")
  /\ UNCHANGED <<progress, cs, iflag, rsp_squirrel, sp2, user_flags, file, rc, signals, clocks>>

\* Mutant: the mask is applied the wrong way round.
MaskedFlagsKept(flag) == flag

\* get_fmask_comp: IA32_FMASK names the interrupt flag, its complement clears it.
MaskedFlags(flag) == FALSE

\* pushf, then popf of the masked flags.
LoadFlags ==
  /\ pc = "flags" /\ user_flags' = iflag /\ iflag' = MaskedFlags(iflag)
  /\ Goto("handler")
  /\ UNCHANGED <<progress, cs, rsp, rsp_squirrel, sp2, file, rc, signals, clocks>>

\* ret into the handler, which gives back the flags of r11.  Nobody looks at the
\* result.
HandlerRuns ==
  /\ pc = "handler"
  /\ Carry(-ENOSPC)
  /\ i' = i + 1 /\ iflag' = user_flags
  /\ ReturnTo("loop")
  /\ UNCHANGED <<setup, cs, rsp_squirrel, sp2, user_flags, signals, clocks>>

\* Entered at its beginning the handler leaves the stack it found.
Handler == Loop = "emulate" /\ HandlerRuns /\ UNCHANGED rsp

\* Entered after its own switch, as in test 4, it gives back the stack that its
\* first instruction would have put away.
HandlerSS == Loop = "emulate_ss" /\ HandlerRuns /\ rsp' = sp2

Lower ==
  /\ pc = "lower" /\ cs' = "user"
  /\ ReturnTo("after")
  /\ UNCHANGED <<progress, iflag, rsp, rsp_squirrel, sp2, user_flags, file, rc, signals, clocks>>

-----------------------------------------------------------------------------
\* After the loop.

FileSize == IF setup.path = "file" THEN written ELSE 0  \* lseek, an int

\* Mutant: the assertion is compiled out.
CheckOutputUnasserted ==
  /\ pc = "after" /\ Loop \notin WriteLoop
  /\ Goto("cleanup")
  /\ UNCHANGED <<progress, cpu, file, rc, signals, clocks>>

\* assert(file_sz == (int)(p->iter * p->size))
CheckOutput ==
  /\ pc = "after" /\ Loop \notin WriteLoop
  /\ \/ Goto("exited")  \* lseek fails
     \/ Goto(IF FileSize % INT_SIZE = (setup.iter * setup.size) % INT_SIZE
               THEN "cleanup" ELSE "aborted")
  /\ UNCHANGED <<progress, cpu, file, rc, signals, clocks>>

\* cleanup removes the path, whatever it names.
Cleanup ==
  /\ pc = "cleanup"
  /\ \/ exists' = FALSE /\ Goto("done")
     \/ UNCHANGED exists /\ Goto("exited")
  /\ UNCHANGED <<progress, cpu, written, rc, signals, clocks>>

\* The difference of two clock readings as process_latencies takes it.
DiffSec(n) == (times[n + 1] \div NSEC) - (times[n] \div NSEC)

\* Mutant: the second between two readings is forgotten.
LatencyNoCarry(n) == (times[n + 1] % NSEC) - (times[n] % NSEC)

Latency(n) == (times[n + 1] % NSEC) - (times[n] % NSEC) + (IF DiffSec(n) = 1 THEN NSEC ELSE 0)

Asserted(n) == DiffSec(n) \in {0, 1}

process_latencies ==
  /\ pc = "after" /\ Loop \in WriteLoop
  /\ IF ~setup.latency THEN Goto("done") /\ UNCHANGED latencies
     ELSE IF \A n \in 1 .. setup.iter : Asserted(n)
       THEN \/ latencies' = [n \in 1 .. setup.iter |-> Latency(n)] /\ Goto("done")
            \/ UNCHANGED latencies /\ Goto("exited")  \* latencies.txt cannot be written
       ELSE Goto("aborted") /\ UNCHANGED latencies
  /\ UNCHANGED <<progress, cpu, file, rc, signals, times>>

-----------------------------------------------------------------------------
\* The rest of the machine.

\* Another process runs on this CPU: whenever interrupts are on, and kernel code
\* only if the kernel is preemptible.
Preempt ==
  /\ pc \notin Ended /\ iflag /\ (cs = "user" \/ setup.preemptible)
  /\ sp2' = "other"
  /\ UNCHANGED <<progress, pc, cs, iflag, rsp, rsp_squirrel, user_flags, file, rc, signals, clocks>>

\* A signal that ends the process is sent; in user mode the next interrupt
\* delivers it.
Signal ==
  /\ pc \notin Ended /\ ~pending /\ pending' = TRUE
  /\ UNCHANGED <<progress, pc, cpu, file, rc, missed, clocks>>

Deliver ==
  /\ pc \notin Ended /\ pending /\ cs = "user"
  /\ Goto("killed")
  /\ UNCHANGED <<progress, cpu, file, rc, signals, clocks>>

Next ==
  \/ init_file \/ prepare_file \/ init_buffer \/ get_buf
  \/ ElevateEmulate \/ ElevateEmulateSS \/ ElevateKsys \/ ElevateShortcut
  \/ LoopTest \/ Write \/ Switch \/ Call \/ SwitchBack \/ CheckResult
  \/ Save \/ SwitchSS \/ LoadFlags \/ Handler \/ HandlerSS \/ Lower
  \/ CheckOutput \/ Cleanup \/ process_latencies
  \/ Preempt \/ Signal \/ Deliver

Spec == Init /\ [][Next]_vars

-----------------------------------------------------------------------------
\* The user stack comes back from every detour: outside the switched part of an
\* iteration, at the error exits and at the end the process is on it, also when
\* it was preempted on the way (writes.c:434-447).  In test 4 the word at
\* gs:0x6014 is anybody's as soon as the kernel may preempt its own code.
StackComesBack ==
  rsp # "user" => \/ pc \in {"call", "switch_back"} /\ Loop = "ksys_ss"
                  \/ pc \in {"flags", "handler"} /\ Loop = "emulate_ss"
                  \/ Loop = "emulate_ss" /\ setup.preemptible

\* Kernel code is entered as it expects: privileged, the system call handler
\* with interrupts off and the others with interrupts on (writes.c:294-299,
\* :436-446).  A loop that is left in order gives both back before the file is
\* checked or removed; an unelevated one never had the privilege.
PrivilegeReturned ==
  /\ pc \in {"call", "switch", "switch_back", "save", "switch_ss", "flags", "handler"} => cs = "kernel"
  /\ iflag <=> pc # "handler"
  /\ pc \in {"lower", "after", "cleanup", "done", "aborted"} \/ Loop \notin SymLoops =>
       (cs = "kernel" <=> pc = "lower")

\* A signal waits for less than the period of the slow path, which is there as
\* an "Opportunity to catch a signal" (writes.c:88, :428, write_loop.c:183).
SignalsAreSeen ==
  missed < IF Loop = "shortcut" THEN SC_PERIOD ELSE KSYS_PERIOD

\* writes.c ends in order only if all was written, in every loop, also those
\* that miss errors or short writes (as far as an int can tell, writes.c:594).
DoneMeansWritten ==
  (/\ pc \in {"cleanup", "done"} /\ Loop \notin WriteLoop /\ setup.path = "file"
   /\ setup.iter * setup.size < INT_SIZE)
    => written = setup.iter * setup.size

\* /dev/null, which init_file takes care not to remove (writes.c:546), outlives
\* cleanup, unless the bytes written are a multiple of what an int can count.
NullDeviceStays ==
  setup.path = "/dev/null" /\ (setup.iter * setup.size) % INT_SIZE # 0 => exists

\* The latencies are the times the writes took, across any number of second
\* boundaries, and the assertion of write_loop.c:101 stops the program only if a
\* write took longer than a second.
LatenciesExact ==
  /\ \A n \in 1 .. Len(latencies) : latencies[n] = times[n + 1] - times[n]
  /\ pc = "aborted" /\ Loop \in WriteLoop =>
       \E n \in 1 .. setup.iter : times[n + 1] - times[n] > NSEC
-----------------------------------------------------------------------------
\* What the properties rest on: the places of an iteration, of its loop, and
\* what holds on the way.
WriteSteps == {"write", "switch", "call", "switch_back", "check"}
EmulateSteps == {"save", "switch_ss", "flags", "handler"}
Within == WriteSteps \cup EmulateSteps
Before == {"file", "buffer", "elevate"}
After == {"after", "cleanup", "done", "aborted"}
Direct == {"ksys", "ksys_ss", "shortcut"}  \* the loops that call ksys_write

\* Each place belongs to the loops that have it, and tells how far they are.
PlaceInv ==
  /\ setup \in Setups /\ i \in 0 .. setup.iter
  /\ pc \in Before => i = 0
  /\ pc \in Within => i < setup.iter
  /\ pc \in {"lower"} \cup After => i = setup.iter
  /\ pc \in WriteSteps => Loop \in UserLoops \cup Direct
  /\ pc = "call" => Loop \in Direct
  /\ pc \in {"switch", "switch_back"} => Loop = "ksys_ss"
  /\ pc \in EmulateSteps => Loop \in {"emulate", "emulate_ss"}
  /\ pc \in {"save", "switch_ss"} => Loop = "emulate_ss"
  /\ pc \in {"elevate", "lower"} => Loop \in SymLoops
  /\ pc = "loop" => Loop # "none"
  /\ pc = "cleanup" => Loop \notin WriteLoop

\* Who is privileged, and that pushf always sees interrupts on.
CpuInv ==
  /\ Loop \in SymLoops /\ pc \in Within \cup {"loop", "lower"} => cs = "kernel"
  /\ Loop = "shortcut" /\ pc \in {"buffer", "file"} => cs = "kernel"
  /\ pc \in After \/ Loop \notin SymLoops => cs = "user"
  /\ user_flags = TRUE /\ iflag = (pc # "handler")

\* The user stack is where the way back looks for it.
StackInv ==
  /\ StackComesBack
  /\ pc \in {"call", "switch_back"} /\ Loop = "ksys_ss" => rsp_squirrel = "user"
  /\ pc \in {"switch_ss", "flags", "handler"} /\ Loop = "emulate_ss" /\ ~setup.preemptible
       => sp2 = "user"

\* /dev/null is there, or only cleanup can have removed it.
NullInv ==
  /\ NullDeviceStays
  /\ pc = "cleanup" /\ setup.path = "/dev/null" => (setup.iter * setup.size) % INT_SIZE = 0

\* Iterations write at most one buffer each.
WrittenInv ==
  /\ written \in Nat
  /\ pc \in {"switch_back", "check"} => written <= (i + 1) * setup.size
  /\ pc \notin {"switch_back", "check"} \cup Ended => written <= i * setup.size
  /\ DoneMeansWritten

Period == IF Loop = "shortcut" THEN SC_PERIOD ELSE KSYS_PERIOD

\* A signal was missed by direct writes only, since the last slow one.
SignalInv ==
  /\ missed \in Nat /\ pending \in BOOLEAN /\ (missed > 0 => pending)
  /\ SignalsAreSeen
  /\ pc \in Before \/ Loop \notin Direct => missed = 0
  /\ pc = "loop" /\ i % Period # 0 => missed < i % Period
  /\ pc \in {"switch", "call"} => missed < i % Period
  /\ pc \in {"switch_back", "check"} => missed <= i % Period

\* The clock is read once an iteration, and does not go back.
TimesInv ==
  /\ times \in Seq(Nat)
  /\ setup.latency => Len(times) = i + 1
  /\ \A n \in 1 .. Len(times) - 1 : times[n] <= times[n + 1]
  /\ pc # "done" => latencies = <<>>
  /\ LatenciesExact
=============================================================================
