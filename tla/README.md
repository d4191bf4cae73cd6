# A verification project for the Linux prototypes

The repository collects prototypes of a "symbiotic" Linux, in which a process may run
kernel code directly. Most of them are one straight line of calls. The one that is a
system is the **IPC server** (`src/shmem_ipc`, documented by `src/ipc_demo/ipc_demo.ipynb`):
an elevated server performs system calls for unprivileged clients that talk to it through
shared memory, without a single atomic instruction on the client side. The project starts
there; the smaller protocols and programs that have an order of steps to get wrong follow.

## 1. Inventory

### The IPC server (modelled)

| part | state | operations |
|---|---|---|
| workspace (`ipc.h`, `ipc.c`) | `MAX_JOB_BUFFERS` job request buffers, each with `pid`, `cmd`, `arg1`, `response`, `status` and the bytes to write; the name `sym_server_shm` | created, sized, mapped and zeroed by `ipc_connect_server`; unlinked by `ipc_close` |
| server threads (`server.c`) | one spin lock per slot, `registered_fds` (borrowed descriptors per slot and client descriptor), `bShouldExit`; per thread `idx` and `clientfd` | `workspace_thread`: poll, serve one job, mark completed, unlock |
| client library (`ipc.c`) | nothing but the pointer to its buffer | `ipc_get_job_buffer`, `submit_job_request`, `wait_for_job_completion`, `disconnect_job_buffer` |
| `server_killer` | the number of kills left | a new buffer and one `CMD_KILL_SERVER` per kill |
| benchmark client and scripts | none | timing loops, not modelled |

They interact through plain loads and stores only. A client writes its request and then
`status`; a server thread reads `status` under the slot's try-lock, reads the request, may
borrow the client's descriptor with `pidfd_getfd`, writes `response` and then `status`.
There is no message, no wake-up and no timeout: everyone spins.

What is hard: two clients that claim a slot at once; two threads at one slot; the order of
the answer, the unlock and the next submission; the cache of borrowed descriptors, which
must not outlive the descriptor or the client it was made for; the order in which an
optimising compiler lets the stores of `disconnect_job_buffer` reach memory; a client that
dies with a slot in its hands; a shutdown that is one job per thread; polling that must
not pass anyone over.

What makes it correct: a slot has one owner; a job that is answered was carried out once;
an answer is final, so that the buffer may be reused at once; the bytes reach the file the
client's descriptor denotes; a free slot remembers nobody; a submitted job is answered;
`server_killer` with the number of threads ends the server.

### The other prototypes

| part | state and operations | what is hard there | correct when |
|---|---|---|---|
| `pt_walker` (four walkers, modelled) | page tables, the areas of a process, counts | the kernel changes the tables meanwhile, large pages, absent tables | a walk reads tables only, misses no page that stays and invents none, and counts right |
| `symbiote/variations_on_write` (modelled) | privilege, stack, interrupt flag, a file, one iteration counter; set-up, one of seven loops, check, cleanup | stack switches with interrupts on, preemption, error exits, signals that nobody looks for, results nobody looks at, `int` arithmetic | the process is back on its stack and unprivileged after the loop, the kernel is entered as it expects, done means written, `/dev/null` stays |
| `write_loop`, `cpp` (modelled); `go`, `read_loop`, `wr_rd`, the interposer (not modelled) | a file, an array of clock readings | as above in the elevated build; the boundary of a second | latencies are the times the writes took |
| `send/send.c` (modelled) | parent and child per round, two pipes, a socket file | a socket file left behind, a child or a parent that is killed, `SIGPIPE` | a clean round connects to its own child, a bad round does not spoil the next, every start ends |
| `send/send_recv_python_c` (modelled) | two processes on a socket pair, both send first | bounded buffers, partial receives, close with data in flight | both keep in step and end, a slow or short partner ends nobody |
| `repeat_reboot` (modelled) | a run counter on disk, a crontab entry | the machine goes down between run and counter, or inside the write; nothing remembers that the experiment has ended | the counter tells the truth, runs are repeated only when cut off or after the end, the script completes |
| `pass_fd` (not modelled) | an owner publishes pid and descriptor in files, a borrower reads them | ordered by sleeps, files not truncated | the borrower gets the owner's descriptor or reports an error |
| `io_uring/unroll_*` (not modelled) | one submission entry, a ring passed by value | the entry is taken once, completions marked seen or not | every round writes once and waits for its own completion |
| `benchmark`, `getpid`, `fork` | none | nothing to interleave | not modelled |
| `symbiote/get_*`, `task_struct`, `idt`, `pt_reg`, `macro_concat`, `variadic`, `backtrace` | none | layout questions a compiler answers | not modelled |
| `oot_module`, `java`, `python`, `rust`, `constructors`, `*_asm` | none | one call each | not modelled |
| `linuxSO`, `redis`, `mcd`, `fio`, `nop`, `migrate` | none | recipes and recorded output | not modelled |

`PROJECT.json` lists the same parts with their files, and every hazard at its line.

## 2. Modules

| module | models | kind |
|---|---|---|
| `Workspace` | `ipc.h`, the shared memory object, the clients' descriptor tables | constants, shared state |
| `WorkspaceServer` | `server.c` | one action per statement of `workspace_thread` that shares state |
| `WorkspaceClient` | `ipc.c`, `server_killer.c`, the client of the notebook | one action per shared load or store |
| `IpcSystem` | the composition, with all properties | `Init`, `Next`, `Spec`, `FairSpec` |
| `JobService` | what the server promises, without locks, threads and stages: a seat for everyone in session, each job carried out once and then answered | abstract specification |
| `PageTables` | page tables as the walkers see them, faults and reclaim | constants, shared state |
| `PageWalk` | `pt_walker.c`, `walkmod.c`, `user.c` with `kmod.c` | one action per entry read, with the kernel beside it |
| `MCPageWalk` | areas and large pages of the instances | for TLC |
| `MCIpcSystem` | the symmetry of the instances | for TLC |
| `ElevatedWrites` | `writes.c`, `write_loop.c`, `write_loop.cc` | one action per statement that writes, switches or may be preempted, with the kernel beside it |
| `SendBench` | `send.c` | one action per system call, kills and restarts beside it |
| `SocketPair` | `socket_comm.c`, `socket_comm.py` | one action per piece sent or received |
| `RepeatReboot` | `rep_reboot.py`, `do.py` | one action per statement that touches the disk, reboots beside it |
| `MCElevatedWrites`, `MCSocketPair` | command lines and sizes of the instances | for TLC |
| `IpcSessionProofs` | types, locks and sessions of `IpcSystem` | proofs |
| `IpcServiceProofs`, `IpcFileProofs` | stages and the refinement of `JobService`; borrowed files and wiped slots. Both extend `IpcSessionProofs` | proofs |
| `PageWalkProofs`, `ElevatedWritesProofs`, `SendBenchProofs`, `SocketPairProofs`, `RepeatRebootProofs` | one for each of the other components | proofs |

**How state corresponds.** `job_buffers[s]` is `workspace->job_buffers[s]`; the buffer's
bytes and `buffer_len` are left out, a job being identified by its command and descriptor,
and `response` is kept as its sign, because no code distinguishes byte counts.
`open_files[p]` is the kernel's descriptor table of process `p`, from numbers to open
files. `registered_fds[s]` holds the *file* the borrowed descriptor denotes, `NoFile`
standing for the 0 of an unused entry. `locks[s]`, `bShouldExit`, `idx[t]`, `clientfd[t]`
are the variables of those names. `tpc` and `cpc` are program counters. Four variables are
history, and no action is guarded by them: `execs` and `reached` say how often the job submitted last in a
slot was carried out and which file it reached; `contested` has the slots that one process
saw free (line 86) while another stood between the test and the store of its own claim, or
between the two spans of the memset that frees the slot; `untold` has the slots that were
given back without a `CMD_DISCONNECT` in memory. Both sets only grow: nothing in the code
repairs such a slot.

**How actions correspond.** A thread goes
`loop` (line 20) → `trylock` (23) → `check` (24) → `skip` (26–32) or `switch` (44) →
`borrow` (48–62) → `write` (64) → `complete` (90) → `unlock` (91) → `loop`. One action
contains at most one access to memory that another process changes at the same time; the
accesses that are merged are to memory the thread's lock or the job's stage reserves.
After a job `idx` stays where it is, as in the code: the slot just served is polled first.

A client goes `idle` → `scan` → `claim` → `ready`, then any number of jobs
`ready` → `filled` → `wait` → `ready`, then `leaving` → `leavewait` → `clear` →
`clear_rest` or `clear_head` → `idle`. The test of `status` (line 86) and the store that
claims the slot (line 88) are two steps. `server_killer` goes round
`idle` → … → `wait` → `idle` once for each kill and never gives a slot back.

**What the build decides.** `disconnect_job_buffer` stores `CMD_DISCONNECT` and a few
statements later zeroes the buffer; only `status` is `volatile`, so that the spin loops
reload it and the stores to the other fields are ordered by the compiler alone. gcc 12.2 at `-O3`, the
`CFLAGS` of `src/shmem_ipc/Makefile`, removes that store and splits the `memset` so that
`status` is cleared before `arg1` and `response`. Another build keeps the store, or clears
in the other order. The constants `DisconnectStored` and `ClearStatusFirst` say which
builds an instance covers.

**The environment.** The code does not order the processes that call
`ipc_get_job_buffer` and `disconnect_job_buffer`, and `scalability.sh` starts clients
concurrently; what is safe all the same is stated of every slot that nobody contested and
holds with `SerialSessions = FALSE`. `SerialSessions = TRUE` lets one process at a time
come or go, the discipline the code needs for more and does not enforce; then no slot is
ever contested. The runs with liveness or with `JobService` use it, since a client whose slot is also
another's may lose its answer. Jobs of those in session interleave freely in either case.
`MayCrash` are the clients that may die at any point; their descriptors go, their slot
stays as they left it.

**Page walks.** `walker` says which of the four walks a behaviour is about: `pt_walker`
(`get_pte`, 0 to `WalkLimit`, twice), `v1` and `v2` of `walkmod.c` (the first area, once,
up to `page_limit` pages) and `user` (`user.c` with `get_pte_for_address`, every area,
twice). `vmpage`, `pages_visited`, `pages_present` are the variables of those names
(`pages_walked` in `walkmod.c`); `level` and `region` stand for the pointer to the table
at hand, a table being named by what it translates. `BeginPage`, `ReadEntry`, `ReadPage`,
`NextArea`, `EndWalk` are the loops' steps, one entry read at a time, and `Kernel` maps
and unmaps between any two of them. Where the code follows an entry that points to no
table, `region` is `Nowhere`: what is read there is arbitrary, or the access faults and
the walk is dead (`Fault`). `init_module` calls `v2` with `page_limit` 0; its call of `v1`
is commented out, and `v1` ends at the first hole instead of going on behind it, which
`NothingMissed` allows for by speaking of the pages the walk has been over. The list of
areas is fixed during a walk: it changes by `malloc` between two walks of the same process
only in areas that the instance may list from the start. The areas are what a kernel keeps:
apart, in order, in whole pages, and within the 2^48 bytes that four levels translate
(`AddressLimit`); large pages are the entries of levels 1 and 2. `Pages(l)` is written out
level by level, and the shifts of `vaddr_to_page_offsets` one after another as in the code.

**Elevated writes.** `setup` is a command line with the file system, kernel and build it
meets; `setup.loop` is the loop that `run_selected_test` chooses, or one of the two builds of
`write_loop.c` (`shortcut` is SYM_SHORTCUT). `cs`, `iflag` and `rsp` are privilege, interrupt
flag and stack of the process; `rsp_squirrel` and `user_flags` are the variables of those
names; `sp2` is the word at `gs:0x6014`, which every process on the CPU overwrites when it
enters the kernel. An iteration goes `loop` → `write` → `check` by a system call, `loop` →
(`switch` →) `call` → (`switch_back` →) `check` by `ksys_write`, and `loop` → (`save` →
`switch_ss` →) `flags` → `handler` by the emulated instruction. What runs between `cli` and
`sti` is one action. A write stores some of the buffer or fails, with the value the caller
sees: -1 from glibc, `-errno` from the instruction and from the kernel's functions. `missed`
is history. `Preempt` lets another process run where the kernel would;
`Signal` and `Deliver` are a signal that ends the process, seen at the next return to user
mode or from a system call. Symlib and the kernel are not in the repository: `sym_elevate`
and `sym_lower` change the privilege and nothing else, and the handler returns to the
privilege it was called with. The short elevations that read the model-specific registers
before the loop of tests 3 and 4 are part of the step that elevates. Each of the four loops that elevate
has its own action for it (`ElevateEmulate`, `ElevateEmulateSS`, `ElevateKsys`,
`ElevateShortcut`), and the emulated instruction its own in either loop (`Handler`,
`HandlerSS`).

**send_bench.** `child[c]` is where the child of the `c`-th fork is, so that children of
earlier rounds and starts stay distinct. `sock` is the child whose socket the name
`./my_sock` leads to, alive or not; `listening` and `queue` are what the kernel knows of the
sockets; `ready` and `release` are the bytes in the two pipes. Reading a pipe returns with
the byte or when the last writer has gone; the code closes the ends it does not need, and
the model has the end of the pipe where the code gets it. `clean` is history: whether the
round found neither a name nor an orphan. `Orphans` are the children whose parent has gone.

**Socket pair.** `unread[p]` are the pieces `p` sent that nobody received, at most
`capacity`; a piece is what the kernel moves at once, so that a message of `socket_comm.c`
(1024 bytes at most) is one and a message of `socket_comm.py` one or more. `rounds`, `left`
are the loop counter and what is still to send. `Hangup` is what `close` does to the other
side, `short` is history.

**Repeat-reboot.** `run_file` is `Absent`, `Empty` or a number: opening for writing empties
the file, a step before the number is there. `Reboot` may come anywhere; what
`reboot_system` asks for (at this commit it only echoes) is one of them. `made`,
`interrupted`, `ended`, `damaged` are history and are never reset: how often each run was made, how
often a making was cut off before its counter, how often the experiment came to its end,
and whether a reboot has found the file empty.

## 3. What TLC checks

`Spec` has no fairness, `FairSpec` adds it. The IPC instances use two or three slots instead
of seven: with two, both the wrap of `idx`, a full workspace and a slot reused by another
client happen; `IpcShutdown` needs a third.

| run | instance | properties | what it shows |
|---|---|---|---|
| `ipc_sessions` | 2 clients that connect and leave as they like, 2 threads, 2 slots, `CMD_DISCONNECT` stored, a memset that clears `status` first | `TypeOK`, `LockExclusion`, `SharedOnlyIfContested`, `ExactlyOnce`, `AnswerFinal`, `StageOrder` | a slot is shared only after a race for it, and every other slot is safe beside it |
| `ipc_crash` | 2 clients of which one may die, 1 thread, every build, serial sessions | `SessionInv`, `FreeSlotForgotten`, `StaleAnswerOnlyUnborrowed`, `ImplementsJobService` | neither the build nor a death breaks ownership or single execution; what a free slot still holds; the code implements `JobService` |
| `ipc_answers` | 2 clients, 1 thread, serial sessions, fair | `SomeoneIsServed`, `AnsweredOnceOthersRest` | pending jobs are completed as long as there are any, and a client whose rivals stop asking is served |
| `ipc_shutdown` | 1 client with 2 files, `server_killer 2`, 2 threads, 3 slots, serial sessions, fair | `WriteAstrayOnlyIfUntold`, `ServerStopsOnceClientsRest` | writes follow a descriptor that is closed and opened again for another file; the server ends when each thread can take a kill |
| `ipc_double_claim` | 2 clients, sessions not serial | `SlotOwnership` violated | two clients get the same buffer |
| `ipc_stale_cache` | 2 clients, 2 files, the `-O3` build | `WriteReachesOwnFile` violated | the server writes to a file of the previous owner |
| `page_walk_all` | the four walkers, two areas, one large page, 4 pages that come and go, fair | `TypeOK`, `OnlyTablesRead`, `OnTheWay`, `NothingMissed`, `NothingInvented`, `CountsAgree`, `WalkEnds` | the walks are right beside a kernel that changes the tables; only `v2`, and `pt_walker` below a large page, leave them |
| `page_walk_absent` | `v2`, no large page | `PresentIsTested` violated | the walk `init_module` starts follows absent entries |
| `elevated_writes` | every test number and both builds of `write_loop.c`, a file or `/dev/null`, either kernel | `StackComesBack`, `PrivilegeReturned`, `SignalsAreSeen`, `DoneMeansWritten`, `NullDeviceStays`, `LatenciesExact` | the detours into the kernel come back, what ends in order was written, latencies are exact |
| `send_bench` | 2 starts of 2 rounds, 2 kills, fair | `CleanRoundConnects`, `RoundsHeal`, `EveryStartEnds`, `OrphansEnd` | a round heals the damage of the one before; only a killed parent leaves something that lasts |
| `socket_pair` | 3 messages of 1 to 3 pieces, sockets for 1 to 4, one kill, fair | `TypeOK`, `InStep`, `LeavesComplete`, `OnlyTheSurvivorSuffers`, `BothEndOrBlock` | the two sides end together while messages fit, and block each other when they do not |
| `repeat_reboot` | 3 runs, 5 reboots, fair | `TypeOK`, `FileTellsRuns`, `RepeatedOnlyIfInterrupted`, `StartedCompletes` | the counter on disk can be trusted, runs are repeated only when cut off or after the end, and the script completes from any start when it is left alone |

Deadlock is checked except where the server is shut down, after which the system really
stops, where a walk is over, and where the small programs have ended. Symmetry (threads, clients) is used in `ipc_sessions` only, which has no liveness
property. The IPC model has no counter to bound:
sessions, jobs and reuse of slots are unlimited, and `execs` saturates at 2.

The page walk instances scale 512 entries and 4096 bytes down to 2 and 2. Four levels of
two entries are 16 pages; the walks cover 8 of them (`WalkLimit`), or the 5 and 3 of two
areas that begin inside tables, end inside them and have a large page, pages that come and
go and pages that are never mapped. `PageLimits = {0, 1, 2}`: no limit, the smallest, and one inside an area.

`elevated_writes` scales the constants of the loops: the slow path comes every 2
(`KSYS_PERIOD`, 10 in the code) or 3 (`SC_PERIOD`, 20) iterations of 3 or 4, an `int` has 8
values (`INT_SIZE`) so that four writes of two bytes overflow it exactly, a second has 4
nanoseconds (`NSEC`) and a write takes up to two seconds (`Durations`). `send_bench` bounds
starts (`MaxStarts`) and kills (`MaxKills`): one kill makes the damage, the second meets the
round or the start that repairs it. `socket_pair` has sockets smaller than a message, equal
to one and larger, and three rounds, so that there are rounds between the first and the last.
`repeat_reboot` bounds reboots (`MaxReboots`): with five each of the three runs can be cut
off and two be cut off twice.

**Fairness.** Weak fairness of every thread and of main's last step: the kernel schedules
runnable threads. Weak fairness of a process inside a library call (`Proceed`), for the
same reason. Strong fairness of `server_killer`'s `Connect`: whether it may start depends
on `SerialSessions`, a discipline of the environment and not of the code, which comes and
goes. The page walker is one running thread: weak fairness of its steps, none of the
kernel's. Of `send_bench` the parent and every child, of the socket pair both processes, and
of repeat-reboot the script are weakly fair: they are runnable processes. A step that waits
(for a byte, for room, for the child) is not enabled while it waits, so that nothing is assumed of
the other side. Kills, reboots, failing forks and the user who starts a program again are not fair.
There is no fairness on what a client chooses: to connect, to ask, to leave. Nothing
is fair about who wins a try-lock.

**Findings.** Apart from the three violations above, modelling showed these limits, which
the properties are worded around:

- `server_killer` may spin for ever. Once `bShouldExit` is set a thread that finishes an
  ordinary job leaves without taking a kill, and the kill meant for it is never answered;
  the server still ends, which is what `ServerStopsOnceClientsRest` promises.
- `server_killer n` needs *n* free buffers, since none is given back; with fewer it exits
  with -1 and threads stay.
- Because `idx` stays at the slot just served, a client that resubmits quickly can starve
  the others for as long as it keeps asking. This is why `AnsweredOnceOthersRest` has its
  premise and why there is no property that every wait ends.
- A job submitted when the threads have left, or are leaving, is never completed, and
  `wait_for_job_completion` (`ipc.c:106`) has no way out. This too is what the premise of
  `ServerStopsOnceClientsRest` and the absence of killers in `ipc_answers` are for.
- A job whose descriptor cannot be borrowed is completed without a response of its own
  (`server.c:58`), and its client reads the answer to an earlier one;
  `StaleAnswerOnlyUnborrowed` says that it never happens once the file is registered.
- `cleanup` (`writes.c:613`) removes whatever the path names. Only the failing size check keeps it from
  `/dev/null`, and with `iter * size` a multiple of 2^32 that check passes, although
  `init_file` takes care "Skip deletion if it's /dev/null".
- `write_loop.c` compares the result with -1, `ksys_write` returns `-errno`: in the
  SYM_SHORTCUT build failures of the fast path, and short writes in every build, go unseen.
- Test 4 stores its stack pointer in a word of the CPU with interrupts on: on a kernel that
  preempts its own code it may come back on another process's stack. The error exits of
  tests 6 and 7 and of SYM_SHORTCUT leave the program elevated.
- A parent of `send_bench` that is killed between two steps leaves its child in `accept` for ever, with a name in
  place that the next start finds; which of the two children a later round then reaches is open.
- In `socket_comm.py` a message of several pieces may be received in parts, each counted as
  a message; the process that counts fastest leaves first. Nobody is killed by it
  (`OnlyTheSurvivorSuffers`), but the last messages may be taken for less than they are.
- `rep_reboot.py` removes its counter when it is done, so that the next boot begins again at
  run 1, while its README expects that "the system will boot up normally without running
  the experiment again" (`src/repeat_reboot/README.md:55`). `RepeatedOnlyIfInterrupted` therefore allows one more
  making of each run for each time the experiment has `ended`, and no other. A machine that goes down between `open(run_file, "w")` and the write leaves an empty counter,
  which `int()` rejects at every later boot. `do.py` installs `experiment.py`, a name no
  file of the repository has; the model takes it for `rep_reboot.py`.
- `get_pte` tests `present` and not the large-page bit, so `pt_walker` reads the contents
  of a large page as a table; the walks that use the kernel's `pmd_bad` do not.

## 4. What is proved

TLAPS proves every invariant and the one action property that the passing runs check, and, for
serial sessions, the refinement of `JobService`. TLC shows each of them on the small instances above, the
theorems for every value of the constants: any number of slots, threads, clients, killers,
files, rounds, runs, pages and entries, any width of an `int`. The assumptions
are the named `ASSUME`s of the modules (at least one slot, disjoint sets of processes, an
`int` with at least one value, areas in order) and, where a theorem says so, those in its
statement. Seldom is the property inductive; what it rests on is defined beside it in the
component's module, under a section of that name, and was checked with TLC on the instances of the runs.

**IPC server.** The order of the argument is types, locks, sessions, then what needs them.

| theorem | for | rests on |
|---|---|---|
| `TypeCorrectness` | everything | `TypeOK` with *KillsLeft*: a `server_killer` inside its loop has a kill left, or `kills - 1` could leave the naturals |
| `ThreadsExclude` | everything | `LockExclusion` is inductive given the types: whatever clients do to the shared memory, a thread holds a lock from try-lock to unlock |
| `OwnersAreAlone` | every build, crashes, clients in any order | `HoldersAlone`, the part of `SessionInv` about those who hold a slot or are about to store their claim to it: a second one gets there only by seeing the slot free, which it is only while the first is at `claim` or `clear_rest`, and that is what `contested` records |
| `SessionsConsistent`, `AnswersFollowOneExecution`, `AnswersAreFinal` | the same, in slots nobody contested | `SessionInv`. The stage of a buffer matches the place of whoever holds it (`StageOfOwner`), and a job is carried out once because the thread at work on it is the only one and the count of a submitted job matches that thread's place (`ExecutionCount`). The invariant is local to the slot: what happens in a contested one reaches no other |
| `StagesInOrder` | the same, in slots nobody contested | a stage is stored without looking at the one it replaces; that it is the right one follows from `StageOfOwner` for processes and from `AnswerFinal` for the server |
| `FilesConsistent`, `WritesReachOwnFiles`, `StaleAnswersAreUnborrowed` | the same, in slots nobody contested; the first two speak of `untold` slots separately | `FileInv`: the buffer holds its owner's job (`JobIsOwn`), the thread's locals are that job's (`WritingAsAsked`), what is registered for an owner is what its descriptors denote (`RowOfOwner`), and closing or leaving empties it (`RowForgotten`), the last two unless the slot is in `untold` |
| `FreeSlotsForget` | the same, in slots nobody contested | `WipeInv`: what the first span of the memset has cleared stays cleared until the second; a client that dies between the two leaves the rest |
| `SerialSessionsContestNothing` | serial sessions | one process at a time is coming or going (`OneComesOrGoes`), so that nobody sees free what another is claiming or wiping |
| `ServiceImplemented` | serial sessions, every build, crashes | the refinement mapping `phase`, `performed`: who owns a slot is in session, its seat is its slot (`HoldersAlone` with no slot contested makes seats distinct), a submitted job is pending until the buffer says completed. Only `Claim`, the submissions, the switch, `MarkJobCompleted`, the answers, the end of the memset and `Crash` are steps of the service; all others stutter |

The histories are exact where it matters: `ipc_double_claim` shows a slot in two hands once it is
contested, `ipc_stale_cache` a write that goes astray in an untold slot. `JobService` gives
every session a seat of its own, which is why its theorem, and no other about what the
server promises, assumes serial sessions.

**Page walks** (`PageWalkProofs`). `WalkInv` is inductive: `TypeOK`, `PlaceInv` (the
address is in the area, between pages no table is at hand), `TablesInv` (a mapped page has
all its tables and no large page above it), `OnTheWay`, and `LostInv` (a walk that left the
tables did so at a page that was not mapped). It gives `WalksTyped`, `WalksKeepTheWay`,
`WalksReadTables` and `WalksInventNothing`. `OnTheWay` rests on arithmetic: shifting by one
level and taking the remainder gives the region of the next (`ShiftTwice`, `RegionBelow`).
`WalksMissNothing` adds that one step puts at most one page behind the walk, the one that
was read (`BehindNextPage`, `WalkMoves`). `CountsAlwaysAgree` adds `CountInv` and the
cardinality of what is behind (`OneMoreBehind`).

**Elevated writes** (`ElevatedWritesProofs`). Everything rests on `PlaceInv` (which places a
loop has, and how many iterations are behind them). `CpuInv` gives `PrivilegeIsReturned`;
with `StackInv` (the way back finds the user stack where it was put) `StacksComeBack`.
`SignalInv` relates missed calls to the remainder of the iteration, for `SignalsAreNoticed`;
`WrittenInv` bounds what was written by the iterations, so that a check modulo `INT_SIZE`
suffices below it (`DoneIsWritten`); `NullInv` is `NullDevicesStay`; `TimesInv` keeps clock
readings in order, and `LatenciesAreExact` follows by the arithmetic of a borrowed second.

**send_bench** (`SendBenchProofs`). `ChildrenInv`: there is a number left for each round to
come, and a child not yet forked has left no trace. `CleanInv`: in a clean round its child is
alone, owns the name once it has bound, and stays until released; this is
`CleanRoundsConnect`. `HealInv`: while no parent is killed only the child of the round lives;
this is `RoundsAlwaysHeal`.

**Socket pair** (`SocketPairProofs`). `LoopInv` (`CountsStayTyped`); then, while nobody is
killed, the pieces in flight are those sent less those received: exactly with messages of one
piece (`WholeInv`), at least with larger ones (`FlowInv`). From these `RoundsStayInStep`,
`LeaversAreComplete` and `DeathsComeFromOutside`, for any number and size of messages and any
size of the sockets.

**Repeat-reboot** (`RepeatRebootProofs`). `PlaceInv` relates the file to the script's
variable; `HistoryInv` says that each run before the next one was made once in this
experiment and once in each that `ended` before, apart from makings that were interrupted,
and that the runs still to come were not made in this experiment. From these `FileTellsTheRuns` and
`RepetitionsAreInterrupted`, with nothing reset when the counter is removed.

**Only model-checked:** the liveness properties (`SomeoneIsServed`, `AnsweredOnceOthersRest`,
`ServerStopsOnceClientsRest`, `WalkEnds`, `EveryStartEnds`, `OrphansEnd`, `BothEndOrBlock`,
`StartedCompletes`): they need fairness, and with it ENABLED, which the prover does not
handle. The violations are counterexamples of TLC.

## 5. What is not modelled

- The memory order of x86 below single loads and stores (stores of one process are seen in
  order), and compilers that move the request's other fields past the store that submits it
  (gcc 12.2 at `-O3` does not, apart from the store it removes).
- The start of the server: `IpcSystem` begins with a zeroed workspace. A second server on
  the same name or a restart after a crash is outside what the code handles: nothing waits,
  retries or notices, so there is no promise to check.
- Array bounds: descriptors are members of `Fds`, so that `registered_fds[idx][clientfd]`
  is within its row, and a length is what the client stored.
- The descriptors the server never closes; that borrowing may fail at any time stands for
  it.
- The preloaded library that turns `write()` of an unmodified program into jobs is not in
  the repository; its calls are those the notebook makes.
- `pass_fd`: its two programs are ordered by `sleep()` alone. Without a clock every order is
  possible and nothing holds; with one there is a single schedule.
- The io_uring writers: what they do is decided by the bookkeeping of liburing and by how the
  kernel treats a full completion queue, neither of which is in the repository.
- Of the write loops: the durability of files, the throughput they print, the loop in Go and
  the read loops (one system call repeated), `latencies.txt` beyond its contents, what a
  signal handler could do (signals end the process), and more than one signal.
- Of `send_bench`: the data sent, failing `pipe` and `socket` calls (only reported), and
  descriptors (`fds1`, `fds2` of earlier rounds are closed or end with their process).

## 6. Plan

1. *Done:* the IPC system, `JobService`, their runs and first theorems; `PageWalk`;
   `ElevatedWrites`, `SendBench`, `SocketPair`, `RepeatReboot`.
2. *Done:* theorems for every invariant and action property of the runs, and the refinement
   of `JobService`.
3. *Done:* the theorems about sessions, files and freed slots without serial sessions and
   in every build, with hypotheses local to a slot (`contested`, `untold`).
4. An abstract specification of the page walk (the pages of the areas, in order, each looked up
   once) that `PageWalk` implements, and one of `RepeatReboot` (runs made in order, at least
   once each).
