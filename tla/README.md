# ECR toolkit: formal models

ECR measures how long instructions, cache accesses and page accesses take
inside a guest, to notice a hypervisor that intercepts them. The numbers only
mean something if each one was measured in the right window, printed under the
right label and read back by the right session. The code that sees to this is
small, lock-free in places, spread over a kernel module, a command line tool
and a shell script, and hardly testable: it needs root, a second CPU, and
failures that do not happen on demand. These TLA+ modules model it, TLC checks
them on small instances, and TLAPS proves the main results for all instances.

Contents: [Inventory](#inventory), [Modules](#modules),
[Runs](#runs), [Theorems](#theorems), [Assumptions](#assumptions),
[Known deviations](#known-deviations), [Not modelled](#not-modelled),
[Plan](#plan), [How to run](#how-to-run).

## Inventory

| Part | Source | State it keeps | Operations |
|---|---|---|---|
| Character device | `main.c` | `vmem`, `vmem_aligned`, the registered device | insert, remove, open, release, eight commands |
| NOP timer | `nop_timer.c`, `nop_timer.h` | `nop_th`, `instr_th`, `count`, `reset_count`, `print_count`, `finish` | `nop_timing_start` (the ioctl), `nop_f`, `instr_f`, `buffer_flush_instr_f` |
| Wall timer | `wall_timer.c`, `wall_timer.h` | none of its own | time each instruction with `getnstimeofday` |
| Cache timer | `cache_timer.c` | none | flush and time five addresses, 100 times each |
| Memory timer | `memory_timer.c` | none | time one access in each of ten pages |
| Instructions | `instructions.c`, `instructions.h` | CPU registers, `*vmem_aligned` | one wrapper per instruction, `SUSPEND_INTERRUPTS` |
| mod_ioctl | `mod_ioctl.c`, `mod_ioctl.h` | none | parse a command number, send it |
| Session script | `ecr.sh` | shell variables, `$1` in its traps | parse options, insmod, allocate, 15 rounds of measurements, read `dmesg`, rmmod, print |

How they meet:

* `ecr.sh` inserts the module, starts one `mod_ioctl` process per command and
  gets the results back **only through the kernel log**. The log outlives the
  session, is a ring, and holds everybody's messages.
* Every command is an `unlocked_ioctl`: nothing but the script's own order keeps
  two commands from running at once on the same globals.
* In NOP timing, three tasks share plain flags: the ioctl sleeps until `finish`;
  INSTR (CPU 1) runs instructions; NOP (CPU 0) counts. INSTR asks for a reset of
  the counter, runs its loop, prints the label, and asks for the count to be
  printed; NOP answers by clearing the flag.
* `vmem_aligned` is set by one command and used by the timers of others, behind
  guards that test two different variables (`vmem` in `main.c`, `vmem_aligned`
  in the loop macros).
* Cleanup after a session that stops half way is the job of two shell traps.

What is hard here, and what makes each part correct:

| Part | Hard | Correct when |
|---|---|---|
| NOP timer | interleaving of three tasks over flags; `count++` in two steps; thread creation that fails half way; SIGKILL; threads that exit on their own and are stopped all the same | a count covers its own loop and nothing else, stands under its own label, the report is complete and in order, threads live as long as they are needed, interrupts come back, the ioctl ends |
| Character device | a failed `kmalloc`; uninitialised contents; removal and reinsertion; overlapping commands; alignment | one buffer, freed with the module; both guards agree; no measurement uses NULL or memory outside the buffer; the buffer never moves |
| Wall timer, Instructions | interrupts and other threads that change the registers a wrapper reads and writes back; registers that inline assembly overwrites; a clock that is set; instructions that fault | a loop runs its instruction 100 times; what is logged is the elapsed time; every row of the table has a line; the kernel's registers are as they would be without the measurement |
| mod_ioctl | `errno`, which nothing clears; numbers out of range; a `break` inside a macro | the command the option names goes out, and no other; the exit status tells what the driver answered |
| Session script | an error or Ctrl+C at any command; a command that is killed or never returns; log lines of earlier sessions and rounds; a ring that forgets; a second session; values that are missing | each value in the table is the last that was measured for its row in this session; averages, variances and marks are those of these values; the module is removed however the session ends |

## Modules

| Module | Is | Extends |
|---|---|---|
| `NopTimer` | the ioctl, the NOP thread and the INSTR thread, step by step | |
| `SessionReport` | the abstract report: what a reader of the log may rely on | |
| `NopTimerRefinement` | the mapping from `NopTimer` to `SessionReport` | `NopTimer` |
| `NopTimerProofs` | type correctness, interrupts | `NopTimer`, `TLAPS` |
| `HandshakeProofs` | the handshake, the labels, thread lifetimes, faults | `NopTimerProofs` |
| `RefinementProofs` | `NopTimer` implements `SessionReport`; the report is complete | `HandshakeProofs`, `NopTimerRefinement` |
| `Instructions` | the wrappers: which registers they write, and which of them the compiler knows of | |
| `WallTimer` | one call of `wall_timing_start` or `buffer_flush_start`, the clock and interrupts | `Instructions` |
| `WallTimerProofs` | the loop's iterations, the kernel's registers, the logged time, the logged rows, types | `WallTimer`, `TLAPS` |
| `Driver` | the device, its commands, the buffer, and every access to it | |
| `DriverProofs` | type correctness, ownership of the buffer, guards, alignment | `Driver`, `TLAPS` |
| `ModIoctl` | one `mod_ioctl` process, from its arguments to its exit status | |
| `ModIoctlProofs` | the command that goes out, the refusals, the exit status, types | `ModIoctl`, `TLAPS` |
| `Statistics` | `average`, `variance`, `evaluate_exiting` | |
| `EcrScript` | sessions of `ecr.sh` and the kernel log | `Statistics` |
| `SequenceLemmas` | lemmas on flattened sequences, sums, averages and variances | `Statistics`, `TLAPS` |
| `EcrScriptProofs` | the module is removed in the end; whose values are read; averages, variances and marks; types | `EcrScript`, `SequenceLemmas`, `TLAPS` |
| `MCNopTimer`, `MCWallTimer`, `MCDriver`, `MCModIoctl`, `MCEcrScript` | the small instances for TLC | |

### NopTimer

One action per step of a task that another task can see. `pc["nop"][c]` and
`pc["instr"][c]` are the program counters of the threads that call `c` created,
`call[c]` is that of `nop_timing_start` itself.

* `nop_f`: `NopHead` (loop condition and `signal_pending(nop_th)`, which follows
  the *global* pointer), `NopCheckReset`, `NopAckReset`, `NopCheckPrint`,
  `NopAckPrint`, and `count++` as `NopLoad` and `NopStore`.
* `instr_f`: per entry `InstrRequestReset`, `InstrAwaitReset`, `InstrLoop`,
  `InstrAskPrint`, `InstrAwaitPrint`; entries that a macro skips or zeroes are
  `InstrPass`; then `InstrFinish` and `InstrExit`. An instruction that the CPU lacks
  ends the thread in its loop (`InstrFault`): the constant `Faulting` names those
  that may.
* the ioctl: `Start`, `Create` twice, `BindThreads`, `Wake` twice, `WaitFinish`,
  and `Stop` and `Join` for each thread.
* the kernel: `Kill` sends SIGKILL to a NOP thread, `Reap` frees a thread that
  has exited and that nobody waits for.

The value of `count` is abstracted to *the request since which it counts*
(`<<call, entry>>`). That is all the correctness of a count depends on, keeps the
state space finite, and lets `WindowCoversLoop` say that a count belongs to its
entry. `dmesg` holds labels and counts with the request each stands for;
`request` is a history variable.

`SessionReport` knows owners, plans and lines, and no threads: one call reports
at a time, in the order of its program, a label and then the count that was
started for this entry. `NopTimerRefinement` maps the call in the driver to the
owner, `entry` to the position, and `dmesg` to the report.

### Driver

Addresses are numbers, NULL is 0, and of the memory the words at `vmem` and
`vmem_aligned` are kept, because the KMALLOC command looks at them. A client is
a process: `timing_open`, `timing_release`, and `Dispatch(c, k)`, which is the
`switch`. KMALLOC continues through `Kmalloc`, `SetAligned` and `Check`, one
step for each access to the globals. A measurement is a list of `Accesses`; the
gated ones (non-temporal moves, `clflush`) pass `GateKmalloc` before each
`Touch`, those of CACHE and MEMORY were let through by `Dispatch`, and MEMORY
holds the pointer in a local (`Take`). `timing_cleanup_module` is `Kfree` and
`Deregister`, in the order of the code. Clients may overlap at any point; the
history variable `overlapped` remembers that they did, and the properties that
only hold for commands in turn say `~ overlapped`.

### Instructions and WallTimer

A wrapper is a sequence of machine instructions, of which the module keeps the
general registers they write and the kernel registers (`CR0`, `CR3`, `CR4`,
`CR8`, the debug registers, `TEST_CTL`) they read, write back or set, together
with the registers that the constraints of the `asm` name. `Lost(f)` follows: the
callee-saved registers whose value a caller loses because nobody told the
compiler.

`WallTimer` runs the two programs, which are the lists of `wall_timer.c` entry by
entry: the guards of the macros (`Macro`), `getnstimeofday` (`TimingStart`), the
test and the body of the loop (`LoopTest`, `Asm`, one machine instruction at a
time), the subtraction and the log (`TimingEnd`), `local_irq_restore` (`Leave`).
Around the thread, `Tick` lets time pass, `SetClock` sets the clock, and where
interrupts are on, `Interrupt(r)` gives a kernel register a new value. `rax` and
`stale` are sets of registers: those whose latest value `rax` holds, and those
that lost the value the kernel gave them last. A register is abstracted to that.

### ModIoctl

An argument is what `strtoul` finds in it: digits or none, a sign, a number, more
text. The actions follow `main`: `Start`, `ParseUnused` for `argv[2]` and
`argv[3]`, which come first, `ParseOption`, `Switch`, `Answer` (the driver),
`IOCTL_HANDLER` with its `exit` and its `break`, `Close`. `errno` is a variable that
nobody clears.

### EcrScript

A command of the script is one step: `Begin` (options and traps), `insmod`,
`Kmalloc`, `ReadAddress`, `Measure`, `ReadWall`, `MeasureNop`, `ReadNop`,
`ReadProbe`, `rmmod`, `PrintTable`, and the traps `ctrl_c` and `finish`. The
kernel log is a bounded sequence of lines, kept from one session to the next.
`wall_parse`, `nop_parse`, `probe_parse` (`cache_parse` and `memory_parse`) and
`address_parse` are the pipelines of `grep`, `tail` and `${dm##* }`: the last
line of a label after the last "Inserting", the line *after* the label for NOP
counts, the whole log for the address. The driver is what the script sees of
it: `loaded`, `vmem`, and lines. A value is the session, the round and the row it
was measured for, so that a value read at the wrong place shows. What it stands for
when the averages are computed is in the constant `Time`: `Summary` is the table,
and `PrintTable` keeps it in `printed`.

How much the log holds (`logsize`) is chosen at the start. A command that the driver
would carry out may fail in any round, and succeed in the next: nothing is measured
(`Fails`), as when `kthread_create` fails, `kthread_bind` takes the error for a thread
and `mod_ioctl` is killed; or an instruction of `Faulting` faults and the entries before
it are in the log (`FaultsMidway`). The ERR trap says so, the script goes on, and
reads what it finds, which is the row of an earlier round if there was one. In NOP
timing it is the INSTR thread that faults, the ioctl never returns, and the session
stays at `hung`. `insmod` may fail, before or after its line is in the log. `failures`
counts all of these, up to `MaxFailures`; a failed `kmalloc` and a command without
device or buffer (`Refused`) are not counted, and may come as often as they like.
Sessions may overlap, which `overlapped` remembers; a second one fails at `insmod`.

## Runs

All pass unless noted. Deadlock is checked for `Driver`; the others switch it
off because they end: every call, process or session is a bounded run that may be
over.

| Run | Question | States |
|---|---|---|
| `nop_serial` | Two ioctls in turn, fairly scheduled, with an instruction that may fault: handshake, labels, complete report, thread lifetimes, known faults, interrupts, the refinement of `SessionReport`, and that a call ends | 82,005 |
| `nop_concurrent` | Two ioctls at once: are interrupts still restored? | 1,813,335 under the view `Control`, which leaves out the log, the counts and the requests |
| `nop_waits` | *violated*: "Wait until INSTR thread has finished" with two ioctls at once | |
| `wall` | Both wall timing functions with every instruction of theirs: iterations, registers, elapsed time, rows, and that a call returns | 492,520 |
| `driver_serial` | Two clients, overlapping or in turn, insertion, removal, failed allocation, any contents: accesses, ownership of the buffer, guards, alignment, faults, stability | 1,342,404 |
| `driver_failure` | *violated*: a failed `kmalloc` is reported (README, Note 1) | |
| `driver_probes` | *violated*: what is timed lies in the memory allocated for it (`main.c:32`) | |
| `driver_unload` | *violated*: nothing runs in a module that is gone | |
| `mod_ioctl` | All arguments over a long of five bits, any answer: the command, the refusals, the exit status | 211,449 |
| `script_serial` | Two sessions, any mode, commands that fail in any round, Ctrl+C anywhere, a log that is too small or not: whose values are in the table, are the averages and marks theirs, and is the module removed? | 578,110 under the view `Ahead` |
| `script_address` | *violated*: the address shown is that of this session's buffer | |
| `script_rerun` | *violated*: after a failed allocation the script can be rerun | |

What the passing ones show, and why it is not obvious:

* `WindowCoversLoop`: `count` was reset by this entry's own request before the
  first run of the instruction and is not reset again before it is printed. It
  needs the order of the stores in both threads: NOP zeroes `count` before it
  clears `reset_count`, and between the clear and the next look at the flags
  stand a load and a store that could undo a reset. If INSTR did not wait, they
  would.
* `CountFollowsLabel`, `ReportComplete`: label and count are printed by
  different threads as different lines, and `nop_parse` takes *the line after*
  the label.
* `NotStoppedWhileMeasuring`, `StartTogether`, `NoThreadOutlivesCall`: thread
  lifetimes around failed creation, SIGKILL and the two `kthread_stop` calls.
* `FaultsKnown`: the ioctl can fault, on the `ERR_PTR` that passes the test for
  NULL and in `kthread_stop` of a thread that ended by itself and was reaped; it
  cannot fault otherwise, and the NOP thread never does.
* `InterruptsRestored` also with two ioctls inside the driver, where nearly
  everything else is lost.
* `CallEnds`: an ioctl returns or faults, unless its NOP thread got SIGKILL or an
  instruction killed its INSTR thread. In the first case INSTR spins for ever, with
  interrupts off if the entry asked for it; in both the ioctl sleeps for ever. The
  exceptions are in the property because the code has them; the run shows that there
  is no other.
* `LoopRunsItsIterations`: `cpuid` overwrites `rbx`, in which a compiler keeps `i`
  across calls. If the `asm` did not say so, the loop would run any number of times,
  or for ever (`CallReturns`).
* `KernelRegistersKept`: eleven wrappers read a register and write it back. An
  interrupt between the two that changes it would be undone: it cannot come, since
  exactly these wrappers run with interrupts off. `TS`, `CR8` and `TEST_CTL`
  are set on purpose, and left changed.
* `LoggedIsElapsed`: the log takes `tv_nsec` alone, so that it is right modulo a
  second; the run has loops that take longer and a clock that is set in between.
* `EveryRowLogged`: the script takes the last line of a label since the session
  began. A row that logs nothing in one call would be read from the round before.
* `SendsWhatIsAsked`: one command at most, that of the option, with numbers out of
  range, signs, text and unused arguments of any kind. `StatusTells`: the `break` and
  the `exit` hidden in `IOCTL_HANDLER` are what keep a failed command from being
  reported as done. A negative number that wraps to the number of a command, modulo
  `ULONG_MAX + 1`, does send it: the property admits that, since `strtoul` has it so.
  `RefusalHasCause`: `errno` is never cleared, so that
  `mod_ioctl 0 1x` may refuse its option 0 for what a `printf` left there; only 0 and
  the limits of long can be hit.
* `NothingLeaks`, `GuardsAgree`, `BufferStable`, `OnlyKmallocFaults`: the two
  globals are never reset and are tested by different code; across failed
  allocations, faults, removals and insertions they stay consistent as long as
  commands take turns.
* `MovesInBuffer`: a move that is done hits the buffer: the aligned pointer leaves room
  for 16 bytes and is on a boundary, also while two KMALLOCs race and while a move reads
  a pointer that is being replaced. A move that faults is in the property too: it went
  through NULL, a `kmalloc` had failed, and commands had overlapped. That does happen
  (the gate of `wall_timer.h:43` is passed, and the second of two racing KMALLOCs then
  stores NULL), and a fault of any other kind would violate the property.
* `OwnValues`: what is read for a row is the last value that the driver measured for it
  in this session. When the command of this round failed before the row, that is the
  value of an earlier round, and nothing if there is none; it is never a value of another
  session or row, and never an old one where there is a newer.
* `OwnOrNothing`: the same when the ring has dropped lines, even the start of the
  session: then a value may be missing, but what is read is the newest or nothing.
* `StatisticsTrue`: averages and variances against their definitions over these
  values, one for each round by which the row had been measured, through the log and the
  parsing, although empty words drop out, averages are cut to whole numbers and the
  variance is taken around the cut one. A value counts again in each round whose command
  failed: that is what the table shows, and the property says no more than that.
* `MarksTell`: the marks follow from which of the two baselines an average is
  nearer to; in flush mode there are no baselines, and each row that takes any time
  is marked (see [Known deviations](#known-deviations)).
* `ModuleRemoved`: however and wherever sessions end, and though the EXIT trap of
  one removes the module of another, the module is gone, if it was the first word
  of the command lines.

### Bounds

* `NopTimer`: two calls. A call meets the state left by one earlier call (stale
  globals, unreaped threads), and that is what a third would meet. The programs
  have four and two entries, so that each kind of gate occurs, an entry has a
  predecessor and a successor, and the two thread functions differ. The
  concurrent runs use one entry per program, and `nop_concurrent` a `VIEW` without
  `count`, `acc`, `dmesg` and `request`: no guard reads them and
  `InterruptsRestored` does not mention them.
* `WallTimer`: all 33 entries. A loop has two iterations (the second finds what the
  first left), a second three nanoseconds, so that a loop of up to four can be
  shorter, as long, or longer, and may start at any fraction of a second. The clock
  is set at most once in a loop, back by one or forward by two. `Live` has a
  register that two wrappers write (`TS`), one that a context switch changes
  (`CR3`) and one that a debugger's would (`DR7`).
* `Driver`: two clients; two addresses, one on a 16-byte boundary and one that is
  8 bytes off, the only two cases that alignment by 8 leaves; contents zero and
  not zero.
* `ModIoctl`: an unsigned long of five bits, which holds the eight commands, both
  limits of long and numbers beside them; options from 0 to two beyond the range,
  with either sign and with or without text behind; for the unused arguments 0, 1, the
  limits and one out of range.
* `EcrScript`: two sessions, two rounds for the fifteen (first, last, and a
  predecessor for the second). The tables hold the two rows that others are
  compared with (`XOR`, `CPUID`), one with a mark of its own (`INB`), one that may
  fault (`RDMSR`), two gated ones next to each other at the end (a zeroed label is then
  followed by another, and the last by a line of the driver), and one that no timer
  logs (`INVPCID`). `Time` puts rows near one baseline, near the other, and near one in
  one measurement and the other in the other. The log holds 200 lines, more than two
  sessions need, or 24, fewer than one standard session of two rounds needs and enough
  for lines of the previous one to survive.

  Two commands may fail that the driver would have carried out (`MaxFailures`), in one
  session or one in each: so a command fails in the first round, in the second, in both,
  wall and NOP timing fail together or alone, and a failure of the first session meets
  one of the second. The two violated runs need none of these failures and have
  `MaxFailures = 0`.

  The view `Ahead` drops what no step and no property looks at any more: of an ended
  session all but whether it named the module first, which `ModuleRemoved` asks (its
  values, averages and marks were the same at `exit`, where they were checked);
  and of the log the content of lines before the last "Inserting", where only the lines of
  an allocation are still looked for, but not their number, on which the ring depends.
  The constraint `Bounded` does not go on from states in which sessions have overlapped
  and one of these commands has failed: of values nothing is claimed then, and for
  `ModuleRemoved`, which is claimed, the theorem covers that part.

### Fairness

`FairSpec` gives weak fairness to the steps of each task: of the ioctl, of the
NOP thread and of the INSTR thread of each call. They are kernel tasks that the
scheduler runs in the end; NOP and INSTR are bound to CPUs of their own, which is
why the spin loops with interrupts off do not starve each other. Nothing is
assumed of clients, signals or reaping. In `WallTimer`, weak fairness of `Thread`
says that the process is scheduled although interrupts and other threads come in
between; nothing makes time pass, an interrupt come or an instruction fault.

## Theorems

Proved by TLAPS for all values of the constants that satisfy the `ASSUME`s
(`NopTimerAssumption`, `WallTimerAssumption`, `DriverAssumption`,
`ModIoctlAssumption`, `EcrScriptAssumption`).

| Theorem | Says | Under |
|---|---|---|
| `NopTimerProofs!TypeCorrect` | `[]TypeOK` | nothing more |
| `NopTimerProofs!InterruptsAreRestored` | `[]InterruptsRestored` | nothing more: overlapping ioctls too |
| `HandshakeProofs!CounterCoversLoop` | `[]WindowCoversLoop` | `~ Concurrent` |
| `HandshakeProofs!CountsStandBelowLabels` | `[]CountFollowsLabel` | `~ Concurrent` |
| `HandshakeProofs!ThreadLifetimes` | `StartTogether`, `NotStoppedWhileMeasuring`, `NoThreadOutlivesCall` | `~ Concurrent` |
| `HandshakeProofs!NoOtherFault` | `[]FaultsKnown` | `~ Concurrent` |
| `RefinementProofs!ReportImplemented` | `ImplementsReport` | `~ Concurrent` |
| `RefinementProofs!ReportsComplete` | `[]ReportComplete` | `~ Concurrent` |
| `WallTimerProofs!TypeCorrect` | `[]TypeOK` | nothing more |
| `WallTimerProofs!RegistersKept` | `[]KernelRegistersKept` | nothing more: any `Live` registers |
| `WallTimerProofs!LoopRuns` | `[]LoopRunsItsIterations` | nothing more |
| `WallTimerProofs!TimeLogged` | `[]LoggedIsElapsed` | nothing more: a second of any length, any steps of the clock |
| `WallTimerProofs!RowsLogged` | `[]EveryRowLogged` | nothing more |
| `DriverProofs!TypeCorrect` | `[]TypeOK` | nothing more |
| `DriverProofs!BufferOwned` | `[]NothingLeaks` | `~ Unload` |
| `DriverProofs!GuardsConsistent` | `[]GuardsAgree` | same |
| `DriverProofs!MovesSafe` | `[]MovesInBuffer` | same: overlapping commands and failed allocations too |
| `DriverProofs!MeasurementsNeverFault` | `[]OnlyKmallocFaults` | same |
| `DriverProofs!BufferStays` | `BufferStable` | same |
| `ModIoctlProofs!TypeCorrect` | `[]TypeOK` | nothing more |
| `ModIoctlProofs!RightCommand` | `[]SendsWhatIsAsked` | nothing more: a long of any width above four bits |
| `ModIoctlProofs!RightStatus` | `[]StatusTells` | nothing more |
| `ModIoctlProofs!RefusalsExplained` | `[]RefusalHasCause` | nothing more |
| `EcrScriptProofs!RemovedInTheEnd` | `[]ModuleRemoved` | nothing more: overlapping sessions and faults too |
| `EcrScriptProofs!TypeCorrect` | `[]TypeOK` | nothing more: overlapping sessions and faults too |
| `EcrScriptProofs!ReadsItsOwn` | `[]OwnOrNothing` | nothing more: a log of any size, any failing commands (the property says `~ overlapped`) |
| `EcrScriptProofs!ReadsWhatWasMeasured` | `[]OwnValues` | nothing more: any failing commands (the property says `Undisturbed`) |
| `EcrScriptProofs!PrintsTheStatistics` | `[]StatisticsTrue` | same: any number of rounds, any times |
| `EcrScriptProofs!MarksTheExits` | `[]MarksTell` | same |

The argument for the handshake. `WindowCoversLoop` is not inductive: that the
counter is right in the loop depends on where the NOP thread is when INSTR
leaves its spin, and that there is a NOP thread at all on where the ioctl is.
The inductive invariant `SerialInv` of `HandshakeProofs` has these parts:

* `Exclusive`: at most one call is in the driver;
* `Phase`: what threads a call has, and which the globals name, at each point of
  `nop_timing_start`;
* `Stopping`: a thread is told to stop only by the end of its call, and a NOP
  thread ends only for that or a signal;
* `Handshake`: each flag is up only while INSTR waits for it; a NOP thread in the
  middle of an answer implies the flag; from the answer on, `count`, and `acc`
  where it is about to be written back, belong to INSTR's current entry; after the
  label it is the last line of the log until the count is printed;
* `CountFollowsLabel` itself.

The proof goes by action; each lemma `Serial...` shows that a step of the one
active call keeps its own part, and `Locally` that the others' hold because they
are not in the driver. `InterruptsAreRestored` needs neither turns nor the
handshake: an INSTR thread is masked only between the request and the end of its
wait, and only its own steps move it, so `MaskInv` is local to the thread.

The refinement adds `ReportInv` to `SerialInv`, since the mapping looks at the log
and at `entry`: a call whose INSTR thread has not run has no line and is at entry 1; an
INSTR thread that is through has its whole program behind it; an entry whose loop runs
is one that is measured; and from the count to the next entry the count is the last
line. A step is then quiet (it leaves log, `entry` and the mapped step alone, or ends a
report), logs a line or leaves an entry, and each of the last two is an action of
`SessionReport`.

That the report is complete needs to be known at every step, not only at the end:
`CompleteInv` adds to `ReportInv` that the lines of a call in the log are exactly those
owed for the entries that INSTR has left behind (`Owed`, up to `entry`) and those of the
entry it is at (`Begun`), in order. A skipped entry owes nothing, a zeroed one a single
line; when the last entry is behind it, INSTR owes nothing more.

For the driver there are two invariants. `SerialInv` of `DriverProofs` is
`TypeInv` (types, and what each program counter says of the command),
`Exclusive`, `NothingLeaks`, `Pointers` (`vmem_aligned = Align(vmem)` except
between the two stores, and the register then holds `vmem`) and `Guarded` (past a
guard there is a buffer); `TurnsInv` says that it holds until commands overlap.
`MovesInv` needs no turns: without `Unload` no buffer is freed while a client is
in a command, and whatever `vmem_aligned` is, it is NULL or the aligned address of some
buffer in the heap. The arithmetic is in `AlignFacts` and `MoveFits`. `SuppliedInv` adds
what is needed of moves that fault: until some `kmalloc` has failed (the history variable
`denied`), no client past its gate finds NULL, so that a fault means `denied`; that it
also means `overlapped` is `OnlyKmallocFaults`.

For wall timing, `IInv` has three parts. `Place` says where the thread can be, and
that it is at a machine instruction of the current wrapper. `Counting`: in the loop,
`runs = i`, which holds because no wrapper of the two programs loses a register
(`WallGood`, `FlushGood` go through them one by one). `Keeping`: interrupts are off
between a read and its write-back, so that `rax` still holds the latest value
of the register that is about to be written. The logged time has an invariant of its
own, `ClockInv`, and a lemma, `SubExact`: seconds and nanoseconds of two readings,
subtracted with a borrow, are those of the difference, also where it is negative.
`RowsInv` adds that no row has two lines in the log, and that those with a line are the
entries that are through (`Past`) and log one. That the names of the entries are distinct,
and are the rows of the script's tables but for `INVPCID`, is shown of the two programs
entry by entry.

For mod_ioctl, `ProcessInv` relates the program counter to what was parsed and
sent; `ParsedMeant` does the arithmetic modulo `Limit`, for any width. `CauseInv` adds
where an error in `errno` came from: an argument parsed before, out of range or printed
as having more text behind it. An argument that is itself out of range is -1 as a long,
which is never refused.

For the script, `RemovalInv` says that an inserted module has a session that
answers for it: one under way, whose EXIT trap is still to come, or one whose
trap did not know the module because it was not named first.

Whose values are read depends on the whole log, of which the script looks at the last
lines. The invariants build on each other:

* `TypeInv`: lines are well formed (`Proper`: a label has a line behind it that tells of
  no other row). The ring may cut the log anywhere, and a cut keeps this.
* `FrontierInv`: what is measured and read is of earlier rounds, or of this one as far as
  the session has come; no row is measured twice in a round (`Unique`).
* `AloneInv`, while sessions take turns: after the last insertion, the last line of a row
  in the log holds the newest value that was measured for it (`LogFresh`, over `Newest`),
  in whichever round that was. A command that fails adds no values, and no lines that tell of a row;
  one that faults midway replaces the values of the rows before the fault (`Replaces`). It
  survives any loss of lines, hence `OwnOrNothing` for a log of any size.
* `FullInv`, when nothing was lost: no row that was ever measured in the session is
  missing in the log (`LogShown`), and each value read agrees with the newest at its
  round (`Agrees`). That is `OwnValues`. A value once read stays the right one, since
  later measurements are of later rounds (`LatestStays`).
* `SteadyInv`: each measured value is what an entry of the program gives (`Taken`), and
  each round that is over was read exactly once per row (`Passed`). Without it a sum
  over the words read and one over the rounds with a value would not be comparable.
* `ToldInv`: what is printed is what `StatisticsTrue` and `MarksTell` say, by the
  lemmas below.

`SequenceLemmas` holds what these need of data. The provers know no induction; where a
recursive function is applied to a number of any size, the lemmas take the least number at
which the claim fails (`Least`, from the library's `WFMin`), which is first-order.
`FlattenEquation`, `FlattenCut` and `FlattenTail` say where the lines of a command end
up when they are joined; `SumOfSet` and `AddsAlike` that a sum does not depend on the order, so that the
sum over the words read is the one over the rounds that had a value; `RoundedVariance`
that the variance around the cut average, itself cut to a whole number, is within one of
the exact one.

Only model-checked, not proved:

* `CallEnds` and `CallReturns`: liveness under fairness is beyond the prover.
* the properties of the six runs that expect a violation, which are false.

## Assumptions

Of all modules: a step that is atomic here is not divided by anything another
task can observe.

* *Memory.* Plain loads and stores are taken as sequentially consistent. On x86
  only a store followed by a load of another location may be reordered, and the
  handshake has no such pair on which it relies. The flags are not `volatile`;
  the spin loops re-read them because `kthread_should_stop()` and `pr_info` are
  calls that the compiler cannot see through.
* *Merged steps.* The four stores that open `nop_timing_start` are one step;
  `allow_signal` is part of waking the thread; a check of a flag and the store or
  print that follows it in `nop_f` are one step, as, while calls take turns, no
  other task writes `count` or prints in between; all iterations of an instruction are one step.
* *Kernel.* `kthread_create` returns a thread or an `ERR_PTR`, never NULL. Using
  a freed `task_struct` faults or seems to work; both are allowed. `kmalloc` aligns
  to at least 8 bytes and returns anything that is not in use. Reading beyond the
  buffer does not fault (kernel memory is mapped). If `misc_register` fails the
  module is not inserted; that its line is in the log then is a case of `insmod`.
* *Compiler.* For the store to `vmem_aligned`, `vmem` may be read again or be in
  a register still: `SetAligned` allows both.
* *Machine.* An interrupt saves and restores the general registers. `TS` is part
  of `CR0`, and `DR4` and `DR5` are `DR6` and `DR7`, as `CR4.DE` is 0. A fault (#UD,
  #GP) kills the thread with interrupts on. A caller keeps values only in
  callee-saved registers, of which the wrappers write `rbx`.
* *Turns.* `Concurrent = FALSE`, `Unload = FALSE` and `~ overlapped` say that
  clients and users behave as one `ecr.sh` does: one command at a time, no `rmmod`
  while one runs. The code does not enforce any of these, which is what `nop_waits`
  and `driver_unload` are about. `HaveVmem` is a constant in `NopTimer` for the same
  reason: the script never allocates during a measurement.
* *Script.* INT arrives between commands (bash waits for the running one). Lines
  that the driver logs before and after the measured ones are one line each.
  `mod_ioctl` may fail for any reason, before the driver has logged anything or after
  its message that a command came. A NOP thread that gets SIGKILL during a session, after
  which the report breaks off and the ioctl hangs, is only in `NopTimer`. Other kernel
  messages are not in the log. A word that is no number counts as zero, as `$(( ))` takes it.
  Removal by another session comes between two commands, and a command that hangs
  stays as it is; what removal does to one that runs is `driver_unload`.
* *Script, tables.* `EcrScriptAssumption` says of the constants what `ecr.sh` and the
  timers say of them: the list of a timer names no row twice, times are natural numbers
  (counts and nanoseconds are printed unsigned), `XOR` and `CPUID` are in
  `standard_instructions` and not in `flush_instructions` (`ecr.sh:26-61`), and the empty
  word is not a value.
* *mod_ioctl.* `open` fails or not for any reason; a `printf` may leave `ENOTTY` in
  `errno`, as it does where standard output is not a terminal.

## Known deviations

Found while modelling; each with a run that shows it:

1. `nop_timer.c:121`, `nop_waits`: `finish` is one global for all calls. The
   INSTR thread of one call ends the wait of another, which goes on to stop threads
   that still measure. `nop_timer.c:139`: "Wait until INSTR thread has finished".
2. `main.c:88`, `driver_failure`: after a failed `kmalloc` the code tests
   `*vmem`, so it faults where README Note 1 promises a failure and a rerun.
3. `memory_timer.c:56`, `cache_timer.c:58`, `driver_probes`: pages 1 to 9 and
   the word offsets 64 to 4096 lie outside the 512-byte buffer (and `vmem_aligned`
   may be 8 bytes into it).
4. `main.c:108`, `driver_unload`: `fops` has no `.owner`, and cleanup stops and
   awaits nothing; `nop_timer.c:32` has the NOP thread "signalled to stop by module
   cleanup".
5. `ecr.sh:245`, `script_address`: the address is looked for in the whole log,
   so that an earlier session's is shown when this one's allocation logged none.
6. `ecr.sh:161-162`, `script_rerun`: the traps keep the first word of the
   command line. With an option first, as the usage has it, they remove nothing,
   and the rerun that `ecr.sh:247` asks for cannot insert the module.

Read off the code, without a run of their own:

* `main.c:88` also reports failure when the buffer holds a zero, and `main.c:93`
  prints the words stored at the two addresses, not the addresses.
* `cache_timer.c:65` logs `vmem_aligned` plus bytes where `:58` times it plus words.
* `nop_timer.c:145` stops INSTR although it has normally ended by then; `:143`
  says "if not already finished". Its consequence, a fault on a reaped thread, is
  part of `FaultsKnown`.
* the ERR trap (`ecr.sh:160`) says "aborted", and the script goes on: `wall_parse` and
  `nop_parse` (`ecr.sh:63-75`) look back to the start of the session, so that a command
  that fails after the first round leaves the values of the round before to be read, and
  they enter averages and variances once more.
* with overlapping commands, `main.c:85-86` stores NULL when the second of two racing
  allocations fails: a command that has passed its gate then moves through NULL, and the
  first buffer leaks.
* `INVPCID` is a row of the table (`ecr.sh:35`) that neither timer logs: its
  averages are zero.
* `ecr.sh:127`: in flush mode the averages of `CPUID` and `XOR` are unset, and count
  as zero: `MarksTell` states what follows, that any row that takes time is marked.
* `mod_ioctl.c:60`: the usage line says "2: kmalloc"; 2 is THREAD, and KMALLOC is 7.
* `mod_ioctl.c:38`: an option beyond `ULONG_MAX` is not refused as one out of range;
  it becomes -1 and ends as an "Invalid option", with `EXIT_SUCCESS`.
* `nop_timer.c:140`: an instruction that the CPU lacks kills the INSTR thread, and
  the ioctl then sleeps for ever, in a sleep that no signal ends.
* `instructions.c:488`: the "A" constraint holds the 32-bit zero in `eax` or `edx`
  only, so that half of what WRMSR writes to `TEST_CTL` is what the other held.
* `cpuid_test_support_f` (`instructions.c:27`) writes `rax` without saying so; nothing
  after it relies on `rax`.
* A second session removes the first one's module (`ecr.sh:150`). The first goes on:
  its commands fail, and each row is read from the last round that worked.

## Not modelled

* Cycle counts, and what an instruction does to caches, ports and time: they are
  what the tool measures. So the sum of a hundred cycle counts in
  `cache_timer.c:59` and the address `cache_timer.c:65` prints are not in a model; the
  second is wrong in every state, as noted above. That `invd` loses what caches
  have not written back, and that `movntdqa` overwrites a user's `xmm1`, concern
  state of the rest of the machine.
* The wording of messages, `results.csv` (which cache and memory timing append to,
  whoever left it there), the layout of the tables, and getopt: the options are a
  choice of a mode, of `-k`, and of whether the module comes first.
* `cpuid_test_support_f`, which only logs, and wrappers that nothing calls
  (`getsec_f`, `xsetbv_f`, `invpcid_f`).
* Three sessions at once: a third could insert the module again while the first
  still measures. Two sessions show that values are lost then; what is claimed of
  values is for sessions in turn.

## Plan

Done: `NopTimer` with its report, `Driver` for overlapping commands where the property
holds, `WallTimer` with `Instructions`, `ModIoctl`, `EcrScript` with `Statistics`. Every
invariant that a passing run checks is proved. Left:

1. `EcrSystem`: composition of `EcrScript` and `Driver`, with removal while a command
   runs. It would show that `Unload` may be `FALSE` when sessions take turns, which is
   so far an assumption.
2. Three sessions at once, with a third that inserts the module again while the first
   still measures.

## How to run

    tlc -config NopTimerSerial.cfg MCNopTimer
    tlc -config WallTimer.cfg MCWallTimer
    tlc -config DriverSerial.cfg MCDriver
    tlc -config ModIoctl.cfg MCModIoctl
    tlc -config EcrScriptSerial.cfg MCEcrScript
    tlapm RefinementProofs.tla
    tlapm EcrScriptProofs.tla

The other configurations are named after the questions above; `PROJECT.json`
lists runs, properties, theorems, and for every definition the lines it models.
Operators marked "Mutant" are broken variants of the definition that follows
them. No action uses them: they are there to be put in its place, to see
that a property notices.
