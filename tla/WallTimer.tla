----------------------------- MODULE WallTimer -----------------------------
(***************************************************************************)
(* wall_timer.c and wall_timer.h: one call of wall_timing_start or of      *)
(* buffer_flush_start.  Each instruction of a list runs in a loop between  *)
(* two readings of the wall clock, and the difference is logged.  Around   *)
(* the thread, time passes, the clock may be set, and where interrupts are *)
(* on, handlers and other threads run and change registers of the kernel.  *)
(***************************************************************************)
EXTENDS Integers, Sequences, FiniteSets, Instructions

CONSTANTS
  Iterations,  \* LOOP_ITERATIONS
  NS,          \* nanoseconds in a second
  MaxElapsed,  \* bound: the longest loop, in nanoseconds
  Steps,       \* by how much somebody sets the clock, at most once in a loop
  Live,        \* registers that the kernel gives new values meanwhile
  Faulting     \* instructions that fault on some CPUs

ASSUME WallTimerAssumption ==
  /\ Iterations \in Nat \ {0} /\ NS \in Nat \ {0} /\ MaxElapsed \in Nat
  /\ Steps \subseteq Int
  /\ Live \subseteq Register

-----------------------------------------------------------------------------
(* The program                                                             *)

TIMING_LOOP(call, name) ==
  [call |-> call, name |-> name, masked |-> FALSE, guard |-> "none"]

\* Mutant: interrupts stay on.
SuspendNothing(call, name) == TIMING_LOOP(call, name)

TIMING_LOOP_SUSPEND_INTERRUPTS(call, name) ==
  [TIMING_LOOP(call, name) EXCEPT !.masked = TRUE]

TIMING_LOOP_BOOT_FEATURE_CHECK(call, name) ==
  [TIMING_LOOP(call, name) EXCEPT !.guard = "feature"]

TIMING_LOOP_CHECK_FOR_KMALLOC(call, name) ==
  [TIMING_LOOP(call, name) EXCEPT !.guard = "kmalloc"]

wall_timing_start == <<
  TIMING_LOOP(xor_f, "XOR"),
  TIMING_LOOP(cpuid_f, "CPUID"),
  TIMING_LOOP(rdtsc_f, "RDTSC"),
  TIMING_LOOP(rdtscp_f, "RDTSCP"),
  TIMING_LOOP(invd_f, "INVD"),
  TIMING_LOOP(clts_f, "CLTS"),
  TIMING_LOOP(inb_f, "INB"),
  TIMING_LOOP(outb_f, "OUTB"),
  TIMING_LOOP(invlpg_f, "INVLPG"),
  TIMING_LOOP_SUSPEND_INTERRUPTS(mov_from_cr8_f, "MOV_FROM_CR8"),
  TIMING_LOOP_SUSPEND_INTERRUPTS(mov_to_cr0_f, "MOV_TO_CR0"),
  TIMING_LOOP_SUSPEND_INTERRUPTS(mov_to_cr3_f, "MOV_TO_CR3"),
  TIMING_LOOP_SUSPEND_INTERRUPTS(mov_to_cr4_f, "MOV_TO_CR4"),
  TIMING_LOOP_SUSPEND_INTERRUPTS(mov_to_cr8_f, "MOV_TO_CR8"),
  TIMING_LOOP_SUSPEND_INTERRUPTS(mov_dr0_f, "MOV_DR0"),
  TIMING_LOOP_SUSPEND_INTERRUPTS(mov_dr1_f, "MOV_DR1"),
  TIMING_LOOP_SUSPEND_INTERRUPTS(mov_dr2_f, "MOV_DR2"),
  TIMING_LOOP_SUSPEND_INTERRUPTS(mov_dr3_f, "MOV_DR3"),
  TIMING_LOOP_SUSPEND_INTERRUPTS(mov_dr4_f, "MOV_DR4"),
  TIMING_LOOP_SUSPEND_INTERRUPTS(mov_dr5_f, "MOV_DR5"),
  TIMING_LOOP_SUSPEND_INTERRUPTS(mov_dr6_f, "MOV_DR6"),
  TIMING_LOOP_SUSPEND_INTERRUPTS(mov_dr7_f, "MOV_DR7"),
  TIMING_LOOP(rdmsr_f, "RDMSR"),
  TIMING_LOOP(rdpmc_f, "RDPMC"),
  TIMING_LOOP_BOOT_FEATURE_CHECK(rdrand_f, "RDRAND"),
  TIMING_LOOP_BOOT_FEATURE_CHECK(rdseed_f, "RDSEED"),
  TIMING_LOOP(wbinvd_f, "WBINVD"),
  TIMING_LOOP(wrmsr_f, "WRMSR"),
  TIMING_LOOP_CHECK_FOR_KMALLOC(movntdqa_f, "MOVNTDQA"),
  TIMING_LOOP_CHECK_FOR_KMALLOC(movntdq_f, "MOVNTDQ") >>

buffer_flush_start == <<
  TIMING_LOOP_CHECK_FOR_KMALLOC(clflush_f, "CLFLUSH"),
  TIMING_LOOP(sfence_f, "SFENCE"),
  TIMING_LOOP(mfence_f, "MFENCE") >>

Program == [WALL |-> wall_timing_start, WALL_FL |-> buffer_flush_start]

-----------------------------------------------------------------------------
VARIABLES
  cmd, buffer, features,  \* the command, vmem_aligned # NULL, boot_cpu_has
  entry, pc,              \* where the thread is
  i, op, runs,            \* the loop's i, the next operation of the asm, and
                          \* history: how often it ran
  irqs,                   \* interrupts are on
  rax,                    \* the registers whose latest value rax holds
  stale,                  \* the registers that lost the kernel's latest value
  ts_start, elapsed, set, \* the first reading, and since then: the time that
                          \* passed, and by how much the clock was set
  log, value              \* the rows logged, and the last value

call   == <<cmd, buffer, features>>
loop   == <<i, op, runs>>
cpu    == <<irqs, rax, stale>>
clock  == <<ts_start, elapsed, set>>
report == <<log, value>>
vars   == <<call, entry, pc, loop, cpu, clock, report>>

Here == Program[cmd][entry]
In(from) == pc = from
To(to)   == pc' = to

-----------------------------------------------------------------------------
(* The thread                                                              *)

\* The guards of the macros, and SUSPEND_INTERRUPTS up to the loop.
Skip ==
  /\ Here.guard = "feature" /\ Here.name \notin features
  /\ To("next")
  /\ UNCHANGED <<irqs, report>>

\* Mutant: no line if there is no buffer.
LogNothing ==
  /\ Here.guard = "kmalloc" /\ ~ buffer
  /\ To("next")
  /\ UNCHANGED <<irqs, report>>

LogZero ==
  /\ Here.guard = "kmalloc" /\ ~ buffer
  /\ To("next")
  /\ log' = Append(log, Here.name) /\ value' = 0
  /\ UNCHANGED irqs

Enter ==
  /\ Here.guard = "feature" => Here.name \in features
  /\ Here.guard = "kmalloc" => buffer
  /\ To("start")
  /\ irqs' = (irqs /\ ~ Here.masked)
  /\ UNCHANGED report

Macro ==
  /\ In("macro")
  /\ Skip \/ LogZero \/ Enter
  /\ UNCHANGED <<call, entry, loop, rax, stale, clock>>

timespec(t) == [tv_sec |-> t \div NS, tv_nsec |-> t % NS]

\* getnstimeofday(&ts_start): any time; the seconds leave room to set it back.
TimingStart ==
  /\ In("start") /\ To("test")
  /\ \E t \in 2 * NS .. 3 * NS - 1 : ts_start' = timespec(t)
  /\ elapsed' = 0 /\ set' = 0
  /\ i' = 0 /\ op' = 1 /\ runs' = 0
  /\ UNCHANGED <<call, entry, cpu, report>>

\* Mutant: one iteration too many.
LoopTestInclusive ==
  /\ In("test")
  /\ To(IF i <= Iterations THEN "asm" ELSE "end")
  /\ UNCHANGED <<call, entry, loop, cpu, clock, report>>

LoopTest ==
  /\ In("test")
  /\ To(IF i < Iterations THEN "asm" ELSE "end")
  /\ UNCHANGED <<call, entry, loop, cpu, clock, report>>

\* The effect of an operation on rax and on the kernel's registers.
Effect(m) ==
  \/ /\ m.op = "compute"
     /\ rax' = IF "rax" \in m.writes THEN {} ELSE rax
     /\ UNCHANGED stale
  \/ /\ m.op = "get"
     /\ rax' = m.on \ stale
     /\ UNCHANGED stale
  \/ /\ m.op = "put"
     /\ stale' = (stale \ m.on) \cup (m.on \ rax)
     /\ UNCHANGED rax
  \/ /\ m.op = "fix"
     /\ stale' = stale \cup m.on
     /\ UNCHANGED rax

\* A wrapper that loses a register of its caller may lose i.  runs stops at
\* Iterations + 1, which is wrong already.
Asm ==
  LET f == Here.call
  IN  /\ In("asm")
      /\ Effect(f.asm[op])
      /\ \/ /\ op < Len(f.asm)
            /\ op' = op + 1
            /\ UNCHANGED <<pc, i, runs>>
         \/ /\ op = Len(f.asm)
            /\ op' = 1 /\ To("test")
            /\ i' \in IF Lost(f) = {} THEN {i + 1} ELSE 1 .. Iterations
            /\ runs' = IF runs <= Iterations THEN runs + 1 ELSE runs
      /\ UNCHANGED <<call, entry, irqs, clock, report>>

\* #UD or #GP: the process is killed, with interrupts on.
Fault ==
  /\ In("asm") /\ Here.name \in Faulting
  /\ To("oops")
  /\ irqs' = TRUE
  /\ UNCHANGED <<call, entry, loop, rax, stale, clock, report>>

\* The difference, normalized: 0 <= tv_nsec < NS.
timespec_sub(lhs, rhs) ==
  timespec((lhs.tv_sec - rhs.tv_sec) * NS + lhs.tv_nsec - rhs.tv_nsec)

Total(ts) == ts.tv_sec * NS + ts.tv_nsec
ts_end    == timespec(Total(ts_start) + elapsed + set)

\* Mutant: the operands are swapped.
TestOfTimeSwapped == timespec_sub(ts_start, ts_end)
test_of_time      == timespec_sub(ts_end, ts_start)

\* getnstimeofday(&ts_end), the subtraction, and tv_nsec in the log.
TimingEnd ==
  /\ In("end") /\ To("leave")
  /\ log' = Append(log, Here.name)
  /\ value' = test_of_time.tv_nsec
  /\ UNCHANGED <<call, entry, loop, cpu, clock>>

\* local_irq_restore and local_irq_enable.
Leave ==
  /\ In("leave") /\ To("next")
  /\ irqs' = TRUE
  /\ UNCHANGED <<call, entry, loop, rax, stale, clock, report>>

NextEntry ==
  /\ In("next")
  /\ IF entry < Len(Program[cmd])
     THEN entry' = entry + 1 /\ To("macro")
     ELSE To("done") /\ UNCHANGED entry
  /\ UNCHANGED <<call, loop, cpu, clock, report>>

Thread ==
  Macro \/ TimingStart \/ LoopTest \/ Asm \/ Fault \/ TimingEnd \/ Leave \/ NextEntry

-----------------------------------------------------------------------------
(* The rest of the machine                                                 *)

Timing == pc \in {"test", "asm", "end"}

Tick ==
  /\ Timing /\ elapsed < MaxElapsed
  /\ elapsed' = elapsed + 1
  /\ UNCHANGED <<call, entry, pc, loop, cpu, ts_start, set, report>>

SetClock ==
  /\ Timing /\ set = 0
  /\ set' \in Steps
  /\ UNCHANGED <<call, entry, pc, loop, cpu, ts_start, elapsed, report>>

\* A handler, or a thread that runs in between, gives r a new value; rax comes
\* back as it was.
Interrupt(r) ==
  /\ irqs /\ Timing
  /\ stale' = stale \ {r}
  /\ rax' = rax \ {r}
  /\ UNCHANGED <<call, entry, pc, loop, irqs, clock, report>>

-----------------------------------------------------------------------------
Init ==
  /\ cmd \in DOMAIN Program
  /\ buffer \in BOOLEAN
  /\ features \in SUBSET {"RDRAND", "RDSEED"}
  /\ entry = 1 /\ pc = "macro"
  /\ i = 0 /\ op = 1 /\ runs = 0
  /\ irqs = TRUE /\ rax = {} /\ stale = {}
  /\ ts_start = timespec(0) /\ elapsed = 0 /\ set = 0
  /\ log = <<>> /\ value = 0

Next == Thread \/ Tick \/ SetClock \/ \E r \in Live : Interrupt(r)

\* The thread is scheduled: the kernel preempts it, but not for ever.
Spec == Init /\ [][Next]_vars /\ WF_vars(Thread)

-----------------------------------------------------------------------------
(* Properties                                                              *)

TypeOK ==
  /\ cmd \in DOMAIN Program /\ buffer \in BOOLEAN
  /\ features \in SUBSET {"RDRAND", "RDSEED"}
  /\ entry \in DOMAIN Program[cmd]
  /\ pc \in {"macro", "start", "test", "asm", "end", "leave", "next", "done", "oops"}
  /\ i \in 0 .. Iterations
  /\ op \in DOMAIN Here.call.asm
  /\ runs \in 0 .. Iterations + 1
  /\ irqs \in BOOLEAN /\ rax \in SUBSET Register /\ stale \in SUBSET Register
  /\ ts_start \in [tv_sec : Nat, tv_nsec : 0 .. NS - 1]
  /\ elapsed \in Nat /\ set \in Int
  /\ log \in Seq({Program[cmd][k].name : k \in DOMAIN Program[cmd]})
  /\ value \in Int

\* Whatever registers a wrapper uses, what is measured is LOOP_ITERATIONS runs
\* of it: the asm constraints name all that a caller keeps its i in.
LoopRunsItsIterations == pc \in {"end", "leave"} => runs = Iterations

\* A wrapper that reads a register of the kernel and writes it back undoes no
\* change that comes in between.  Only TS, CR8 and the MSR TEST_CTL, which the
\* measurement sets to a value of its own, are left changed.
KernelRegistersKept == stale \subseteq {"TS", "CR8", "TEST_CTL"}

\* The logged time is right modulo a second: it is the time the loop took if
\* that is less than a second and nobody sets the clock.
LoggedIsElapsed ==
  pc = "leave" =>
    /\ value \in 0 .. NS - 1
    /\ (value - elapsed - set) % NS = 0

\* ecr.sh's arrays of rows.
standard_instructions ==
  {"XOR", "CPUID", "RDTSC", "RDTSCP", "INVD", "CLTS", "INB", "OUTB", "INVLPG",
   "INVPCID", "MOV_FROM_CR8", "MOV_TO_CR0", "MOV_TO_CR3", "MOV_TO_CR4",
   "MOV_TO_CR8", "MOV_DR0", "MOV_DR1", "MOV_DR2", "MOV_DR3", "MOV_DR4", "MOV_DR5",
   "MOV_DR6", "MOV_DR7", "RDMSR", "RDPMC", "RDRAND", "RDSEED", "WBINVD", "WRMSR",
   "MOVNTDQA", "MOVNTDQ"}
flush_instructions == {"CLFLUSH", "SFENCE", "MFENCE"}

Rows == [WALL |-> standard_instructions, WALL_FL |-> flush_instructions]

\* A call logs each row that the script looks for, once: if one were missing,
\* wall_parse would find the line of the round before.  INVPCID is commented
\* out, and a feature that the CPU lacks has no line in any round.
EveryRowLogged ==
  pc = "done" =>
    \A r \in Rows[cmd] :
      LET lines == {k \in DOMAIN log : log[k] = r}
      IN  IF r = "INVPCID" \/ r \in {"RDRAND", "RDSEED"} \ features
          THEN lines = {}
          ELSE Cardinality(lines) = 1

\* A call comes to an end: it returns, or an instruction faults.
CallReturns == <>(pc \in {"done", "oops"})

=============================================================================
